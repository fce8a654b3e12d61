-------------------------- MODULE MCConstraintCheck --------------------------
(* ConstraintCheck on all the tables of at most two rules of a small device, *)
(* and on the table of the air conditioner.                                  *)
EXTENDS ConstraintCheck, Contrib

Small == {"p", "q"}
Bits == {"0", "1"}
SmallTakes == [d \in Small |-> Bits]
SmallRules ==
  [dp : Small, value : Bits,
   blacklist : UNION {[D -> SUBSET Bits] : D \in SUBSET Small}]
AllTables == {{}} \cup {{r, s} : r, s \in SmallRules}

\* contrib/airton_ac.py, on the data points of its table.
AirtonTakes ==
  [eco |-> {Off, On}, sleep |-> {Off, On},
   mode |-> {Word("auto"), Word("cold"), Word("wet"), Word("fan")},
   set_point |-> {Number(200), Number(210)}, fan |-> {Word("low"), Word("turbo")}]
AirtonTables == {AirtonRules}
AirtonDataPoints == DOMAIN AirtonTakes
AirtonValues == UNION {AirtonTakes[d] : d \in AirtonDataPoints}
=============================================================================
