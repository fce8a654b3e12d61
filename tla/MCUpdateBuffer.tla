--------------------------- MODULE MCUpdateBuffer ---------------------------
(* UpdateBuffer on a device with two data points.                            *)
EXTENDS UpdateBuffer

MCValues(p, q) == [d \in {"p", "q"} |-> IF d = "p" THEN p ELSE q]

SetP == MCValues("1", Absent)
UnsetP == MCValues("0", Absent)
SetQ == MCValues(Absent, "1")
Nothing == MCValues(Absent, Absent)

MCCommands == {SetP, SetQ}
AllCommands == {SetP, UnsetP, SetQ, Nothing}

MCReports == {MCValues("0", "0"), MCValues("1", "0")}
AllReports == {MCValues("0", "0"), MCValues("1", "0"), MCValues("0", Absent)}

\* The slots of the pool are interchangeable.
Slots == Permutations(Caller)

NoRules == {}
\* While p is on, q cannot be set: the table of contrib/ceiling_fan.py, with p
\* for its mode (1: temperature) and q for its speed.
POnExcludesQ == {[dp |-> "p", value |-> "1", blacklist |-> [d \in {"q"} |-> {}]]}
=============================================================================
