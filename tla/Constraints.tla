----------------------------- MODULE Constraints -----------------------------
(***************************************************************************)
(* The constraints of a device (device/constraints.py).  A rule says which *)
(* values of other data points cannot be applied while its own data point  *)
(* has its value.  Its blacklist maps a data point to the values it        *)
(* excludes; the empty set stands for None (and for an empty Python set,   *)
(* which the code treats alike): every value is excluded.                  *)
(***************************************************************************)
EXTENDS DataPoints

IsRule(r) ==
  /\ r.dp \in DataPoint
  /\ r.value \in Value
  /\ DOMAIN r.blacklist \subseteq DataPoint
  /\ \A d \in DOMAIN r.blacklist : r.blacklist[d] \subseteq Value

\* values[self._data_point] raises KeyError for some constraint.
FilterRaises(rules, values, current) ==
  \E r \in rules : Merge(current, values)[r.dp] = Absent

\* The rules whose data point has their value.
Triggered(rules, merged) == {r \in rules : merged[r.dp] = r.value}

\* The union, data point by data point, of the blacklists of the triggered
\* rules.  None adds nothing to a set the union already holds.
Blacklist(rules, merged) ==
  LET hit == Triggered(rules, merged)
  IN  [d \in UNION {DOMAIN r.blacklist : r \in hit} |->
         UNION {r.blacklist[d] : r \in {h \in hit : d \in DOMAIN h.blacklist}}]

\* Seeded fault: the rules are checked on the current values alone, without
\* the values of the command.
FilterOnCurrent(rules, values, current) ==
  LET b == Blacklist(rules, current)
  IN  [d \in DataPoint |->
         IF d \in DOMAIN b /\ (b[d] = {} \/ values[d] \in b[d])
         THEN Absent ELSE values[d]]

\* Seeded fault: an entry that excludes every value excludes none.
FilterWithoutAll(rules, values, current) ==
  LET b == Blacklist(rules, Merge(current, values))
  IN  [d \in DataPoint |->
         IF d \in DOMAIN b /\ values[d] \in b[d] THEN Absent ELSE values[d]]

FilterValues(rules, values, current) ==
  LET b == Blacklist(rules, Merge(current, values))
  IN  [d \in DataPoint |->
         IF d \in DOMAIN b /\ (b[d] = {} \/ values[d] \in b[d])
         THEN Absent ELSE values[d]]

-----------------------------------------------------------------------------
(* What a rule means, data point by data point: the reference the code's    *)
(* union of blacklists is compared with.                                    *)

Excludes(r, d, x) ==
  d \in DOMAIN r.blacklist /\ (r.blacklist[d] = {} \/ x \in r.blacklist[d])

Forbidden(rules, merged, d, x) ==
  \E r \in Triggered(rules, merged) : Excludes(r, d, x)

\* No two rules name the same data point, one with a set of values and one
\* with None.
Unmixed(rules) ==
  \A r, s \in rules : \A d \in DOMAIN r.blacklist \cap DOMAIN s.blacklist :
    r.blacklist[d] = {} <=> s.blacklist[d] = {}

\* No rule excludes values of a data point that triggers a rule.
Unchained(rules) == \A r, s \in rules : r.dp \notin DOMAIN s.blacklist

\* Every value that is present satisfies the rules that `merged` triggers.
Respects(rules, values, merged) ==
  \A d \in Keys(values) : ~Forbidden(rules, merged, d, values[d])
=============================================================================
