--------------------------- MODULE ConstraintLemmas ---------------------------
(***************************************************************************)
(* What filter_values drops and keeps, for every table of rules, every     *)
(* command and every state: lemmas on the operators of Constraints.        *)
(***************************************************************************)
EXTENDS Constraints, TLAPS

\* What is excluded from a data point by the union of the triggered blacklists.
LEMMA BlacklistUnion ==
  ASSUME NEW T, NEW merged, NEW d, NEW x
  PROVE  /\ d \in DOMAIN Blacklist(T, merged) <=>
              \E r \in Triggered(T, merged) : d \in DOMAIN r.blacklist
         /\ d \in DOMAIN Blacklist(T, merged) =>
              (x \in Blacklist(T, merged)[d] <=>
                \E r \in Triggered(T, merged) :
                  d \in DOMAIN r.blacklist /\ x \in r.blacklist[d])
  BY DEF Blacklist

\* Every rule that filter_values applies to a dropped value excludes it.
LEMMA DroppedIsForbidden ==
  ASSUME NEW T, NEW v \in Values, NEW s, NEW d \in Keys(v),
         d \notin Keys(FilterValues(T, v, s))
  PROVE  Forbidden(T, Merge(s, v), d, v[d])
<1> DEFINE m == Merge(s, v)
           b == Blacklist(T, m)
<1> d \in DataPoint /\ v[d] # Absent
  BY DEF Keys
<1>1. d \in DOMAIN b /\ (b[d] = {} \/ v[d] \in b[d])
  BY DEF FilterValues, Keys
<1> HIDE DEF m
<1>2. PICK r \in Triggered(T, m) : d \in DOMAIN r.blacklist
  BY <1>1, BlacklistUnion
<1>3. CASE v[d] \in b[d]
  <2>1. PICK h \in Triggered(T, m) : d \in DOMAIN h.blacklist /\ v[d] \in h.blacklist[d]
    BY <1>1, <1>3, BlacklistUnion
  <2> QED  BY <2>1 DEF Forbidden, Excludes, m
<1>4. CASE b[d] = {}
  <2>1. \A x : x \notin r.blacklist[d]
    BY <1>1, <1>2, <1>4, BlacklistUnion
  <2>2. r.blacklist[d] = {}
    BY <2>1
  <2> QED  BY <1>2, <2>2 DEF Forbidden, Excludes, m
<1> QED  BY <1>1, <1>3, <1>4

\* If no data point is named both with values and with None, nothing that is
\* kept is excluded by a rule that the merged values trigger.
LEMMA KeptIsAllowed ==
  ASSUME NEW T, NEW v \in Values, NEW s, Unmixed(T)
  PROVE  Respects(T, FilterValues(T, v, s), Merge(s, v))
<1> DEFINE m == Merge(s, v)
           b == Blacklist(T, m)
           f == FilterValues(T, v, s)
<1> SUFFICES ASSUME NEW d \in Keys(f), NEW r \in Triggered(T, m), Excludes(r, d, f[d])
             PROVE  FALSE
  BY DEF Respects, Forbidden
<1>1. d \in DataPoint /\ f[d] # Absent
  BY DEF Keys
<1>2. f[d] = v[d] /\ ~(d \in DOMAIN b /\ (b[d] = {} \/ v[d] \in b[d]))
  BY <1>1 DEF FilterValues
<1> HIDE DEF m, f
<1>3. d \in DOMAIN r.blacklist /\ (r.blacklist[d] = {} \/ v[d] \in r.blacklist[d])
  BY <1>2 DEF Excludes
<1>4. d \in DOMAIN b
  BY <1>3, BlacklistUnion
<1>5. v[d] \notin r.blacklist[d]
  BY <1>2, <1>3, <1>4, BlacklistUnion
<1>6. PICK x : x \in b[d]
  BY <1>2, <1>4
<1>7. PICK h \in Triggered(T, m) : d \in DOMAIN h.blacklist /\ x \in h.blacklist[d]
  BY <1>4, <1>6, BlacklistUnion
<1>8. r \in T /\ h \in T
  BY DEF Triggered
<1>9. r.blacklist[d] # {}
  BY <1>3, <1>7, <1>8 DEF Unmixed
<1> QED  BY <1>3, <1>5, <1>9

\* If in addition no rule excludes values of a data point that triggers rules,
\* the rules that the outcome triggers were triggered in the evaluation.
LEMMA OutcomeIsAllowed ==
  ASSUME NEW T, NEW v \in Values, NEW s, Unmixed(T), Unchained(T),
         \A r \in T : IsRule(r)
  PROVE  Respects(T, FilterValues(T, v, s), Merge(s, FilterValues(T, v, s)))
<1> DEFINE m == Merge(s, v)
           b == Blacklist(T, m)
           f == FilterValues(T, v, s)
           o == Merge(s, f)
<1>1. ASSUME NEW r \in T  PROVE  o[r.dp] = m[r.dp]
  <2>1. r.dp \in DataPoint
    BY DEF IsRule
  <2>2. r.dp \notin DOMAIN b
    <3> SUFFICES ASSUME r.dp \in DOMAIN b PROVE FALSE
      OBVIOUS
    <3>1. PICK h \in Triggered(T, m) : r.dp \in DOMAIN h.blacklist
      BY BlacklistUnion
    <3> QED  BY <3>1 DEF Triggered, Unchained
  <2>3. f[r.dp] = v[r.dp]
    BY <2>1, <2>2 DEF FilterValues
  <2> QED  BY <2>1, <2>3 DEF Merge
<1>2. Respects(T, f, m)
  BY KeptIsAllowed
<1> HIDE DEF m, f, o
<1>3. Triggered(T, o) = Triggered(T, m)
  BY <1>1 DEF Triggered
<1>4. Respects(T, f, o)
  BY <1>2, <1>3 DEF Respects, Forbidden
<1> QED  BY <1>4 DEF f, o
=============================================================================
