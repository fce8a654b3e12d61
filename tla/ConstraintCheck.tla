--------------------------- MODULE ConstraintCheck ---------------------------
(***************************************************************************)
(* One call of Constraints.filter_values on every table of rules, every    *)
(* command and every reported state of a small device.                     *)
(***************************************************************************)
EXTENDS Constraints

CONSTANTS
  Tables,  \* the tables of rules considered: sets of rules
  Takes    \* the values each data point takes

ASSUME TablesAssumption == \A T \in Tables : \A r \in T : IsRule(r)
ASSUME TakesAssumption == Takes \in [DataPoint -> SUBSET Value]

VARIABLES
  rules,     \* the device's CONSTRAINTS
  current,   \* the state the device reported
  values,    \* what is to be sent
  filtered,  \* what filter_values leaves of it
  called     \* whether filter_values has returned

vars == <<rules, current, values, filtered, called>>

States == {s \in [DataPoint -> Value] : \A d \in DataPoint : s[d] \in Takes[d]}
Commands ==
  {v \in Values : \A d \in DataPoint : v[d] \in Takes[d] \cup {Absent}}

\* The callers pass values that differ from the reported ones, for data
\* points the device reported (buffer.py, _filter).
Init ==
  /\ rules \in Tables
  /\ current \in States
  /\ values \in {v \in Commands : \A d \in DataPoint : v[d] # current[d]}
  /\ filtered = NoValues
  /\ called = FALSE

Filter ==
  /\ ~called
  /\ called' = TRUE
  /\ filtered' = FilterValues(rules, values, current)
  /\ UNCHANGED <<rules, current, values>>

\* The device is left alone once the call returned.
Next == Filter \/ (called /\ UNCHANGED vars)

Spec == Init /\ [][Next]_vars

(* filter_values drops a value only because a rule triggered by the command *)
(* merged in the reported state excludes it: the union of the blacklists    *)
(* excludes nothing that no rule excludes, whatever the table.              *)
DropsOnlyForbidden ==
  called => \A d \in Keys(values) \ Keys(filtered) :
              Forbidden(rules, Merge(current, values), d, values[d])

(* If the table never mixes None and sets on a data point, nothing that     *)
(* filter_values keeps is excluded by a rule that the command merged in the *)
(* reported state triggers.                                                 *)
KeepsNoForbidden ==
  called /\ Unmixed(rules) => Respects(rules, filtered, Merge(current, values))

(* If in addition no rule excludes values of a data point that triggers     *)
(* rules, what filter_values keeps can be applied together: on the state    *)
(* the device reaches, no rule excludes a value that was sent, although     *)
(* the rules were evaluated on values that were then dropped.               *)
OutcomeRespectsRules ==
  called /\ Unmixed(rules) /\ Unchained(rules)
    => Respects(rules, filtered, Merge(current, filtered))

(* constraints.py:8: a rule "represents other values that cannot be applied *)
(* if the datapoint/value is set", of any table.                            *)
NoForbiddenKept ==
  called => Respects(rules, filtered, Merge(current, values))
=============================================================================
