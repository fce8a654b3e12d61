--------------------------- MODULE ConstraintProofs ---------------------------
(***************************************************************************)
(* What filter_values lets through, for every table of rules, every        *)
(* command and every state of every device.                                *)
(***************************************************************************)
EXTENDS ConstraintCheck, ConstraintLemmas

\* What a run of ConstraintCheck knows of its variables.
CallInv ==
  /\ \A r \in rules : IsRule(r)
  /\ values \in Values
  /\ called => filtered = FilterValues(rules, values, current)

LEMMA CallInvariant == Spec => []CallInv
<1>1. Init => CallInv
  BY TablesAssumption DEF Init, CallInv, Commands
<1>2. CallInv /\ [Next]_vars => CallInv'
  BY DEF CallInv, Next, Filter, vars
<1> QED  BY <1>1, <1>2, PTL DEF Spec

(* A value is dropped only because a rule triggered by the command merged in *)
(* the reported state excludes it (Constraints.filter_values).               *)
THEOREM DropsOnlyForbiddenValues == Spec => []DropsOnlyForbidden
<1>1. CallInv => DropsOnlyForbidden
  BY DroppedIsForbidden DEF CallInv, DropsOnlyForbidden
<1> QED  BY <1>1, CallInvariant, PTL

(* With a table that does not mix None and sets on a data point, no value is *)
(* kept that a rule triggered by the merged values excludes.                 *)
THEOREM KeepsNoForbiddenValue == Spec => []KeepsNoForbidden
<1>1. CallInv => KeepsNoForbidden
  BY KeptIsAllowed DEF CallInv, KeepsNoForbidden
<1> QED  BY <1>1, CallInvariant, PTL

(* If moreover no rule excludes values of a data point that triggers rules,  *)
(* the values that are kept respect the rules on the state they lead to.     *)
THEOREM OutcomeRespectsTheRules == Spec => []OutcomeRespectsRules
<1>1. CallInv => OutcomeRespectsRules
  BY OutcomeIsAllowed DEF CallInv, OutcomeRespectsRules
<1> QED  BY <1>1, CallInvariant, PTL
=============================================================================
