----------------------------- MODULE DataPoints -----------------------------
(***************************************************************************)
(* The values of a device's data points: the dictionaries that the code    *)
(* types as `Values`.  A dictionary is a function on all the data points   *)
(* that maps the ones it does not hold to Absent.                          *)
(***************************************************************************)

CONSTANTS
  DataPoint,  \* the data points the device has
  Value,      \* the values a data point takes
  Absent      \* marks a data point that a dictionary does not hold

ASSUME AbsentAssumption == Absent \notin Value

Values == [DataPoint -> Value \cup {Absent}]

\* The empty dictionary.
NoValues == [d \in DataPoint |-> Absent]

Keys(v) == {d \in DataPoint : v[d] # Absent}

\* {**old, **new}
Merge(old, new) == [d \in DataPoint |-> IF new[d] # Absent THEN new[d] ELSE old[d]]

\* {k: v for k, v in values.items() if state[k] != v}
Differing(values, state) ==
  [d \in DataPoint |-> IF values[d] = state[d] THEN Absent ELSE values[d]]

\* state[k] raises KeyError for some k of values.
MissingKey(values, state) == Keys(values) \ Keys(state) # {}
=============================================================================
