---------------------------- MODULE UpdateChannel ----------------------------
(***************************************************************************)
(* What the update buffer promises to those that command a device, without *)
(* its tasks, futures and delays:                                          *)
(*   - the values to send change only by a command or by what the device   *)
(*     reports;                                                            *)
(*   - a call to the device carries all of them, and calls do not overlap; *)
(*   - who waits for its values to be sent is told so only when a call     *)
(*     that began after it started to wait has returned, or when nothing   *)
(*     is left to send;                                                    *)
(*   - a call is abandoned only once the buffer is closed.                 *)
(***************************************************************************)
EXTENDS Constraints

CONSTANTS
  Client,    \* who waits for values to be sent
  Commands,  \* the values of the commands
  Reports,   \* the states the device reports
  Rules      \* the device's constraints

VARIABLES
  state,    \* the last report; NoValues until the first
  buffer,   \* the values to send, or sent and not confirmed
  payload,  \* the values of the call in flight; NoValues without one
  outcome,  \* what each client knows: "none", "waiting", "done", "cancelled"
  closed    \* whether the buffer is closed

vars == <<state, buffer, payload, outcome, closed>>

Init ==
  /\ state = NoValues /\ buffer = NoValues /\ payload = NoValues
  /\ outcome = [c \in Client |-> "none"]
  /\ closed = FALSE

Report ==
  /\ state' \in Reports
  /\ UNCHANGED <<buffer, payload, outcome, closed>>

\* A command is merged in the buffer, or what the device reports leaves it.
Accepted(v) == FilterValues(Rules, Differing(Merge(buffer, v), state), state)
BufferMayChange ==
  \/ buffer' = buffer
  \/ state # NoValues /\ buffer' = Differing(buffer, state)
  \/ state # NoValues /\ \E v \in Commands : buffer' = Accepted(v)

Change ==
  /\ BufferMayChange
  /\ UNCHANGED <<state, payload, outcome, closed>>

\* A client starts to wait: never for the call in flight.
Enter(c) ==
  /\ payload = NoValues
  /\ BufferMayChange
  /\ buffer' # NoValues
  /\ outcome[c] = "none"
  /\ outcome' = [outcome EXCEPT ![c] = "waiting"]
  /\ UNCHANGED <<state, payload, closed>>

Told(answer) ==
  [c \in Client |-> IF outcome[c] = "waiting" THEN answer ELSE outcome[c]]

\* Nothing is left to send.
Clear ==
  /\ payload = NoValues
  /\ BufferMayChange
  /\ buffer' = NoValues
  /\ outcome' = Told("done")
  /\ UNCHANGED <<state, payload, closed>>

Call ==
  /\ payload = NoValues
  /\ buffer # NoValues
  /\ payload' = buffer
  /\ UNCHANGED <<state, buffer, outcome, closed>>

\* The call in flight returns, or one that takes no time.
CallReturns ==
  /\ payload # NoValues \/ buffer # NoValues
  /\ payload' = NoValues
  /\ outcome' = Told("done")
  /\ UNCHANGED <<state, buffer, closed>>

Abandon ==
  /\ closed
  /\ payload # NoValues
  /\ payload' = NoValues
  /\ outcome' = Told("cancelled")
  /\ UNCHANGED <<state, buffer, closed>>

\* Clients are cancelled; close() is called.
Cancel ==
  /\ \A c \in Client :
       \/ outcome'[c] = outcome[c]
       \/ outcome[c] \in {"waiting", "done"} /\ outcome'[c] = "cancelled"
  /\ DOMAIN outcome' = Client
  /\ closed => closed'
  /\ UNCHANGED <<state, buffer, payload>>

Leave(c) ==
  /\ outcome[c] \in {"done", "cancelled"}
  /\ outcome' = [outcome EXCEPT ![c] = "none"]
  /\ UNCHANGED <<state, buffer, payload, closed>>

Next ==
  \/ Report \/ Change \/ Clear \/ Call \/ CallReturns \/ Abandon \/ Cancel
  \/ \E c \in Client : Enter(c) \/ Leave(c)

Spec == Init /\ [][Next]_vars
=============================================================================
