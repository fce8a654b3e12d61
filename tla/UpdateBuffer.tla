---------------------------- MODULE UpdateBuffer ----------------------------
(***************************************************************************)
(* The update buffer of a device (device/buffer.py): commands are merged   *)
(* in a buffer, held back for the debounce delay, sent in a single call    *)
(* to the device, and sent again until the device reports their values.    *)
(*                                                                         *)
(* The program is one asyncio event loop.  A coroutine runs from one       *)
(* suspension to the next without interruption: one action.  `pc` says     *)
(* where each coroutine is suspended, `ready` is the loop's FIFO queue of  *)
(* the coroutines whose awaited event has happened and that run next.  A   *)
(* suspended coroutine that is not in `ready` still waits for its event.   *)
(***************************************************************************)
EXTENDS Constraints, Naturals, Sequences, SequencesExt

CONSTANTS
  Caller,     \* the slots of the pool that runs update() (device.py)
  Commands,   \* the values of the commands
  Reports,    \* the states the device reports
  Rules,      \* the device's CONSTRAINTS
  Debounced,  \* whether debounce_updates is not zero
  Retries,    \* the number of retries
  Impatient   \* the slots in which a command may reach the pool's timeout

Updater  == "updater"   \* the task that runs _update
Retrier  == "retrier"   \* the task that runs _check_and_retry
Unwinder == "unwinder"  \* an _update that was cancelled while it was sending
Dead     == "dead"      \* a cancelled task that has nothing left to do

Task == Caller \cup {Updater, Retrier, Unwinder}

ASSUME CallerAssumption ==
  /\ IsFiniteSet(Caller)
  /\ Caller \cap {Updater, Retrier, Unwinder, Dead} = {}
ASSUME CommandsAssumption == Commands \subseteq Values
ASSUME ReportsAssumption == Reports \subseteq Values \ {NoValues}
ASSUME RulesAssumption == \A r \in Rules : IsRule(r)
ASSUME SettingsAssumption ==
  Debounced \in BOOLEAN /\ Retries \in Nat /\ Impatient \subseteq Caller

VARIABLES
  state,     \* _state; NoValues until the first report (None)
  buffer,    \* _buffer
  finished,  \* _update_finished is set
  waiter,    \* _update_waiter: "none", "pending" or "cancelled" (a done future)
  pc,        \* where each task is suspended
  ready,     \* the loop's queue
  thrown,    \* the tasks that run next with a CancelledError
  command,   \* the values each caller has not stored yet
  payload,   \* the copy of the buffer being sent; NoValues between two calls
  attempt,   \* the retries made (i of _check_and_retry)
  closed     \* close() was called

vars == <<state, buffer, finished, waiter, pc, ready, thrown, command, payload,
          attempt, closed>>

CallerPlaces  == {"idle", "start", "state", "finished", "waiter", "orphan"}
UpdaterPlaces == {"idle", "start", "delay", "sending"}
RetrierPlaces == {"idle", "start", "backoff", "finished", "waiter", "orphan", "ended"}

TypeOK ==
  /\ state \in Values /\ buffer \in Values /\ payload \in Values
  /\ finished \in BOOLEAN /\ closed \in BOOLEAN
  /\ waiter \in {"none", "pending", "cancelled"}
  /\ pc \in [Task -> CallerPlaces \cup UpdaterPlaces \cup RetrierPlaces \cup {"unwind"}]
  /\ \A c \in Caller : pc[c] \in CallerPlaces
  /\ pc[Updater] \in UpdaterPlaces
  /\ pc[Retrier] \in RetrierPlaces
  /\ pc[Unwinder] \in {"idle", "unwind"}
  /\ ready \in Seq(Task \cup {Dead})
  /\ thrown \subseteq Caller \cup {Retrier}
  /\ command \in [Caller -> Values]
  /\ attempt \in 0..Retries

Init ==
  /\ state = NoValues /\ buffer = NoValues /\ payload = NoValues
  /\ finished = TRUE /\ closed = FALSE
  /\ waiter = "none"
  /\ pc = [t \in Task |-> "idle"]
  /\ ready = <<>>
  /\ thrown = {}
  /\ command = [c \in Caller |-> NoValues]
  /\ attempt = 0

-----------------------------------------------------------------------------
(* Tasks.                                                                   *)

Queued == ToSet(ready)
Suspended(p) == {t \in Task : pc[t] = p /\ t \notin Queued}
Rest == Tail(ready)

\* The loop runs task t, suspended at p; its event happened, or it was cancelled.
Runs(t, p) == ready # <<>> /\ Head(ready) = t /\ pc[t] = p /\ t \notin thrown
Unwinds(t) == ready # <<>> /\ Head(ready) = t /\ t \in thrown

\* The queue once an event has woken the tasks in S.  The order in which they
\* started to wait is not kept: any order.
Wake(queue, S) == {queue \o woken : woken \in SetToSeqs(S)}

\* BackgroundTask.cancel of the update task.  Only an _update that is sending
\* has something to do when it is cancelled (its finally clause).
Replace(queue, new) ==
  [i \in DOMAIN queue |-> IF queue[i] = Updater THEN new ELSE queue[i]]
CancelledQueue(queue) ==
  IF pc[Updater] # "sending" THEN Replace(queue, Dead)
  ELSE IF Updater \in Queued THEN Replace(queue, Unwinder)
  ELSE Append(queue, Unwinder)
CancelledPlaces(updater) ==
  [pc EXCEPT ![Updater] = updater,
             ![Unwinder] = IF pc[Updater] = "sending" THEN "unwind" ELSE @]

\* update() returns to its caller, or to the loop of _check_and_retry, which
\* catches Exception; a CancelledError ends both.
AfterReturn(t) == IF t = Retrier THEN "backoff" ELSE "idle"
AfterCancel(t) == IF t = Retrier THEN "ended" ELSE "idle"
AttemptNotCounted(t) == attempt  \* seeded fault: i is not incremented
AttemptAfterReturn(t) == IF t = Retrier THEN attempt + 1 ELSE attempt
AttemptAfterCancel(t) == IF t = Retrier THEN 0 ELSE attempt
\* A retry task that ends has its done callback queued.
DoneCallback(t) == IF t = Retrier THEN <<Retrier>> ELSE <<>>

-----------------------------------------------------------------------------
(* update(), lines 61 to 77.  b is the buffer at that point.                *)

\* Seeded fault: the command joins those that await the call in flight.
JoinCall(t, b) ==
  /\ ~finished
  /\ buffer' = b
  /\ pc' = [pc EXCEPT ![t] = "waiter"]
  /\ ready' = Rest
  /\ UNCHANGED <<waiter, attempt>>

\* Line 62, while a call is in flight.
AwaitFinished(t, b) ==
  /\ ~finished
  /\ buffer' = b
  /\ pc' = [pc EXCEPT ![t] = "finished"]
  /\ ready' = Rest
  /\ UNCHANGED <<waiter, attempt>>

\* Seeded fault: the update task is only created together with the future.
RestartOnce(t, b) ==
  /\ b # NoValues
  /\ waiter # "cancelled"
  /\ buffer' = b
  /\ waiter' = "pending"
  /\ pc' = [CancelledPlaces(IF waiter = "none" THEN "start" ELSE "idle")
              EXCEPT ![t] = "waiter"]
  /\ ready' = CancelledQueue(Rest) \o (IF waiter = "none" THEN <<Updater>> ELSE <<>>)
  /\ UNCHANGED attempt

\* Seeded fault: the new task runs before those that are ready.
RestartFirst(t, b) ==
  /\ b # NoValues
  /\ waiter # "cancelled"
  /\ buffer' = b
  /\ waiter' = "pending"
  /\ pc' = [CancelledPlaces("start") EXCEPT ![t] = "waiter"]
  /\ ready' = <<Updater>> \o CancelledQueue(Rest)
  /\ UNCHANGED attempt

\* Lines 64 to 69: the update task starts again, and t awaits the shared future.
Restart(t, b) ==
  /\ b # NoValues
  /\ waiter # "cancelled"
  /\ buffer' = b
  /\ waiter' = "pending"
  /\ pc' = [CancelledPlaces("start") EXCEPT ![t] = "waiter"]
  /\ ready' = Append(CancelledQueue(Rest), Updater)
  /\ UNCHANGED attempt

\* The same when the future was cancelled: to await it raises CancelledError.
RestartAndFail(t, b) ==
  /\ b # NoValues
  /\ waiter = "cancelled"
  /\ buffer' = b
  /\ pc' = [CancelledPlaces("start") EXCEPT ![t] = AfterCancel(t)]
  /\ ready' = Append(CancelledQueue(Rest), Updater) \o DoneCallback(t)
  /\ attempt' = AttemptAfterCancel(t)
  /\ UNCHANGED waiter

\* Lines 70 to 77: nothing is left to send.  A cancelled future cannot be
\* resolved: InvalidStateError, and it stays there.
GiveUp(t, b) ==
  /\ b = NoValues
  /\ buffer' = b
  /\ waiter' = IF waiter = "pending" THEN "none" ELSE waiter
  /\ pc' = [CancelledPlaces("idle") EXCEPT ![t] = AfterReturn(t)]
  /\ ready' \in Wake(CancelledQueue(Rest),
                     IF waiter = "pending" THEN Suspended("waiter") ELSE {})
  /\ attempt' = AttemptAfterReturn(t)

Rearm(t, b) == Restart(t, b) \/ RestartAndFail(t, b) \/ GiveUp(t, b)
ProceedAtOnce(t, b) == Rearm(t, b)  \* seeded fault: line 62 is left out
Proceed(t, b) == AwaitFinished(t, b) \/ (finished /\ Rearm(t, b))

-----------------------------------------------------------------------------
(* update(), called by the pool with the values of a command.               *)

\* Seeded fault: the values already in the buffer are not merged.
FilteredAlone(v) == FilterValues(Rules, Differing(v, state), state)

\* The buffer that _filter returns for the values v.
Filtered(v) == FilterValues(Rules, Differing(Merge(buffer, v), state), state)

\* A data point was never reported: _filter raises KeyError.
FilterFails(v) ==
  LET merged == Merge(buffer, v)
  IN  \/ MissingKey(merged, state)
      \/ FilterRaises(Rules, Differing(merged, state), state)

\* The pool takes a command.
Submit(c) ==
  /\ ~closed
  /\ pc[c] = "idle"
  /\ \E v \in Commands : command' = [command EXCEPT ![c] = v]
  /\ pc' = [pc EXCEPT ![c] = "start"]
  /\ ready' = Append(ready, c)
  /\ UNCHANGED <<state, buffer, finished, waiter, thrown, payload, attempt, closed>>

\* Lines 59 and 110: the first report is awaited.
AwaitState(c) ==
  /\ Runs(c, "start")
  /\ command[c] # NoValues
  /\ state = NoValues
  /\ pc' = [pc EXCEPT ![c] = "state"]
  /\ ready' = Rest
  /\ UNCHANGED <<state, buffer, finished, waiter, thrown, command, payload,
                 attempt, closed>>

\* Line 60: the values are stored.
Store(c) ==
  /\ Runs(c, "start") \/ Runs(c, "state")
  /\ command[c] # NoValues
  /\ state # NoValues
  /\ ~FilterFails(command[c])
  /\ Proceed(c, Filtered(command[c]))
  /\ command' = [command EXCEPT ![c] = NoValues]
  /\ UNCHANGED <<state, finished, thrown, payload, closed>>

FailToStore(c) ==
  /\ Runs(c, "start") \/ Runs(c, "state")
  /\ command[c] # NoValues
  /\ state # NoValues
  /\ FilterFails(command[c])
  /\ pc' = [pc EXCEPT ![c] = "idle"]
  /\ command' = [command EXCEPT ![c] = NoValues]
  /\ ready' = Rest
  /\ UNCHANGED <<state, buffer, finished, waiter, thrown, payload, attempt, closed>>

\* A command without values: what the buffer holds is sent.
Flush(c) ==
  /\ Runs(c, "start")
  /\ command[c] = NoValues
  /\ Proceed(c, buffer)
  /\ UNCHANGED <<state, finished, thrown, command, payload, closed>>

\* Line 62 returns.  It is not checked again that nothing is being sent.
Resume(t) ==
  /\ Runs(t, "finished")
  /\ Rearm(t, buffer)
  /\ UNCHANGED <<state, finished, thrown, command, payload, closed>>

\* Line 69 returns: the future was resolved.
Return(t) ==
  /\ Runs(t, "waiter")
  /\ pc' = [pc EXCEPT ![t] = AfterReturn(t)]
  /\ ready' = Rest
  /\ attempt' = AttemptAfterReturn(t)
  /\ UNCHANGED <<state, buffer, finished, waiter, thrown, command, payload, closed>>

\* CancelledError, of the pool's timeout, of close() or of the shared future.
Unwind(t) ==
  /\ Unwinds(t)
  /\ pc' = [pc EXCEPT ![t] = AfterCancel(t)]
  /\ ready' = Rest \o DoneCallback(t)
  /\ thrown' = thrown \ {t}
  /\ attempt' = AttemptAfterCancel(t)
  /\ command' = [c \in Caller |-> IF c = t THEN NoValues ELSE command[c]]
  /\ UNCHANGED <<state, buffer, finished, waiter, payload, closed>>

-----------------------------------------------------------------------------
(* _update().                                                               *)

\* Lines 80 to 86.
Delay ==
  /\ Debounced
  /\ Runs(Updater, "start")
  /\ pc' = [pc EXCEPT ![Updater] = "delay"]
  /\ ready' = Rest
  /\ UNCHANGED <<state, buffer, finished, waiter, thrown, command, payload,
                 attempt, closed>>

DelayElapses ==
  /\ Updater \in Suspended("delay")
  /\ ready' = Append(ready, Updater)
  /\ UNCHANGED <<state, buffer, finished, waiter, pc, thrown, command, payload,
                 attempt, closed>>

SendsNow ==
  Runs(Updater, "delay") \/ (~Debounced /\ Runs(Updater, "start"))

\* Lines 87 and 88: the future, if there is one, stays unresolved.
NothingToSend ==
  /\ SendsNow
  /\ buffer = NoValues
  /\ pc' = [pc EXCEPT ![Updater] = "idle"]
  /\ ready' = Rest
  /\ UNCHANGED <<state, buffer, finished, waiter, thrown, command, payload,
                 attempt, closed>>

\* Lines 90 to 92: the call is suspended in the stream, until it is connected
\* or drained.
Send ==
  /\ SendsNow
  /\ buffer # NoValues
  /\ finished' = FALSE
  /\ payload' = buffer
  /\ pc' = [pc EXCEPT ![Updater] = "sending"]
  /\ ready' = Rest
  /\ UNCHANGED <<state, buffer, waiter, thrown, command, attempt, closed>>

SendReturns ==
  /\ Updater \in Suspended("sending")
  /\ ready' = Append(ready, Updater)
  /\ UNCHANGED <<state, buffer, finished, waiter, pc, thrown, command, payload,
                 attempt, closed>>

\* Lines 93 to 103.  When the future was cancelled, set_result raises, and so
\* does set_exception: only the finally clause is left, without a retry.
StartsRetry == waiter # "cancelled" /\ Retries > 0 /\ pc[Retrier] = "idle"
\* Seeded fault: the future is dropped without being resolved.
CompleteUnanswered ==
  /\ finished' = TRUE
  /\ waiter' = "none"
  /\ payload' = NoValues
  /\ pc' = [pc EXCEPT ![Updater] = "idle",
                      ![Retrier] = IF StartsRetry THEN "start" ELSE @]
  /\ ready' \in Wake(IF StartsRetry THEN Append(Rest, Retrier) ELSE Rest,
                     Suspended("finished"))
  /\ UNCHANGED <<state, buffer, thrown, command, attempt, closed>>

Complete ==
  /\ finished' = TRUE
  /\ waiter' = "none"
  /\ payload' = NoValues
  /\ pc' = [pc EXCEPT ![Updater] = "idle",
                      ![Retrier] = IF StartsRetry THEN "start" ELSE @]
  /\ \E queue \in Wake(Rest, IF waiter = "pending" THEN Suspended("waiter") ELSE {}) :
       ready' \in Wake(IF StartsRetry THEN Append(queue, Retrier) ELSE queue,
                       Suspended("finished"))
  /\ UNCHANGED <<state, buffer, thrown, command, attempt, closed>>

Sent == Runs(Updater, "sending") /\ Complete

\* The stream takes the message at once: the call does not suspend.
SendAtOnce == SendsNow /\ buffer # NoValues /\ Complete

\* CancelledError at line 92: the finally clause alone.  Nothing resolves the
\* future any more.
UnwindSend ==
  /\ Runs(Unwinder, "unwind")
  /\ finished' = TRUE
  /\ waiter' = "none"
  /\ payload' = NoValues
  /\ pc' = [t \in Task |-> IF t = Unwinder THEN "idle"
                           ELSE IF t \in Suspended("waiter") THEN "orphan"
                           ELSE pc[t]]
  /\ ready' \in Wake(Rest, Suspended("finished"))
  /\ UNCHANGED <<state, buffer, thrown, command, attempt, closed>>

\* A cancelled task runs to its end.
Bury ==
  /\ ready # <<>> /\ Head(ready) = Dead
  /\ ready' = Rest
  /\ UNCHANGED <<state, buffer, finished, waiter, pc, thrown, command, payload,
                 attempt, closed>>

-----------------------------------------------------------------------------
(* _check_and_retry().                                                      *)

\* Lines 133 to 137: the backoff starts.
StartRetry ==
  /\ Runs(Retrier, "start")
  /\ pc' = [pc EXCEPT ![Retrier] = "backoff"]
  /\ ready' = Rest
  /\ UNCHANGED <<state, buffer, finished, waiter, thrown, command, payload,
                 attempt, closed>>

BackoffElapses ==
  /\ Retrier \in Suspended("backoff")
  /\ ready' = Append(ready, Retrier)
  /\ UNCHANGED <<state, buffer, finished, waiter, pc, thrown, command, payload,
                 attempt, closed>>

\* The task ends: its done callback is queued.
EndRetry ==
  /\ pc' = [pc EXCEPT ![Retrier] = "ended"]
  /\ ready' = Append(Rest, Retrier)
  /\ attempt' = 0
  /\ UNCHANGED waiter

\* Lines 139 to 156: confirmed, or retried too often.  The buffer keeps what
\* was not confirmed.
StopRetrying ==
  /\ Runs(Retrier, "backoff")
  /\ ~MissingKey(buffer, state)
  /\ buffer' = Differing(buffer, state)
  /\ buffer' = NoValues \/ attempt = Retries
  /\ EndRetry
  /\ UNCHANGED <<state, finished, thrown, command, payload, closed>>

\* Line 140 raises KeyError.
FailToCheck ==
  /\ Runs(Retrier, "backoff")
  /\ MissingKey(buffer, state)
  /\ EndRetry
  /\ UNCHANGED <<state, buffer, finished, thrown, command, payload, closed>>

\* Seeded fault: the retries are not bounded.
RetryAgain ==
  /\ Runs(Retrier, "backoff")
  /\ ~MissingKey(buffer, state)
  /\ Differing(buffer, state) # NoValues
  /\ Proceed(Retrier, Differing(buffer, state))
  /\ UNCHANGED <<state, finished, thrown, command, payload, closed>>

\* Lines 139 to 164: update({}).
Retry ==
  /\ Runs(Retrier, "backoff")
  /\ ~MissingKey(buffer, state)
  /\ Differing(buffer, state) # NoValues
  /\ attempt # Retries
  /\ Proceed(Retrier, Differing(buffer, state))
  /\ UNCHANGED <<state, finished, thrown, command, payload, closed>>

\* Lines 126 and 127.
Cleanup ==
  /\ Runs(Retrier, "ended")
  /\ pc' = [pc EXCEPT ![Retrier] = "idle"]
  /\ ready' = Rest
  /\ UNCHANGED <<state, buffer, finished, waiter, thrown, command, payload,
                 attempt, closed>>

-----------------------------------------------------------------------------
(* What happens outside the coroutines.                                     *)

\* The device reports a state it has not reported last (tuya/state.py).
Report ==
  /\ \E v \in Reports \ {state} : state' = v
  /\ ready' \in Wake(ready, Suspended("state"))
  /\ UNCHANGED <<buffer, finished, waiter, pc, thrown, command, payload, attempt,
                 closed>>

\* Task.cancel of the tasks in S, which are not running.  To cancel a task
\* that awaits the shared future cancels the future, hence all that await it.
Cancel(S, queue) ==
  LET shared == S \cap Suspended("waiter") # {}
      hit == IF shared THEN S \cup Suspended("waiter") ELSE S
  IN  /\ thrown' = thrown \cup hit
      /\ waiter' = IF shared THEN "cancelled" ELSE waiter
      /\ ready' \in Wake(queue, hit \ Queued)

\* The pool's timeout cancels the command.
Timeout(c) ==
  /\ c \in Impatient
  /\ pc[c] \notin {"idle", "start"}
  /\ c \notin thrown
  /\ Cancel({c}, ready)
  /\ UNCHANGED <<state, buffer, finished, pc, command, payload, attempt, closed>>

\* close(), lines 48 to 51.
Close ==
  /\ ~closed
  /\ closed' = TRUE
  /\ pc' = CancelledPlaces("idle")
  /\ Cancel(IF pc[Retrier] \in {"idle", "ended"} THEN {} ELSE {Retrier},
            CancelledQueue(ready))
  /\ UNCHANGED <<state, buffer, finished, command, payload, attempt>>

LoopStep ==
  \/ \E c \in Caller : AwaitState(c) \/ Store(c) \/ FailToStore(c) \/ Flush(c)
  \/ \E t \in Caller \cup {Retrier} : Resume(t) \/ Return(t) \/ Unwind(t)
  \/ Delay \/ NothingToSend \/ Send \/ Sent \/ SendAtOnce \/ UnwindSend \/ Bury
  \/ StartRetry \/ StopRetrying \/ FailToCheck \/ Retry \/ Cleanup

Next ==
  \/ LoopStep
  \/ Report \/ Close \/ DelayElapses \/ SendReturns \/ BackoffElapses
  \/ \E c \in Caller : Submit(c) \/ Timeout(c)

Spec == Init /\ [][Next]_vars

-----------------------------------------------------------------------------
(* Properties.                                                              *)

(* One call to the device at a time, and none is abandoned: an _update that *)
(* is sending is cancelled by close() alone, although update() cancels the  *)
(* update task without looking whether it is sending (line 64).             *)
SingleCall ==
  /\ pc[Unwinder] = "unwind" => closed
  /\ ~(pc[Updater] = "sending" /\ pc[Unwinder] = "unwind")
  /\ finished <=> pc[Updater] # "sending" /\ pc[Unwinder] # "unwind"

\* Why a value of the buffer may change.
CommandsKept ==
  \A d \in Keys(buffer) : buffer'[d] # buffer[d] =>
    \/ state[d] = buffer[d]
    \/ \E c \in Caller :
         /\ command[c] # NoValues /\ command'[c] = NoValues
         /\ \/ command[c][d] # Absent
            \/ Forbidden(Rules, Merge(state, Merge(buffer, command[c])), d, buffer[d])

(* A value that waits to be sent or confirmed leaves the buffer, or changes *)
(* there, only if the device already reports it, if a newer command sets    *)
(* its data point, or if the constraints forbid it with that command.       *)
NoLostCommand == [][CommandsKept]_vars

(* Whoever awaits the shared future while there is something to send has an *)
(* update task that will resolve it, until close().                         *)
WaitingIsServed ==
  Suspended("waiter") # {} => closed \/ buffer = NoValues \/ pc[Updater] # "idle"

(* The future is dropped only once it is resolved or cancelled, and is      *)
(* pending exactly as long as somebody awaits it.                           *)
WaitersHaveFuture == Suspended("waiter") # {} <=> waiter = "pending"

-----------------------------------------------------------------------------
(* The inductive invariant of SingleCall.                                   *)

\* Those that have been told that nothing is being sent.
Woken == {t \in (Caller \cup {Retrier}) \ thrown : pc[t] = "finished" /\ t \in Queued}

\* The update task runs before one of S.
Overtakes(queue, S) ==
  \E i, j \in DOMAIN queue : i < j /\ queue[i] = Updater /\ queue[j] \in S

\* Each task is in the queue at most once.
Distinct(queue) ==
  \A i, j \in DOMAIN queue : queue[i] = queue[j] /\ queue[i] # Dead => i = j

QueueInv ==
  /\ Distinct(ready)
  /\ \A t \in Queued \cap Task : pc[t] # "idle"

LockInv ==
  /\ finished <=> pc[Updater] # "sending" /\ pc[Unwinder] # "unwind"
  /\ pc[Unwinder] = "unwind" => closed /\ pc[Updater] = "idle"
  /\ Woken # {} => finished /\ ~Overtakes(ready, Woken)

RetryInv == pc[Retrier] \in {"finished", "waiter"} => attempt < Retries

(* What makes SingleCall hold although line 62 is not checked again: a task *)
(* that was told that nothing is being sent runs before the update task     *)
(* that could send, in the loop's order.                                    *)
IInv == TypeOK /\ QueueInv /\ LockInv /\ RetryInv

-----------------------------------------------------------------------------
(* UpdateBuffer implements UpdateChannel.                                   *)

Outcome ==
  [t \in Caller \cup {Retrier} |->
     IF pc[t] = "orphan" THEN "cancelled"
     ELSE IF pc[t] # "waiter" THEN "none"
     ELSE IF t \notin Queued THEN "waiting"
     ELSE IF t \in thrown THEN "cancelled"
     ELSE "done"]

Channel == INSTANCE UpdateChannel WITH Client <- Caller \cup {Retrier}, outcome <- Outcome

(* The buffer keeps the promises of UpdateChannel: calls carry the whole    *)
(* buffer and never overlap, and a command is told it was sent only after a *)
(* call that began when its values were in the buffer.                      *)
ImplementsChannel == Channel!Spec

-----------------------------------------------------------------------------
(* Liveness.                                                                *)

\* The loop runs what is ready, timers fire, the device reports its state,
\* and the stream, which reconnects for ever, takes the message in the end.
Fairness ==
  /\ WF_vars(LoopStep)
  /\ WF_vars(DelayElapses)
  /\ WF_vars(SendReturns)
  /\ WF_vars(BackoffElapses)
  /\ WF_vars(state = NoValues /\ Report)

FairSpec == Spec /\ Fairness

\* c awaits the future, but nothing is left to send and no task will resolve it.
Stranded(c) ==
  pc[c] = "waiter" /\ waiter = "pending" /\ buffer = NoValues /\ pc[Updater] = "idle"

(* Every command ends, although each new command cancels the debounce of    *)
(* the others (the pool bounds how often) and although a retry task shares  *)
(* the buffer with them, unless that task empties the buffer during the     *)
(* debounce and strands those that wait (WaitingHasSender, below).          *)
CommandEnds ==
  \A c \in Caller : pc[c] # "idle" ~> pc[c] = "idle" \/ closed \/ Stranded(c)

(* The retry task ends, whatever the device reports and however many        *)
(* commands wait with it: the reference to it is dropped, and the next call *)
(* starts a new one.                                                        *)
RetryEnds == pc[Retrier] # "idle" ~> pc[Retrier] = "idle"

-----------------------------------------------------------------------------
(* What a test says, and the code does not do.                              *)

(* test_buffer.py:56: an update that is rolled back ends like one that is   *)
(* sent: whoever waits has an update task that will resolve the future.     *)
WaitingHasSender == Suspended("waiter") # {} => closed \/ pc[Updater] # "idle"
=============================================================================
