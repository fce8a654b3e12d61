---------------------------- MODULE ChannelProofs ----------------------------
(***************************************************************************)
(* UpdateBuffer implements UpdateChannel, and loses no command: theorems   *)
(* for any commands, reports, rules, timeouts and retries.                 *)
(***************************************************************************)
EXTENDS UpdateBufferProofs, ConstraintLemmas

\* A call is in flight exactly while nobody may send, what is being stored is
\* a command, and a task that is cancelled is ready to run.
CallInv ==
  /\ finished <=> payload = NoValues
  /\ \A c \in Caller : command[c] \in Commands \cup {NoValues}
  /\ thrown \subseteq Queued

-----------------------------------------------------------------------------
(* The values of the buffer.                                                *)

\* A command leaves a value of the buffer alone, or the rules forbid it with
\* that command.
LEMMA FilteredKeeps ==
  ASSUME TypeInv, NEW v \in Values, NEW d \in Keys(buffer), Filtered(v)[d] # buffer[d]
  PROVE  \/ state[d] = buffer[d]
         \/ v[d] # Absent
         \/ Forbidden(Rules, Merge(state, Merge(buffer, v)), d, buffer[d])
<1> SUFFICES ASSUME state[d] # buffer[d], v[d] = Absent
             PROVE  Forbidden(Rules, Merge(state, Merge(buffer, v)), d, buffer[d])
  OBVIOUS
<1> DEFINE w == Merge(buffer, v)
           x == Differing(w, state)
<1>1. d \in DataPoint /\ buffer[d] # Absent /\ buffer \in Values /\ state \in Values
  BY DEF Keys, TypeInv, TypeOK
<1>2. x \in Values
  BY <1>1, ValuesTypes
<1>3. x[d] = buffer[d] /\ d \in Keys(x)
  BY <1>1 DEF Merge, Differing, Keys
<1>4. Merge(state, x) = Merge(state, w)
  BY DEF Merge, Differing
<1>5. FilterValues(Rules, x, state)[d] \in {Absent, x[d]}
  BY <1>1 DEF FilterValues
<1>6. FilterValues(Rules, x, state) = Filtered(v)
  BY DEF Filtered
<1> HIDE DEF x, w
<1>7. d \notin Keys(FilterValues(Rules, x, state))
  BY <1>3, <1>5, <1>6 DEF Keys
<1>8. Forbidden(Rules, Merge(state, x), d, x[d])
  BY <1>2, <1>3, <1>7, DroppedIsForbidden
<1> QED  BY <1>3, <1>4, <1>8 DEF w

LEMMA DifferingKeeps ==
  ASSUME TypeInv, buffer' = buffer \/ buffer' = Differing(buffer, state)
  PROVE  CommandsKept
BY DEF CommandsKept, Differing, Keys

LEMMA ProceedStores ==
  ASSUME NEW t, NEW b, Proceed(t, b) \/ Rearm(t, b)
  PROVE  buffer' = b
BY DEF Proceed, Rearm, AwaitFinished, Restart, RestartAndFail, GiveUp

LEMMA StoreKeeps ==
  ASSUME TypeInv, NEW c \in Caller, Store(c)
  PROVE  CommandsKept
<1>1. /\ command[c] \in Values /\ command[c] # NoValues /\ command'[c] = NoValues
      /\ buffer' = Filtered(command[c])
  BY ProceedStores DEF TypeInv, TypeOK, Store
<1> SUFFICES ASSUME NEW d \in Keys(buffer), buffer'[d] # buffer[d], state[d] # buffer[d]
             PROVE  \/ command[c][d] # Absent
                    \/ Forbidden(Rules, Merge(state, Merge(buffer, command[c])), d, buffer[d])
  BY <1>1 DEF CommandsKept
<1> QED  BY <1>1, FilteredKeeps

\* The other steps keep the buffer, or drop what the device reports.
LEMMA OthersKeepBuffer ==
  ASSUME [Next]_vars, \A c \in Caller : ~Store(c)
  PROVE  \/ buffer' = buffer
         \/ (StopRetrying \/ Retry) /\ buffer' = Differing(buffer, state)
<1>1. ASSUME NEW c \in Caller, AwaitState(c) \/ FailToStore(c) \/ Flush(c)
      PROVE  buffer' = buffer
  BY <1>1, ProceedStores DEF AwaitState, FailToStore, Flush
<1>2. ASSUME NEW t \in Caller \cup {Retrier}, Resume(t) \/ Return(t) \/ Unwind(t)
      PROVE  buffer' = buffer
  BY <1>2, ProceedStores DEF Resume, Return, Unwind
<1>3. ASSUME \/ Delay \/ NothingToSend \/ Send \/ Sent \/ SendAtOnce \/ UnwindSend
             \/ Bury \/ DelayElapses \/ SendReturns
      PROVE  buffer' = buffer
  BY <1>3 DEF Delay, NothingToSend, Send, Sent, SendAtOnce, Complete, UnwindSend, Bury,
              DelayElapses, SendReturns
<1>4. ASSUME StartRetry \/ FailToCheck \/ Cleanup \/ BackoffElapses
      PROVE  buffer' = buffer
  BY <1>4 DEF StartRetry, FailToCheck, Cleanup, BackoffElapses
<1>5. ASSUME Retry \/ StopRetrying  PROVE buffer' = Differing(buffer, state)
  BY <1>5, ProceedStores DEF Retry, StopRetrying
<1>6. ASSUME Report \/ Close  PROVE buffer' = buffer
  BY <1>6 DEF Report, Close
<1>7. ASSUME NEW c \in Caller, Submit(c) \/ Timeout(c)  PROVE buffer' = buffer
  BY <1>7 DEF Submit, Timeout
<1>8. CASE UNCHANGED vars
  BY <1>8 DEF vars
<1> QED  BY <1>1, <1>2, <1>3, <1>4, <1>5, <1>6, <1>7, <1>8 DEF Next, LoopStep

(* A value that waits to be sent or confirmed leaves the buffer, or changes  *)
(* there, only if the device already reports it, if a newer command sets its *)
(* data point, or if the constraints forbid it with that command             *)
(* (buffer.py, lines 110 to 121 and 139 to 143).                             *)
THEOREM NoCommandIsLost == Spec => NoLostCommand
<1>1. TypeInv /\ [Next]_vars => [CommandsKept]_vars
  BY StoreKeeps, OthersKeepBuffer, DifferingKeeps
<1> QED  BY <1>1, TypeInvariant, PTL DEF Spec, NoLostCommand

-----------------------------------------------------------------------------
(* Who has been told what.                                                  *)

\* Clients that the step leaves as they are, or that do not wait.
Unmoved(u) ==
  \/ pc[u] \notin {"waiter", "orphan"} /\ pc'[u] \notin {"waiter", "orphan"}
  \/ /\ pc'[u] = pc[u]
     /\ pc[u] = "waiter" =>
          (u \in Queued' <=> u \in Queued) /\ (u \in thrown' <=> u \in thrown)

LEMMA OutcomeOf ==
  /\ \A u \in Client :
       Outcome[u] = IF pc[u] = "orphan" THEN "cancelled"
                    ELSE IF pc[u] # "waiter" THEN "none"
                    ELSE IF u \notin Queued THEN "waiting"
                    ELSE IF u \in thrown THEN "cancelled" ELSE "done"
  /\ \A u \in Client :
       Outcome'[u] = IF pc'[u] = "orphan" THEN "cancelled"
                     ELSE IF pc'[u] # "waiter" THEN "none"
                     ELSE IF u \notin Queued' THEN "waiting"
                     ELSE IF u \in thrown' THEN "cancelled" ELSE "done"
  /\ Outcome = [u \in Client |-> Outcome[u]]
  /\ Outcome' = [u \in Client |-> Outcome'[u]]
BY DEF Outcome, Client

LEMMA SameOutcome ==
  ASSUME \A u \in Client : Unmoved(u)
  PROVE  Outcome' = Outcome
<1>1. \A u \in Client : Outcome'[u] = Outcome[u]
  BY OutcomeOf DEF Unmoved
<1> QED  BY <1>1, OutcomeOf

LEMMA UnmovedOutcome ==
  ASSUME NEW u \in Client, Unmoved(u)
  PROVE  Outcome'[u] = Outcome[u]
BY OutcomeOf DEF Unmoved

\* Those that wait are told so, all others are unmoved.
LEMMA ToldOutcome ==
  ASSUME NEW answer,
         \A u \in Client : u \in Waiters => Outcome'[u] = answer,
         \A u \in Client : u \notin Waiters => Unmoved(u)
  PROVE  Outcome' = Channel!Told(answer)
<1>1. \A u \in Client : u \in Waiters <=> Outcome[u] = "waiting"
  BY OutcomeOf, ClientNames DEF Waiters, Suspended
<1>2. \A u \in Client : Outcome'[u] = IF Outcome[u] = "waiting" THEN answer ELSE Outcome[u]
  BY <1>1, UnmovedOutcome
<1>3. Channel!Told(answer) = [u \in Client |-> IF Outcome[u] = "waiting" THEN answer ELSE Outcome[u]]
  BY DEF Channel!Told, Client
<1> QED  BY <1>2, <1>3, OutcomeOf

\* One client is told so, all others are unmoved.
LEMMA OneOutcome ==
  ASSUME NEW t \in Client, NEW answer, Outcome'[t] = answer,
         \A u \in Client : u # t => Unmoved(u)
  PROVE  Outcome' = [Outcome EXCEPT ![t] = answer]
<1>1. \A u \in Client : Outcome'[u] = IF u = t THEN answer ELSE Outcome[u]
  BY UnmovedOutcome
<1>2. [Outcome EXCEPT ![t] = answer] = [u \in Client |-> IF u = t THEN answer ELSE Outcome[u]]
  BY OutcomeOf
<1> QED  BY <1>1, <1>2, OutcomeOf

\* The operators of the channel are those of the buffer.
LEMMA SameOperators ==
  /\ Channel!NoValues = NoValues
  /\ \A v : Channel!Accepted(v) = Filtered(v)
  /\ Channel!BufferMayChange <=>
       \/ buffer' = buffer
       \/ state # NoValues /\ buffer' = Differing(buffer, state)
       \/ state # NoValues /\ \E v \in Commands : buffer' = Filtered(v)
BY DEF Channel!NoValues, Channel!Accepted, Channel!BufferMayChange, Channel!FilterValues,
       Channel!Differing, Channel!Merge, Channel!Blacklist, Channel!Triggered, NoValues,
       Filtered, FilterValues, Differing, Merge, Blacklist, Triggered

Steps == [Channel!Next]_(Channel!vars)

LEMMA Stutters ==
  ASSUME \A u \in Client : Unmoved(u), UNCHANGED <<state, buffer, payload, closed>>
  PROVE  Steps
BY SameOutcome DEF Steps, Channel!vars

LEMMA Changes ==
  ASSUME \A u \in Client : Unmoved(u), Channel!BufferMayChange,
         UNCHANGED <<state, payload, closed>>
  PROVE  Steps
BY SameOutcome DEF Steps, Channel!Next, Channel!Change

-----------------------------------------------------------------------------
(* update().                                                                *)

\* The task at the head runs: those that wait keep their place behind it.
LEMMA BehindHead ==
  ASSUME SafeInv, ready # <<>>, thrown' = thrown,
         NEW u \in Client, u # Head(ready), pc'[u] = pc[u],
         pc[u] = "waiter" => (u \in Queued' <=> u \in ToSet(Rest))
  PROVE  Unmoved(u)
BY RestKeeps DEF Unmoved

LEMMA RearmImplements ==
  ASSUME SafeInv, WaitInv, CallInv, NEW t \in Client, ready # <<>>, Head(ready) = t,
         pc[t] \notin {"waiter", "orphan"}, finished, NEW b, Rearm(t, b),
         Channel!BufferMayChange, UNCHANGED <<state, thrown, payload, closed>>
  PROVE  Steps
<1> DEFINE q == CancelledQueue(Rest)
<1>1. /\ t \in Task /\ t # Updater /\ t # Unwinder /\ PlacesOK(pc) /\ Updater \in Handle
      /\ Updater \in Task /\ pc[Updater] # "sending" /\ payload = NoValues
      /\ t \in Caller \cup {Retrier}
  BY TypeParts, ClientNames, TaskNames DEF SafeInv, Handle, LockInv, CallInv, Client
<1>2. /\ q \in Seq(Handle)
      /\ \A u \in Client : u \in ToSet(q) <=> u \in Queued /\ u # t
      /\ \A u \in Client : u \in ToSet(q) <=> u \in ToSet(Rest)
  BY RestKeeps, CancelledKeeps
<1>3. ASSUME NEW x  PROVE CancelledPlaces(x) = [pc EXCEPT ![Updater] = x]
  BY <1>1, TaskNames DEF CancelledPlaces, PlacesOK
<1> HIDE DEF q
<1>4. /\ Append(q, Updater) \in Seq(Handle)
      /\ \A u \in Client : u \in ToSet(Append(q, Updater)) <=> u \in ToSet(q)
  BY <1>1, <1>2, AppendQueue, ClientNames
<1>5. CASE Restart(t, b)
  <2>1. /\ pc'[t] = "waiter" /\ buffer' # NoValues /\ ready' = Append(q, Updater)
        /\ \A u \in Client : u # t => pc'[u] = pc[u]
    BY <1>1, <1>3, <1>5, ClientNames DEF Restart, PlacesOK, q
  <2>2. t \notin Queued'
    BY <1>2, <1>4, <2>1 DEF Queued
  <2>3. Outcome[t] = "none" /\ Outcome'[t] = "waiting"
    BY <2>1, <2>2, OutcomeOf
  <2>4. \A u \in Client : u # t => Unmoved(u)
    BY <1>2, <1>4, <2>1, BehindHead DEF Queued
  <2>5. Outcome' = [Outcome EXCEPT ![t] = "waiting"]
    BY <2>3, <2>4, OneOutcome
  <2>6. Channel!Enter(t)
    BY <1>1, <2>1, <2>3, <2>5, SameOperators DEF Channel!Enter
  <2> QED  BY <1>1, <2>6 DEF Steps, Channel!Next
<1>6. CASE RestartAndFail(t, b)
  <2>1. /\ pc'[t] = AfterCancel(t)
        /\ \A u \in Client : u # t => pc'[u] = pc[u]
    BY <1>1, <1>3, <1>6, ClientNames DEF RestartAndFail, PlacesOK
  <2>2. ready' = IF t = Retrier THEN Append(Append(q, Updater), Retrier)
                 ELSE Append(q, Updater)
    BY <1>4, <1>6, DoneCallbackType DEF RestartAndFail, q
  <2>3. \A u \in Client : u # t => (u \in Queued' <=> u \in ToSet(q))
    <3>1. CASE t = Retrier
      <4>1. ToSet(ready') = ToSet(Append(q, Updater)) \cup {Retrier}
        BY <1>4, <2>2, <3>1, AppendQueue, ClientNames
      <4> QED  BY <1>4, <3>1, <4>1 DEF Queued
    <3>2. CASE t # Retrier
      BY <1>4, <2>2, <3>2 DEF Queued
    <3> QED  BY <3>1, <3>2
  <2>4. \A u \in Client : u # t => Unmoved(u)
    BY <1>2, <2>1, <2>3, BehindHead
  <2>5. Unmoved(t)
    BY <2>1 DEF Unmoved, AfterCancel
  <2> QED  BY <2>4, <2>5, Changes
<1>7. CASE GiveUp(t, b)
  <2>1. /\ pc'[t] = AfterReturn(t) /\ buffer' = NoValues
        /\ \A u \in Client : u # t => pc'[u] = pc[u]
        /\ ready' \in Wake(q, IF waiter = "pending" THEN Waiters ELSE {})
    BY <1>1, <1>3, <1>7, ClientNames DEF GiveUp, PlacesOK, q, Waiters
  <2>2. Waiters \in SUBSET Task
    BY SuspendedType DEF Waiters
  <2>3. (IF waiter = "pending" THEN Waiters ELSE {}) = Waiters
    BY DEF WaitInv
  <2>4. Queued' = ToSet(q) \cup Waiters
    BY <1>2, <2>1, <2>2, <2>3, WakeAll DEF Queued
  <2>5. ASSUME NEW u \in Client, u \in Waiters  PROVE Outcome'[u] = "done"
    <3>1. u # t /\ pc[u] = "waiter" /\ u \notin thrown
      BY <2>5 DEF Waiters, Suspended, CallInv
    <3> QED  BY <2>1, <2>4, <2>5, <3>1, OutcomeOf
  <2>6. ASSUME NEW u \in Client, u \notin Waiters  PROVE Unmoved(u)
    <3>1. CASE u = t
      BY <2>1, <3>1 DEF Unmoved, AfterReturn
    <3>2. CASE u # t
      BY <1>2, <2>1, <2>4, <2>6, <3>2, BehindHead
    <3> QED  BY <3>1, <3>2
  <2>7. Outcome' = Channel!Told("done")
    BY <2>5, <2>6, ToldOutcome
  <2>8. Channel!Clear
    BY <1>1, <2>1, <2>7, SameOperators DEF Channel!Clear
  <2> QED  BY <2>8 DEF Steps, Channel!Next
<1> QED  BY <1>5, <1>6, <1>7 DEF Rearm

LEMMA ProceedImplements ==
  ASSUME SafeInv, WaitInv, CallInv, NEW t \in Client, ready # <<>>, Head(ready) = t,
         pc[t] \notin {"waiter", "orphan"}, NEW b, Proceed(t, b),
         Channel!BufferMayChange, UNCHANGED <<state, thrown, payload, closed>>
  PROVE  Steps
<1>1. CASE AwaitFinished(t, b)
  <2>1. t \in Task /\ PlacesOK(pc)
    BY ClientNames, TypeParts DEF SafeInv
  <2>2. /\ ready' = Rest /\ pc'[t] = "finished"
        /\ \A u \in Client : u # t => pc'[u] = pc[u]
    BY <1>1, <2>1 DEF AwaitFinished, PlacesOK
  <2>3. \A u \in Client : u # t => Unmoved(u)
    BY <2>2, BehindHead DEF Queued
  <2>4. Unmoved(t)
    BY <2>2 DEF Unmoved
  <2> QED  BY <2>3, <2>4, Changes
<1>2. CASE finished /\ Rearm(t, b)
  BY <1>2, RearmImplements
<1> QED  BY <1>1, <1>2 DEF Proceed

LEMMA CallerImplements ==
  ASSUME SafeInv, WaitInv, CallInv, NEW c \in Caller,
         AwaitState(c) \/ Store(c) \/ FailToStore(c) \/ Flush(c) \/ Submit(c)
  PROVE  Steps
<1>0. c \in Client /\ c \in Task /\ c \in Handle /\ PlacesOK(pc) /\ ready \in Seq(Handle)
  BY ClientNames, TypeParts DEF SafeInv, Client, Handle
<1>1. CASE AwaitState(c) \/ FailToStore(c)
  <2>1. /\ ready # <<>> /\ Head(ready) = c /\ ready' = Rest /\ thrown' = thrown
        /\ pc[c] \in {"start", "state"} /\ pc'[c] \in {"state", "idle"}
        /\ \A u \in Client : u # c => pc'[u] = pc[u]
        /\ UNCHANGED <<state, buffer, payload, closed>>
    <3>1. CASE AwaitState(c)
      BY <1>0, <3>1 DEF AwaitState, Runs, PlacesOK
    <3>2. CASE FailToStore(c)
      BY <1>0, <3>2 DEF FailToStore, Runs, PlacesOK
    <3> QED  BY <1>1, <3>1, <3>2
  <2>2. \A u \in Client : u # c => Unmoved(u)
    BY <2>1, BehindHead DEF Queued
  <2>3. Unmoved(c)
    BY <2>1 DEF Unmoved
  <2> QED  BY <2>1, <2>2, <2>3, Stutters
<1>2. CASE Store(c)
  <2>1. /\ ready # <<>> /\ Head(ready) = c /\ pc[c] \in {"start", "state"}
        /\ Proceed(c, Filtered(command[c])) /\ state # NoValues /\ command[c] \in Commands
        /\ UNCHANGED <<state, thrown, payload, closed>>
    BY <1>2 DEF Store, Runs, CallInv
  <2>2. Channel!BufferMayChange
    BY <2>1, ProceedStores, SameOperators
  <2> QED  BY <1>0, <2>1, <2>2, ProceedImplements
<1>3. CASE Flush(c)
  <2>1. /\ ready # <<>> /\ Head(ready) = c /\ pc[c] = "start" /\ Proceed(c, buffer)
        /\ UNCHANGED <<state, thrown, payload, closed>>
    BY <1>3 DEF Flush, Runs
  <2>2. Channel!BufferMayChange
    BY <2>1, ProceedStores, SameOperators
  <2> QED  BY <1>0, <2>1, <2>2, ProceedImplements
<1>4. CASE Submit(c)
  <2>1. /\ ready' = Append(ready, c) /\ thrown' = thrown
        /\ pc[c] = "idle" /\ pc'[c] = "start"
        /\ \A u \in Client : u # c => pc'[u] = pc[u]
        /\ UNCHANGED <<state, buffer, payload, closed>>
    BY <1>0, <1>4 DEF Submit, PlacesOK
  <2>2. Queued' = Queued \cup {c}
    BY <1>0, <2>1, AppendQueue DEF Queued
  <2>3. \A u \in Client : Unmoved(u)
    BY <2>1, <2>2 DEF Unmoved
  <2> QED  BY <2>1, <2>3, Stutters
<1> QED  BY <1>1, <1>2, <1>3, <1>4

LEMMA ClientImplements ==
  ASSUME SafeInv, WaitInv, CallInv, NEW t \in Client, Resume(t) \/ Return(t) \/ Unwind(t)
  PROVE  Steps
<1>0. /\ t \in Task /\ PlacesOK(pc) /\ TypeInv /\ LockInv /\ t \in Caller \cup {Retrier}
      /\ Rest \in Seq(Handle) \/ ready = <<>>
  BY TypeParts, ClientNames, RestType DEF SafeInv, Client
<1>1. CASE Resume(t)
  <2>1. /\ ready # <<>> /\ Head(ready) = t /\ Rearm(t, buffer)
        /\ pc[t] = "finished" /\ t \notin thrown
        /\ UNCHANGED <<state, thrown, payload, closed>>
    BY <1>1 DEF Resume, Runs
  <2>2. t \in Woken
    BY <2>1, RestKeeps DEF Woken, Client
  <2>3. finished
    BY <1>0, <2>2 DEF LockInv
  <2>4. Channel!BufferMayChange
    BY <2>1, ProceedStores, SameOperators
  <2> QED  BY <2>1, <2>3, <2>4, RearmImplements
<1>2. CASE Return(t)
  <2>1. /\ ready # <<>> /\ Head(ready) = t /\ ready' = Rest /\ thrown' = thrown
        /\ pc[t] = "waiter" /\ t \notin thrown /\ pc'[t] = AfterReturn(t)
        /\ \A u \in Client : u # t => pc'[u] = pc[u]
        /\ UNCHANGED <<state, buffer, payload, closed>>
    BY <1>0, <1>2 DEF Return, Runs, PlacesOK
  <2>2. Outcome[t] = "done" /\ Outcome'[t] = "none"
    BY <2>1, RestKeeps, OutcomeOf DEF AfterReturn
  <2>3. \A u \in Client : u # t => Unmoved(u)
    BY <2>1, BehindHead DEF Queued
  <2>4. Outcome' = [Outcome EXCEPT ![t] = "none"]
    BY <2>2, <2>3, OneOutcome
  <2>5. Channel!Leave(t)
    BY <2>1, <2>2, <2>4 DEF Channel!Leave
  <2> QED  BY <1>0, <2>5 DEF Steps, Channel!Next
<1>3. CASE Unwind(t)
  <2>1. /\ ready # <<>> /\ Head(ready) = t /\ thrown' = thrown \ {t}
        /\ t \in thrown /\ pc'[t] = AfterCancel(t)
        /\ \A u \in Client : u # t => pc'[u] = pc[u]
        /\ UNCHANGED <<state, buffer, payload, closed>>
    BY <1>0, <1>3 DEF Unwind, Unwinds, PlacesOK
  <2>2. ready' = IF t = Retrier THEN Append(Rest, Retrier) ELSE Rest
    BY <1>0, <1>3, <2>1, DoneCallbackType DEF Unwind
  <2>3. \A u \in Client : u # t => (u \in Queued' <=> u \in ToSet(Rest))
    <3>1. Retrier \in Handle
      BY TaskNames DEF Handle
    <3>2. CASE t = Retrier
      <4>1. ToSet(ready') = ToSet(Rest) \cup {t}
        BY <1>0, <2>1, <2>2, <3>1, <3>2, AppendQueue
      <4> QED  BY <4>1 DEF Queued
    <3>3. CASE t # Retrier
      BY <2>2, <3>3 DEF Queued
    <3> QED  BY <3>2, <3>3
  <2>4. \A u \in Client : u # t => Unmoved(u)
    BY <2>1, <2>3, RestKeeps DEF Unmoved
  <2>5. Outcome'[t] = "none"
    BY <2>1, OutcomeOf DEF AfterCancel
  <2>6. CASE pc[t] \in {"waiter", "orphan"}
    <3>1. Outcome[t] = "cancelled"
      BY <2>1, <2>6, RestKeeps, OutcomeOf
    <3>2. Outcome' = [Outcome EXCEPT ![t] = "none"]
      BY <2>4, <2>5, OneOutcome
    <3>3. Channel!Leave(t)
      BY <2>1, <3>1, <3>2 DEF Channel!Leave
    <3> QED  BY <1>0, <3>3 DEF Steps, Channel!Next
  <2>7. CASE pc[t] \notin {"waiter", "orphan"}
    <3>1. Unmoved(t)
      BY <2>1, <2>7 DEF Unmoved, AfterCancel
    <3> QED  BY <2>1, <2>4, <3>1, Stutters
  <2> QED  BY <2>6, <2>7
<1> QED  BY <1>1, <1>2, <1>3
-----------------------------------------------------------------------------
(* The update task.                                                         *)

LEMMA CompleteImplements ==
  ASSUME SafeInv, WaitInv, CallInv, ready # <<>>, Head(ready) = Updater, Complete,
         payload # NoValues \/ buffer # NoValues
  PROVE  Steps
<1> DEFINE W == IF waiter = "pending" THEN Suspended("waiter") ELSE {}
<1>1. W = Waiters /\ Waiters \in SUBSET Task /\ Rest \in Seq(Handle)
  BY SuspendedType, RestKeeps DEF WaitInv, Waiters
<1>2. PICK queue \in Wake(Rest, W) :
        ready' \in Wake(IF StartsRetry THEN Append(queue, Retrier) ELSE queue,
                       Suspended("finished"))
  BY DEF Complete
<1> HIDE DEF W
<1>3. queue \in Seq(Handle) /\ ToSet(queue) = ToSet(Rest) \cup Waiters
  BY <1>1, <1>2, WakeAll
<1> DEFINE r == IF StartsRetry THEN Append(queue, Retrier) ELSE queue
<1>4. /\ r \in Seq(Handle)
      /\ ToSet(r) = ToSet(queue) \/ (StartsRetry /\ ToSet(r) = ToSet(queue) \cup {Retrier})
  BY <1>3, AppendQueue, TaskNames DEF Handle
<1>5. ready' \in Wake(r, Suspended("finished")) /\ Suspended("finished") \in SUBSET Task
  BY <1>2, SuspendedType
<1> HIDE DEF r
<1>6. Queued' = ToSet(r) \cup Suspended("finished")
  BY <1>4, <1>5, WakeAll DEF Queued
<1>7. /\ \A u \in Client : u # Retrier => pc'[u] = pc[u]
      /\ pc'[Retrier] = pc[Retrier] \/ (StartsRetry /\ pc'[Retrier] = "start")
      /\ thrown' = thrown /\ Updater \notin Client
      /\ StartsRetry => pc[Retrier] = "idle"
  BY TypeParts, ClientNames, TaskNames DEF Complete, PlacesOK, SafeInv, StartsRetry
<1>8. ASSUME NEW u \in Client, u \in Waiters  PROVE Outcome'[u] = "done"
  <2>1. pc[u] = "waiter" /\ u \notin thrown
    BY <1>8 DEF Waiters, Suspended, CallInv
  <2>2. pc'[u] = "waiter" /\ u \in Queued'
    BY <1>3, <1>4, <1>6, <1>7, <1>8, <2>1
  <2> QED  BY <1>7, <2>1, <2>2, OutcomeOf
<1>9. ASSUME NEW u \in Client, u \notin Waiters  PROVE Unmoved(u)
  <2>1. CASE pc[u] = "waiter"
    <3>1. u \in Queued /\ pc'[u] = pc[u] /\ u # Updater
      BY <1>7, <1>9, <2>1, ClientNames DEF Waiters, Suspended
    <3>2. u \in ToSet(Rest)
      BY <3>1, RestKeeps
    <3>3. u \in Queued'
      BY <1>3, <1>4, <1>6, <3>2
    <3> QED  BY <1>7, <3>1, <3>3 DEF Unmoved
  <2>2. CASE pc[u] # "waiter"
    BY <1>7, <2>2 DEF Unmoved
  <2> QED  BY <2>1, <2>2
<1>10. Outcome' = Channel!Told("done")
  BY <1>8, <1>9, ToldOutcome
<1>11. Channel!CallReturns
  BY <1>10, SameOperators DEF Channel!CallReturns, Complete
<1> QED  BY <1>11 DEF Steps, Channel!Next

LEMMA UpdaterImplements ==
  ASSUME SafeInv, WaitInv, CallInv,
         \/ Delay \/ NothingToSend \/ Send \/ Sent \/ SendAtOnce \/ UnwindSend \/ Bury
         \/ DelayElapses \/ SendReturns
  PROVE  Steps
<1>0. /\ PlacesOK(pc) /\ ready \in Seq(Handle) /\ LockInv
      /\ Updater \in Task /\ Updater \in Handle /\ Updater \notin Client
      /\ Dead \notin Client /\ Unwinder \notin Client
  BY TypeParts, TaskNames, ClientNames DEF SafeInv, Handle
<1>1. CASE Delay \/ NothingToSend \/ Send
  <2>1. /\ ready # <<>> /\ Head(ready) = Updater /\ ready' = Rest /\ thrown' = thrown
        /\ \A u \in Client : pc'[u] = pc[u]
        /\ UNCHANGED <<state, buffer, closed>>
    BY <1>0, <1>1, ClientNames DEF Delay, NothingToSend, Send, SendsNow, Runs, PlacesOK
  <2>2. \A u \in Client : Unmoved(u)
    BY <1>0, <2>1, BehindHead DEF Queued
  <2>3. CASE Delay \/ NothingToSend
    BY <2>1, <2>2, <2>3, Stutters DEF Delay, NothingToSend
  <2>4. CASE Send
    <3>1. /\ buffer # NoValues /\ payload' = buffer
          /\ pc[Updater] # "sending" /\ pc[Unwinder] # "unwind"
      BY <1>0, <2>4 DEF Send, SendsNow, Runs, LockInv
    <3>2. Channel!Call
      BY <1>0, <2>1, <2>2, <3>1, SameOutcome, SameOperators
         DEF Channel!Call, LockInv, CallInv
    <3> QED  BY <3>2 DEF Steps, Channel!Next
  <2> QED  BY <1>1, <2>3, <2>4
<1>2. CASE Sent
  <2>1. ready # <<>> /\ Head(ready) = Updater /\ Complete /\ pc[Updater] = "sending"
    BY <1>2 DEF Sent, Runs
  <2>2. payload # NoValues
    BY <1>0, <2>1 DEF LockInv, CallInv
  <2> QED  BY <2>1, <2>2, CompleteImplements
<1>3. CASE SendAtOnce
  BY <1>3, CompleteImplements DEF SendAtOnce, SendsNow, Runs
<1>4. CASE UnwindSend
  <2>1. /\ ready # <<>> /\ Head(ready) = Unwinder /\ pc[Unwinder] = "unwind"
        /\ ready' \in Wake(Rest, Suspended("finished"))
        /\ payload' = NoValues /\ thrown' = thrown
        /\ \A u \in Client : pc'[u] = IF u \in Waiters THEN "orphan" ELSE pc[u]
        /\ UNCHANGED <<state, buffer, closed>>
    BY <1>4, ClientNames DEF UnwindSend, Runs, Waiters
  <2>2. payload # NoValues /\ closed
    BY <2>1 DEF LockInv, CallInv, SafeInv
  <2>3. Queued' = ToSet(Rest) \cup Suspended("finished")
    BY <2>1, RestKeeps, WakeAll, SuspendedType DEF Queued
  <2>4. \A u \in Client : u \in Waiters => Outcome'[u] = "cancelled"
    BY <2>1, OutcomeOf
  <2>5. ASSUME NEW u \in Client, u \notin Waiters  PROVE Unmoved(u)
    <3>1. pc[u] = "waiter" => (u \in Queued' <=> u \in ToSet(Rest))
      BY <2>3 DEF Suspended
    <3> QED  BY <1>0, <2>1, <2>5, <3>1, BehindHead
  <2>6. Outcome' = Channel!Told("cancelled")
    BY <2>4, <2>5, ToldOutcome
  <2>7. Channel!Abandon
    BY <2>1, <2>2, <2>6, SameOperators DEF Channel!Abandon
  <2> QED  BY <2>7 DEF Steps, Channel!Next
<1>5. CASE Bury
  <2>1. /\ ready # <<>> /\ Head(ready) = Dead /\ ready' = Rest /\ pc' = pc
        /\ UNCHANGED <<state, buffer, payload, thrown, closed>>
    BY <1>5 DEF Bury
  <2>2. \A u \in Client : Unmoved(u)
    BY <1>0, <2>1, BehindHead DEF Queued
  <2> QED  BY <2>1, <2>2, Stutters
<1>6. CASE DelayElapses \/ SendReturns
  <2>1. /\ ready' = Append(ready, Updater) /\ pc' = pc
        /\ UNCHANGED <<state, buffer, payload, thrown, closed>>
    BY <1>6 DEF DelayElapses, SendReturns
  <2>2. Queued' = Queued \cup {Updater}
    BY <1>0, <2>1, AppendQueue DEF Queued
  <2>3. \A u \in Client : Unmoved(u)
    BY <1>0, <2>1, <2>2 DEF Unmoved
  <2> QED  BY <2>1, <2>3, Stutters
<1> QED  BY <1>1, <1>2, <1>3, <1>4, <1>5, <1>6
-----------------------------------------------------------------------------
(* The retry task, and what happens outside the coroutines.                 *)

\* What is checked was reported, so that there is a state or nothing to check.
LEMMA CheckedChange ==
  ASSUME TypeInv, ~MissingKey(buffer, state), buffer' = Differing(buffer, state)
  PROVE  Channel!BufferMayChange
<1>1. CASE state # NoValues
  BY <1>1, SameOperators
<1>2. CASE state = NoValues
  <2>1. \A d \in DataPoint : buffer[d] = Absent
    BY <1>2 DEF MissingKey, Keys, NoValues
  <2>2. buffer' = buffer
    BY <1>2, <2>1 DEF Differing, NoValues, Values, TypeInv, TypeOK
  <2> QED  BY <2>2, SameOperators
<1> QED  BY <1>1, <1>2

LEMMA RetrierImplements ==
  ASSUME SafeInv, WaitInv, CallInv,
         StartRetry \/ StopRetrying \/ FailToCheck \/ Retry \/ Cleanup \/ BackoffElapses
  PROVE  Steps
<1>0. /\ PlacesOK(pc) /\ TypeInv /\ ready \in Seq(Handle)
      /\ Retrier \in Task /\ Retrier \in Client /\ Retrier \in Handle
  BY TypeParts, TaskNames DEF SafeInv, Client, Handle
<1>1. CASE StartRetry \/ Cleanup
  <2>1. /\ ready # <<>> /\ Head(ready) = Retrier /\ ready' = Rest /\ thrown' = thrown
        /\ pc[Retrier] \in {"start", "ended"} /\ pc'[Retrier] \in {"backoff", "idle"}
        /\ \A u \in Client : u # Retrier => pc'[u] = pc[u]
        /\ UNCHANGED <<state, buffer, payload, closed>>
    <3>1. CASE StartRetry
      BY <1>0, <3>1 DEF StartRetry, Runs, PlacesOK
    <3>2. CASE Cleanup
      BY <1>0, <3>2 DEF Cleanup, Runs, PlacesOK
    <3> QED  BY <1>1, <3>1, <3>2
  <2>2. \A u \in Client : u # Retrier => Unmoved(u)
    BY <2>1, BehindHead DEF Queued
  <2>3. Unmoved(Retrier)
    BY <2>1 DEF Unmoved
  <2> QED  BY <2>1, <2>2, <2>3, Stutters
<1>2. CASE StopRetrying \/ FailToCheck
  <2>1. /\ ready # <<>> /\ Head(ready) = Retrier /\ ready' = Append(Rest, Retrier)
        /\ thrown' = thrown /\ pc[Retrier] = "backoff" /\ pc'[Retrier] = "ended"
        /\ \A u \in Client : u # Retrier => pc'[u] = pc[u]
        /\ UNCHANGED <<state, payload, closed>>
    <3>1. CASE StopRetrying
      BY <1>0, <3>1 DEF StopRetrying, EndRetry, Runs, PlacesOK
    <3>2. CASE FailToCheck
      BY <1>0, <3>2 DEF FailToCheck, EndRetry, Runs, PlacesOK
    <3> QED  BY <1>2, <3>1, <3>2
  <2>2. Queued' = ToSet(Rest) \cup {Retrier}
    BY <1>0, <2>1, RestType, AppendQueue DEF Queued
  <2>3. \A u \in Client : u # Retrier => Unmoved(u)
    BY <2>1, <2>2, BehindHead
  <2>4. Unmoved(Retrier)
    BY <2>1 DEF Unmoved
  <2>5. Channel!BufferMayChange
    <3>1. CASE StopRetrying
      BY <1>0, <3>1, CheckedChange DEF StopRetrying
    <3>2. CASE FailToCheck
      BY <3>2, SameOperators DEF FailToCheck
    <3> QED  BY <1>2, <3>1, <3>2
  <2> QED  BY <2>1, <2>3, <2>4, <2>5, Changes
<1>3. CASE Retry
  <2>1. /\ ready # <<>> /\ Head(ready) = Retrier /\ pc[Retrier] = "backoff"
        /\ Proceed(Retrier, Differing(buffer, state)) /\ ~MissingKey(buffer, state)
        /\ UNCHANGED <<state, thrown, payload, closed>>
    BY <1>3 DEF Retry, Runs
  <2>2. Channel!BufferMayChange
    BY <1>0, <2>1, ProceedStores, CheckedChange
  <2> QED  BY <1>0, <2>1, <2>2, ProceedImplements
<1>4. CASE BackoffElapses
  <2>1. /\ ready' = Append(ready, Retrier) /\ pc' = pc /\ pc[Retrier] = "backoff"
        /\ UNCHANGED <<state, buffer, payload, thrown, closed>>
    BY <1>4 DEF BackoffElapses, Suspended
  <2>2. Queued' = Queued \cup {Retrier}
    BY <1>0, <2>1, AppendQueue DEF Queued
  <2>3. \A u \in Client : Unmoved(u)
    BY <2>1, <2>2 DEF Unmoved
  <2> QED  BY <2>1, <2>3, Stutters
<1> QED  BY <1>1, <1>2, <1>3, <1>4

\* Those that are cancelled, and those that share the future with them.
LEMMA CancelImplements ==
  ASSUME SafeInv, NEW S \in SUBSET Client, NEW q \in Seq(Handle),
         Cancel(S, q), ToSet(q) \cap Client = Queued \cap Client,
         \A u \in Client : pc'[u] = pc[u],
         UNCHANGED <<state, buffer, payload>>, closed => closed'
  PROVE  Steps
<1> DEFINE hit == IF S \cap Waiters # {} THEN S \cup Waiters ELSE S
<1>1. thrown' = thrown \cup hit /\ ready' \in Wake(q, hit \ Queued)
  BY DEF Cancel, Waiters
<1>2. Waiters \subseteq Client /\ hit \ Queued \in SUBSET Task
  BY SuspendedNames, ClientNames DEF SafeInv, Waiters
<1>3. Queued' = ToSet(q) \cup (hit \ Queued)
  BY <1>1, <1>2, WakeAll DEF Queued
<1> HIDE DEF hit
<1>4. ASSUME NEW u \in Client
      PROVE  \/ Outcome'[u] = Outcome[u]
             \/ Outcome[u] \in {"waiting", "done"} /\ Outcome'[u] = "cancelled"
  BY <1>1, <1>3, OutcomeOf
<1>5. DOMAIN Outcome' = Client
  BY OutcomeOf
<1>6. Channel!Cancel
  BY <1>4, <1>5 DEF Channel!Cancel, Client
<1> QED  BY <1>6 DEF Steps, Channel!Next

LEMMA OutsideImplements ==
  ASSUME SafeInv, WaitInv, CallInv, Report \/ Close \/ \E c \in Caller : Timeout(c)
  PROVE  Steps
<1>0. PlacesOK(pc) /\ ready \in Seq(Handle)
  BY TypeParts DEF SafeInv
<1>1. CASE Report
  <2>1. /\ ready' \in Wake(ready, Suspended("state")) /\ pc' = pc /\ thrown' = thrown
        /\ state' \in Reports /\ UNCHANGED <<buffer, payload, closed>>
    BY <1>1 DEF Report
  <2>2. Queued' = Queued \cup Suspended("state")
    BY <1>0, <2>1, WakeAll, SuspendedType DEF Queued
  <2>3. \A u \in Client : Unmoved(u)
    BY <2>1, <2>2 DEF Unmoved, Suspended
  <2>4. Channel!Report
    BY <2>1, <2>3, SameOutcome DEF Channel!Report
  <2> QED  BY <2>4 DEF Steps, Channel!Next
<1>2. CASE Close
  <2>1. PICK S \in SUBSET Client : Cancel(S, CancelledQueue(ready))
    <3>1. {} \in SUBSET Client /\ {Retrier} \in SUBSET Client
      BY DEF Client
    <3> QED  BY <1>2, <3>1 DEF Close
  <2>2. /\ \A u \in Client : pc'[u] = pc[u]
        /\ closed' /\ UNCHANGED <<state, buffer, payload>>
    BY <1>0, <1>2, ClientNames DEF Close, CancelledPlaces, PlacesOK
  <2>3. /\ CancelledQueue(ready) \in Seq(Handle)
        /\ ToSet(CancelledQueue(ready)) \cap Client = Queued \cap Client
    BY <1>0, CancelledKeeps DEF Queued
  <2> QED  BY <2>1, <2>2, <2>3, CancelImplements
<1>3. ASSUME NEW c \in Caller, Timeout(c)  PROVE Steps
  <2>1. /\ {c} \in SUBSET Client /\ Cancel({c}, ready) /\ pc' = pc
        /\ UNCHANGED <<state, buffer, payload, closed>>
    BY <1>3 DEF Timeout, Client
  <2> QED  BY <1>0, <2>1, CancelImplements DEF Queued
<1> QED  BY <1>1, <1>2, <1>3
-----------------------------------------------------------------------------
(* Calls, commands and cancelled tasks.                                     *)

\* Nobody leaves the queue but the task that runs.
Stays == \A u \in Client : u \in Queued => u \in Queued' \/ u = Head(ready)

LEMMA RearmStays ==
  ASSUME SafeInv, NEW t \in Client, ready # <<>>, Head(ready) = t, NEW b, Rearm(t, b)
  PROVE  Stays
<1> DEFINE q == CancelledQueue(Rest)
<1>1. /\ q \in Seq(Handle) /\ Updater \in Handle
      /\ \A u \in Client : u \in Queued /\ u # t => u \in ToSet(q)
  BY RestKeeps, CancelledKeeps, TaskNames DEF Handle
<1> HIDE DEF q
<1>2. Append(q, Updater) \in Seq(Handle) /\ ToSet(q) \subseteq ToSet(Append(q, Updater))
  BY <1>1, AppendQueue
<1>3. ToSet(q) \subseteq Queued'
  <2>1. CASE Restart(t, b)
    BY <1>2, <2>1 DEF Restart, Queued, q
  <2>2. CASE RestartAndFail(t, b)
    <3>1. ready' = IF t = Retrier THEN Append(Append(q, Updater), Retrier)
                   ELSE Append(q, Updater)
      BY <1>2, <2>2, DoneCallbackType DEF RestartAndFail, q
    <3>2. Retrier \in Handle
      BY TaskNames DEF Handle
    <3> QED  BY <1>2, <3>1, <3>2, AppendQueue DEF Queued
  <2>3. CASE GiveUp(t, b)
    <3>1. PICK S \in SUBSET Task : ready' \in Wake(q, S)
      <4>1. {} \in SUBSET Task /\ Suspended("waiter") \in SUBSET Task
        BY SuspendedType
      <4> QED  BY <2>3, <4>1 DEF GiveUp, q
    <3> QED  BY <1>1, <3>1, WakeAll DEF Queued
  <2> QED  BY <2>1, <2>2, <2>3 DEF Rearm
<1> QED  BY <1>1, <1>3 DEF Stays

LEMMA RestStays ==
  ASSUME SafeInv, ready # <<>>, ToSet(Rest) \subseteq Queued'
  PROVE  Stays
BY RestKeeps DEF Stays

LEMMA ProceedStays ==
  ASSUME SafeInv, NEW t \in Client, ready # <<>>, Head(ready) = t, NEW b, Proceed(t, b)
  PROVE  Stays
BY RearmStays, RestStays DEF Proceed, AwaitFinished, Queued

\* A task runs that is not cancelled, and the call goes on.
LEMMA CallKept ==
  ASSUME SafeInv, CallInv, Stays, thrown' = thrown,
         Head(ready) \notin thrown \/ Queued \subseteq Queued',
         finished' <=> payload' = NoValues,
         \A c \in Caller : command'[c] \in {command[c]} \cup Commands \cup {NoValues}
  PROVE  CallInv'
<1>1. thrown \subseteq Client
  BY TypeParts DEF SafeInv
<1> QED  BY <1>1 DEF CallInv, Stays

LEMMA CallerCall ==
  ASSUME SafeInv, CallInv, NEW c \in Caller,
         AwaitState(c) \/ Store(c) \/ FailToStore(c) \/ Flush(c) \/ Submit(c)
  PROVE  CallInv'
<1>0. /\ c \in Client /\ c \in Handle /\ ready \in Seq(Handle) /\ command \in [Caller -> Values]
      /\ finished <=> payload = NoValues
  BY ClientNames, TypeParts DEF SafeInv, Client, Handle, Task, CallInv
<1>1. /\ thrown' = thrown /\ finished' = finished /\ payload' = payload
      /\ \A u \in Caller : command'[u] \in {command[u]} \cup Commands \cup {NoValues}
  BY <1>0 DEF AwaitState, Store, FailToStore, Flush, Submit
<1>2. CASE Submit(c)
  <2>1. Queued \subseteq Queued'
    BY <1>0, <1>2, AppendQueue DEF Submit, Queued
  <2> QED  BY <1>0, <1>1, <2>1, CallKept DEF Stays
<1>3. CASE AwaitState(c) \/ Store(c) \/ FailToStore(c) \/ Flush(c)
  <2>1. ready # <<>> /\ Head(ready) = c /\ c \notin thrown
    BY <1>3 DEF AwaitState, Store, FailToStore, Flush, Runs
  <2>2. Stays
    BY <1>0, <1>3, <2>1, RestStays, ProceedStays
       DEF AwaitState, Store, FailToStore, Flush, Queued
  <2> QED  BY <1>0, <1>1, <2>1, <2>2, CallKept
<1> QED  BY <1>2, <1>3

LEMMA ClientCall ==
  ASSUME SafeInv, CallInv, NEW t \in Client, Resume(t) \/ Return(t) \/ Unwind(t)
  PROVE  CallInv'
<1>0. finished <=> payload = NoValues
  BY DEF CallInv
<1>1. CASE Resume(t) \/ Return(t)
  <2>1. /\ ready # <<>> /\ Head(ready) = t /\ t \notin thrown
        /\ UNCHANGED <<thrown, finished, payload, command>>
    BY <1>1 DEF Resume, Return, Runs
  <2>2. Stays
    BY <1>1, <2>1, RestStays, RearmStays DEF Resume, Return, Queued
  <2> QED  BY <1>0, <2>1, <2>2, CallKept
<1>2. CASE Unwind(t)
  <2>1. /\ ready # <<>> /\ Head(ready) = t /\ thrown' = thrown \ {t}
        /\ ready' = Rest \o DoneCallback(t) /\ UNCHANGED <<finished, payload>>
        /\ command' = [c \in Caller |-> IF c = t THEN NoValues ELSE command[c]]
    BY <1>2 DEF Unwind, Unwinds
  <2>2. Rest \in Seq(Handle) /\ Retrier \in Handle /\ thrown \subseteq Client
    BY <2>1, RestKeeps, TypeParts, TaskNames DEF Handle, SafeInv
  <2>3. ToSet(Rest) \subseteq Queued'
    BY <2>1, <2>2, DoneCallbackType, AppendQueue DEF Queued
  <2>4. thrown' \subseteq Queued'
    BY <2>1, <2>2, <2>3, RestKeeps DEF CallInv
  <2> QED  BY <2>1, <2>4 DEF CallInv
<1> QED  BY <1>1, <1>2

LEMMA UpdaterCall ==
  ASSUME SafeInv, CallInv,
         \/ Delay \/ NothingToSend \/ Send \/ Sent \/ SendAtOnce \/ UnwindSend \/ Bury
         \/ DelayElapses \/ SendReturns
  PROVE  CallInv'
<1>0. /\ ready \in Seq(Handle) /\ thrown \subseteq Client
      /\ Updater \in Handle /\ Retrier \in Handle
      /\ Updater \notin Client /\ Dead \notin Client /\ Unwinder \notin Client
  BY TypeParts, TaskNames, ClientNames DEF SafeInv, Handle
<1>1. thrown' = thrown /\ command' = command /\ (finished' <=> payload' = NoValues)
  <2>1. CASE Delay \/ NothingToSend \/ Bury \/ DelayElapses \/ SendReturns
    <3>1. UNCHANGED <<thrown, command, finished, payload>>
      BY <2>1 DEF Delay, NothingToSend, Bury, DelayElapses, SendReturns
    <3> QED  BY <3>1 DEF CallInv
  <2>2. CASE Send
    BY <2>2 DEF Send
  <2>3. CASE Sent \/ SendAtOnce \/ UnwindSend
    BY <2>3 DEF Sent, SendAtOnce, Complete, UnwindSend
  <2> QED  BY <2>1, <2>2, <2>3
<1>2. CASE DelayElapses \/ SendReturns
  <2>1. ready' = Append(ready, Updater)
    BY <1>2 DEF DelayElapses, SendReturns
  <2>2. Queued \subseteq Queued'
    BY <1>0, <2>1, AppendQueue DEF Queued
  <2> QED  BY <1>1, <2>2, CallKept DEF Stays
<1>3. CASE Delay \/ NothingToSend \/ Send \/ Sent \/ SendAtOnce \/ UnwindSend \/ Bury
  <2>1. ready # <<>> /\ Head(ready) \in {Updater, Unwinder, Dead} /\ Rest \in Seq(Handle)
    BY <1>3, RestKeeps
       DEF Delay, NothingToSend, Send, Sent, SendAtOnce, SendsNow, UnwindSend, Bury, Runs
  <2>2. ToSet(Rest) \subseteq Queued'
    <3>1. CASE Delay \/ NothingToSend \/ Send \/ Bury
      BY <3>1 DEF Delay, NothingToSend, Send, Bury, Queued
    <3>2. CASE UnwindSend
      BY <2>1, <3>2, WakeAll, SuspendedType DEF UnwindSend, Queued
    <3>3. CASE Sent \/ SendAtOnce
      <4>1. PICK S \in SUBSET Task : \E queue \in Wake(Rest, S) :
              ready' \in Wake(IF StartsRetry THEN Append(queue, Retrier) ELSE queue,
                             Suspended("finished"))
        <5>1. {} \in SUBSET Task /\ Suspended("waiter") \in SUBSET Task
          BY SuspendedType
        <5> QED  BY <3>3, <5>1 DEF Sent, SendAtOnce, Complete
      <4>2. PICK queue \in Wake(Rest, S) :
              ready' \in Wake(IF StartsRetry THEN Append(queue, Retrier) ELSE queue,
                             Suspended("finished"))
        BY <4>1
      <4>3. queue \in Seq(Handle) /\ ToSet(Rest) \subseteq ToSet(queue)
        BY <2>1, <4>2, WakeAll
      <4> DEFINE r == IF StartsRetry THEN Append(queue, Retrier) ELSE queue
      <4>4. r \in Seq(Handle) /\ ToSet(queue) \subseteq ToSet(r)
        BY <1>0, <4>3, AppendQueue
      <4>5. ready' \in Wake(r, Suspended("finished"))
        BY <4>2
      <4> HIDE DEF r
      <4>6. ToSet(r) \subseteq Queued'
        BY <4>4, <4>5, WakeAll, SuspendedType DEF Queued
      <4> QED  BY <4>3, <4>4, <4>6
    <3> QED  BY <1>3, <3>1, <3>2, <3>3
  <2>3. Stays /\ Head(ready) \notin thrown
    BY <1>0, <2>1, <2>2, RestStays
  <2> QED  BY <1>1, <2>3, CallKept
<1> QED  BY <1>2, <1>3

LEMMA RetrierCall ==
  ASSUME SafeInv, CallInv,
         StartRetry \/ StopRetrying \/ FailToCheck \/ Retry \/ Cleanup \/ BackoffElapses
  PROVE  CallInv'
<1>0. /\ ready \in Seq(Handle) /\ Retrier \in Client /\ Retrier \in Handle
      /\ finished <=> payload = NoValues
  BY TypeParts, TaskNames DEF SafeInv, Client, Handle, CallInv
<1>1. UNCHANGED <<thrown, command, finished, payload>>
  BY DEF StartRetry, StopRetrying, FailToCheck, Retry, Cleanup, BackoffElapses
<1>2. CASE BackoffElapses
  <2>1. Queued \subseteq Queued'
    BY <1>0, <1>2, AppendQueue DEF BackoffElapses, Queued
  <2> QED  BY <1>0, <1>1, <2>1, CallKept DEF Stays
<1>3. CASE StartRetry \/ StopRetrying \/ FailToCheck \/ Retry \/ Cleanup
  <2>1. ready # <<>> /\ Head(ready) = Retrier /\ Retrier \notin thrown /\ Rest \in Seq(Handle)
    BY <1>3, RestKeeps DEF StartRetry, StopRetrying, FailToCheck, Retry, Cleanup, Runs
  <2>2. Stays
    <3>1. CASE StartRetry \/ Cleanup
      BY <2>1, <3>1, RestStays DEF StartRetry, Cleanup, Queued
    <3>2. CASE StopRetrying \/ FailToCheck
      BY <1>0, <2>1, <3>2, RestStays, AppendQueue DEF StopRetrying, FailToCheck, EndRetry, Queued
    <3>3. CASE Retry
      BY <1>0, <2>1, <3>3, ProceedStays DEF Retry
    <3> QED  BY <1>3, <3>1, <3>2, <3>3
  <2> QED  BY <1>0, <1>1, <2>1, <2>2, CallKept
<1> QED  BY <1>2, <1>3

LEMMA CancelCall ==
  ASSUME SafeInv, CallInv, NEW S \in SUBSET Client, NEW q \in Seq(Handle),
         Cancel(S, q), ToSet(q) \cap Client = Queued \cap Client,
         UNCHANGED <<finished, payload, command>>
  PROVE  CallInv'
<1> DEFINE hit == IF S \cap Waiters # {} THEN S \cup Waiters ELSE S
<1>1. thrown' = thrown \cup hit /\ ready' \in Wake(q, hit \ Queued)
  BY DEF Cancel, Waiters
<1>2. thrown \subseteq Client /\ hit \subseteq Client /\ hit \ Queued \in SUBSET Task
  BY TypeParts, SuspendedNames, ClientNames DEF SafeInv, Waiters
<1>3. Queued' = ToSet(q) \cup (hit \ Queued)
  BY <1>1, <1>2, WakeAll DEF Queued
<1> HIDE DEF hit
<1> QED  BY <1>1, <1>2, <1>3 DEF CallInv

LEMMA OutsideCall ==
  ASSUME SafeInv, CallInv, Report \/ Close \/ \E c \in Caller : Timeout(c)
  PROVE  CallInv'
<1>0. ready \in Seq(Handle)
  BY TypeParts DEF SafeInv
<1>1. CASE Report
  <2>1. Queued \subseteq Queued'
    BY <1>0, <1>1, WakeAll, SuspendedType DEF Report, Queued
  <2> QED  BY <1>1, <2>1 DEF Report, CallInv
<1>2. CASE Close
  <2>1. PICK S \in SUBSET Client : Cancel(S, CancelledQueue(ready))
    <3>1. {} \in SUBSET Client /\ {Retrier} \in SUBSET Client
      BY DEF Client
    <3> QED  BY <1>2, <3>1 DEF Close
  <2>2. UNCHANGED <<finished, payload, command>>
    BY <1>2 DEF Close
  <2>3. /\ CancelledQueue(ready) \in Seq(Handle)
        /\ ToSet(CancelledQueue(ready)) \cap Client = Queued \cap Client
    BY <1>0, CancelledKeeps DEF Queued
  <2> QED  BY <2>1, <2>2, <2>3, CancelCall
<1>3. ASSUME NEW c \in Caller, Timeout(c)  PROVE CallInv'
  <2>1. /\ {c} \in SUBSET Client /\ Cancel({c}, ready)
        /\ UNCHANGED <<finished, payload, command>>
    BY <1>3 DEF Timeout, Client
  <2> QED  BY <1>0, <2>1, CancelCall DEF Queued
<1> QED  BY <1>1, <1>2, <1>3

-----------------------------------------------------------------------------

LEMMA StepImplements ==
  ASSUME SafeInv, WaitInv, CallInv, [Next]_vars
  PROVE  CallInv' /\ Steps
<1>1. ASSUME NEW c \in Caller,
             AwaitState(c) \/ Store(c) \/ FailToStore(c) \/ Flush(c) \/ Submit(c)
      PROVE  CallInv' /\ Steps
  BY <1>1, CallerCall, CallerImplements
<1>2. ASSUME NEW t \in Caller \cup {Retrier}, Resume(t) \/ Return(t) \/ Unwind(t)
      PROVE  CallInv' /\ Steps
  BY <1>2, ClientCall, ClientImplements DEF Client
<1>3. ASSUME \/ Delay \/ NothingToSend \/ Send \/ Sent \/ SendAtOnce \/ UnwindSend
             \/ Bury \/ DelayElapses \/ SendReturns
      PROVE  CallInv' /\ Steps
  BY <1>3, UpdaterCall, UpdaterImplements
<1>4. ASSUME StartRetry \/ StopRetrying \/ FailToCheck \/ Retry \/ Cleanup \/ BackoffElapses
      PROVE  CallInv' /\ Steps
  BY <1>4, RetrierCall, RetrierImplements
<1>5. ASSUME Report \/ Close \/ \E c \in Caller : Timeout(c)  PROVE CallInv' /\ Steps
  BY <1>5, OutsideCall, OutsideImplements
<1>6. CASE UNCHANGED vars
  <2>1. CallInv' /\ \A u \in Client : Unmoved(u)
    BY <1>6 DEF vars, CallInv, Unmoved, Queued
  <2> QED  BY <1>6, <2>1, Stutters DEF vars
<1> QED  BY <1>1, <1>2, <1>3, <1>4, <1>5, <1>6 DEF Next, LoopStep

LEMMA InitImplements == Init => CallInv /\ Channel!Init
<1> SUFFICES ASSUME Init PROVE CallInv /\ Channel!Init
  OBVIOUS
<1>1. CallInv
  BY DEF Init, CallInv
<1>2. Outcome = [t \in Caller \cup {Retrier} |-> "none"]
  BY DEF Init, Outcome, Task
<1> QED  BY <1>1, <1>2, SameOperators DEF Init, Channel!Init

(* What the buffer does with tasks, delays and a shared future is what the   *)
(* channel promises: a call carries the whole buffer, calls do not overlap,  *)
(* and a command is told that it was sent only when a call that began after  *)
(* it started to wait has returned, or nothing is left to send               *)
(* (buffer.py, lines 53 to 108).                                             *)
THEOREM BufferImplementsChannel == Spec => ImplementsChannel
<1>1. SafeInv /\ WaitInv /\ CallInv /\ [Next]_vars => CallInv'
  BY StepImplements
<1>2. SafeInv /\ WaitInv /\ CallInv /\ [Next]_vars => [Channel!Next]_(Channel!vars)
  BY StepImplements DEF Steps
<1> QED  BY <1>1, <1>2, InitImplements, SafeInvariant, WaitInvariant, PTL
         DEF Spec, ImplementsChannel, Channel!Spec
=============================================================================
