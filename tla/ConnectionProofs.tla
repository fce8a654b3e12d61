-------------------------- MODULE ConnectionProofs --------------------------
(***************************************************************************)
(* Proofs about Connection, for all data points and values, any backoff    *)
(* and queues of any length.                                               *)
(***************************************************************************)
EXTENDS Connection, TLAPS

LEMMA Delays ==
  /\ LastWait \in Nat /\ Keepalive = 2 /\ Off = 3
  /\ 0 \in 0..Off /\ Off \in 0..Off /\ 0 \in 0..LastWait
BY LastWaitAssumption DEF Keepalive, Off

LEMMA EmptyQueues == <<>> \in Seq({"heartbeat", "state"}) /\ <<>> \in Seq(Message)
OBVIOUS

LEMMA MessageFields ==
  ASSUME NEW m \in Message
  PROVE  /\ m.kind = "state" => m.values \in Complete
         /\ m.kind = "status" => m.values \in Values
<1>1. NoValues \in Values
  BY DEF NoValues, Values
<1> QED
  BY <1>1 DEF Message, Plain, Complete

LEMMA NewMessages ==
  /\ \A kind \in {"other", "garbled", "reset"} : Plain(kind) \in Message
  /\ \A v \in Complete : [kind |-> "state", values |-> v] \in Message
  /\ \A v \in Values : [kind |-> "status", values |-> v] \in Message
BY DEF Message

LEMMA MergeType ==
  ASSUME NEW v \in Values, NEW w \in Values
  PROVE  /\ Merge(v, w) \in Values
         /\ Keys(v) \subseteq Keys(Merge(v, w))
BY DEF Merge, Values, Keys

LEMMA ChangeType ==
  ASSUME NEW v \in Complete, NEW d \in DataPoint, NEW x \in Value
  PROVE  /\ [v EXCEPT ![d] = x] \in Complete
         /\ [NoValues EXCEPT ![d] = x] \in Values
BY AbsentAssumption DEF Complete, Values, Keys, NoValues

\* What the receive loop takes from the queue.
LEMMA HeadType ==
  ASSUME TypeOK, inbox # <<>>
  PROVE  Head(inbox) \in Message /\ Tail(inbox) \in Seq(Message)
BY DEF TypeOK

-----------------------------------------------------------------------------
(* Type correctness, one lemma per group of actions.                        *)

LEMMA StreamTypes ==
  ASSUME TypeOK, Start \/ FailToConnect \/ Connect \/ Reconnect \/ Close
  PROVE  TypeOK'
<1> USE Delays DEF TypeOK
<1>1. NextWait \in 0..LastWait /\ Unheard \in 0..LastWait
  BY DEF NextWait, Unheard
<1>2. CASE Start
  BY <1>2 DEF Start
<1>3. CASE FailToConnect
  BY <1>1, <1>3 DEF FailToConnect
<1>4. CASE Connect
  <2>1. PICK left \in {<<>>, inbox} : inbox' = Append(left, Plain("reset"))
    BY <1>4 DEF Connect, Connected
  <2>2. Plain("reset") \in Message
    BY NewMessages
  <2>3. left \in Seq(Message)
    <3>1. CASE left = <<>>
      BY <3>1
    <3>2. CASE left = inbox
      BY <3>2
    <3> QED
      BY <3>1, <3>2
  <2>4. inbox' \in Seq(Message)
    BY <2>1, <2>2, <2>3
  <2> QED
    BY <1>1, <1>4, <2>4 DEF Connect, Connected
<1>5. CASE Reconnect
  BY <1>5 DEF Reconnect, Closed
<1>6. CASE Close
  BY <1>6, EmptyQueues DEF Close, Closed
<1> QED
  BY <1>2, <1>3, <1>4, <1>5, <1>6

LEMMA TimerTypes ==
  ASSUME TypeOK, Tick \/ WatchdogFires \/ Refresh
  PROVE  TypeOK'
<1> USE Delays DEF TypeOK
<1>1. CASE Tick
  BY <1>1 DEF Tick, Sent
<1>2. CASE WatchdogFires
  BY <1>2, EmptyQueues DEF WatchdogFires, Lost
<1>3. CASE Refresh
  BY <1>3 DEF Refresh
<1> QED
  BY <1>1, <1>2, <1>3

LEMMA ReceiveTypes ==
  ASSUME TypeOK, Receive
  PROVE  TypeOK'
<1> USE Delays DEF TypeOK
<1>1. Head(inbox) \in Message /\ Tail(inbox) \in Seq(Message)
  BY HeadType DEF Receive, ReceiveReset, ReceiveGarbled, ReceiveOther, ReceiveState,
                  ReceiveStatus, Receives
<1>2. CASE ReceiveReset
  BY <1>1, <1>2 DEF ReceiveReset
<1>3. CASE ReceiveGarbled
  <2>1. errors' \in 0..3
    BY <1>3 DEF ReceiveGarbled
  <2>2. /\ outbox' \in Seq({"heartbeat", "state"})
        /\ link' \in {"new", "connecting", "up", "dropped", "closed"}
        /\ synced' \in BOOLEAN
    BY <1>3, EmptyQueues DEF ReceiveGarbled, Lost
  <2> QED
    BY <1>1, <1>3, <2>1, <2>2 DEF ReceiveGarbled, Read
<1>4. CASE ReceiveOther
  BY <1>1, <1>4 DEF ReceiveOther, Read
<1>5. CASE ReceiveState
  <2>1. keeper' \in Values
    BY <1>1, <1>5, MessageFields DEF ReceiveState, Receives, Complete
  <2> QED
    BY <1>1, <1>5, <2>1 DEF ReceiveState, Read
<1>6. CASE ReceiveStatus
  <2>1. keeper' \in Values
    BY <1>1, <1>6, MessageFields, MergeType DEF ReceiveStatus, Receives, Updated
  <2> QED
    BY <1>1, <1>6, <2>1 DEF ReceiveStatus, Read
<1> QED
  BY <1>2, <1>3, <1>4, <1>5, <1>6 DEF Receive

LEMMA NetworkTypes ==
  ASSUME TypeOK, Answer \/ Change \/ Drop \/ Hang
  PROVE  TypeOK'
<1> USE DEF TypeOK, Network
<1>1. CASE Answer
  BY <1>1, NewMessages DEF Answer
<1>2. CASE Change
  <2>1. PICK d \in DataPoint, x \in Value :
          /\ device' = [device EXCEPT ![d] = x]
          /\ IF link = "up" /\ alive
             THEN \E m \in {Plain("garbled"),
                            [kind |-> "status", values |-> [NoValues EXCEPT ![d] = x]]} :
                    inbox' = Append(inbox, m)
             ELSE inbox' = inbox
    BY <1>2 DEF Change
  <2>2. device' \in Complete /\ [NoValues EXCEPT ![d] = x] \in Values
    BY <2>1, ChangeType
  <2>3. Plain("garbled") \in Message
    BY NewMessages
  <2>4. [kind |-> "status", values |-> [NoValues EXCEPT ![d] = x]] \in Message
    BY <2>2, NewMessages
  <2>5. inbox' \in Seq(Message)
    <3>1. CASE link = "up" /\ alive
      <4>1. PICK m \in {Plain("garbled"),
                        [kind |-> "status", values |-> [NoValues EXCEPT ![d] = x]]} :
              inbox' = Append(inbox, m)
        BY <2>1, <3>1
      <4>2. m \in Message
        BY <2>3, <2>4
      <4> QED
        BY <4>1, <4>2
    <3>2. CASE ~(link = "up" /\ alive)
      BY <2>1, <3>2
    <3> QED
      BY <3>1, <3>2
  <2> QED
    BY <1>2, <2>2, <2>5 DEF Change
<1>3. CASE Drop
  BY <1>3, EmptyQueues DEF Drop, Lost
<1>4. CASE Hang
  BY <1>4, EmptyQueues DEF Hang
<1> QED
  BY <1>1, <1>2, <1>3, <1>4

(* The index of the backoff stays in its sequence, and the errors that are  *)
(* counted stay below the fourth, whatever the device sends.                *)
THEOREM ConnectionTypes == Spec => []TypeOK
<1>1. Init => TypeOK
  <2>1. NoValues \in Values
    BY DEF NoValues, Values
  <2> QED
    BY <2>1, Delays, EmptyQueues DEF Init, TypeOK
<1>2. TypeOK /\ [Next]_vars => TypeOK'
  <2> SUFFICES ASSUME TypeOK, [Next]_vars PROVE TypeOK'
    OBVIOUS
  <2>1. CASE UNCHANGED vars
    BY <2>1 DEF vars, TypeOK
  <2>2. CASE Next
    BY <2>2, StreamTypes, TimerTypes, ReceiveTypes, NetworkTypes DEF Next
  <2> QED
    BY <2>1, <2>2
<1> QED
  BY <1>1, <1>2, PTL DEF Spec

-----------------------------------------------------------------------------
(* The watchdog.                                                            *)

(* Whatever the order of messages, losses and timers, a link that is up has *)
(* its watchdog, its heartbeat and its refresh running, and nothing is left *)
(* of them once the connection is closed.                                   *)
THEOREM UpIsWatched == Spec => []Watched
<1>1. Init => Watched
  BY DEF Init, Watched
<1>2. TypeOK /\ Watched /\ [Next]_vars => Watched'
  <2> SUFFICES ASSUME TypeOK, Watched, [Next]_vars PROVE Watched'
    OBVIOUS
  <2> USE Delays DEF Watched
  <2>1. CASE UNCHANGED vars
    BY <2>1 DEF vars
  <2>2. CASE Start \/ FailToConnect \/ Connect \/ Reconnect \/ Close
    BY <2>2 DEF Start, FailToConnect, Connect, Connected, Reconnect, Close, Closed
  <2>3. CASE Tick \/ WatchdogFires \/ Refresh
    BY <2>3 DEF Tick, WatchdogFires, Refresh, Lost, TypeOK
  <2>4. CASE Receive
    BY <2>4 DEF Receive, ReceiveReset, ReceiveGarbled, ReceiveOther, ReceiveState,
                ReceiveStatus, Receives, Read, Lost
  <2>5. CASE Answer \/ Change \/ Drop \/ Hang
    BY <2>5 DEF Answer, Change, Drop, Hang, Lost, Network
  <2> QED
    BY <2>1, <2>2, <2>3, <2>4, <2>5 DEF Next
<1> QED
  BY <1>1, <1>2, ConnectionTypes, PTL DEF Spec

-----------------------------------------------------------------------------
(* The state that is reported.                                              *)

(* A status that arrives before the first response never becomes a state,   *)
(* so that every state that is reported has all the data points.            *)
THEOREM ReportsAreFull == Spec => []FullReports
<1>1. Init => FullReports
  BY DEF Init, FullReports
<1>2. TypeOK /\ FullReports /\ [Next]_vars => FullReports'
  <2> SUFFICES ASSUME TypeOK, FullReports, [Next]_vars PROVE FullReports'
    OBVIOUS
  <2> USE DEF FullReports
  <2>1. CASE UNCHANGED keeper
    BY <2>1
  <2>2. CASE ReceiveState
    <3>1. keeper' \in Complete
      BY <2>2, HeadType, MessageFields DEF ReceiveState, Receives
    <3> QED
      BY <3>1 DEF Complete
  <2>3. CASE ReceiveStatus
    <3>1. Head(inbox).values \in Values
      BY <2>3, HeadType, MessageFields DEF ReceiveStatus, Receives
    <3>2. CASE keeper = NoValues
      BY <2>3, <3>2 DEF ReceiveStatus, Updated
    <3>3. CASE keeper # NoValues
      <4>1. keeper' = Merge(keeper, Head(inbox).values)
        BY <2>3, <3>3 DEF ReceiveStatus, Updated
      <4>2. Keys(keeper) \subseteq Keys(keeper')
        BY <3>1, <4>1, MergeType DEF TypeOK
      <4>3. Keys(keeper') \subseteq DataPoint
        BY DEF Keys
      <4> QED
        BY <3>3, <4>2, <4>3
    <3> QED
      BY <3>2, <3>3
  <2> QED
    BY <2>1, <2>2, <2>3
    DEF Next, Start, FailToConnect, Connect, Reconnect, Close, Tick, WatchdogFires,
        Refresh, Receive, ReceiveReset, ReceiveGarbled, ReceiveOther, Answer, Change,
        Drop, Hang, Network, vars
<1> QED
  BY <1>1, <1>2, ConnectionTypes, PTL DEF Spec

-----------------------------------------------------------------------------
(* The backoff.                                                             *)

(* Only data that is read makes the connection healthy: the backoff counts  *)
(* the attempts since then, whether they succeeded or not.                  *)
THEOREM UnhealthyConnectionsBackOff == Spec => []UnhealthyBacksOff
<1>1. Init => UnhealthyBacksOff
  BY DEF Init, UnhealthyBacksOff
<1>2. UnhealthyBacksOff /\ [Next]_vars => UnhealthyBacksOff'
  <2> SUFFICES ASSUME UnhealthyBacksOff, [Next]_vars PROVE UnhealthyBacksOff'
    OBVIOUS
  <2> USE DEF UnhealthyBacksOff
  <2>1. CASE UNCHANGED <<wait, unheard>>
    BY <2>1
  <2>2. CASE FailToConnect \/ Connect
    BY <2>2 DEF FailToConnect, Connect, NextWait, Unheard
  <2>3. CASE Read
    BY <2>3 DEF Read
  <2> QED
    BY <2>1, <2>2, <2>3
    DEF Next, Start, Reconnect, Close, Tick, WatchdogFires, Refresh, Receive,
        ReceiveReset, ReceiveGarbled, ReceiveOther, ReceiveState, ReceiveStatus,
        Answer, Change, Drop, Hang, Network, vars
<1> QED
  BY <1>1, <1>2, PTL DEF Spec

-----------------------------------------------------------------------------
(* The state that is kept.                                                  *)

\* Nothing behind place i was lost or could not be decoded.
Intact(i) ==
  \A j \in DOMAIN inbox : j > i => inbox[j].kind \notin {"reset", "garbled"}

\* A response on its way, with what follows it, tells what the device has now.
Fresh ==
  link = "up" /\ alive =>
    \A i \in DOMAIN inbox :
      inbox[i].kind = "state" /\ Intact(i) => \A d \in DataPoint : Announced(d)

Synced ==
  synced => link = "up" /\ keeper \in Complete /\ Plain("reset") \notin ToSet(inbox)

SyncInv == Synced /\ Fresh /\ KeptStateIsCurrent

LEMMA Kinds ==
  ASSUME NEW m \in Message
  PROVE  /\ m.kind = "reset" <=> m = Plain("reset")
         /\ m.kind = "garbled" <=> m = Plain("garbled")
         /\ m.kind \notin {"state", "status"} => m.values = NoValues
BY DEF Message, Plain

LEMMA InQueue ==
  ASSUME NEW q, NEW x
  PROVE  x \in ToSet(q) <=> \E i \in DOMAIN q : q[i] = x
BY DEF ToSet

\* Nothing is put in the queue or taken from it.
LEMMA SyncKept ==
  ASSUME SyncInv, UNCHANGED <<inbox, device>>, synced' => synced /\ UNCHANGED keeper,
         synced' \/ (link' = "up" /\ alive') => link' = link, alive' => alive
  PROVE  SyncInv'
BY DEF SyncInv, Synced, Fresh, KeptStateIsCurrent, Intact, Announced, Unmentioned

\* A message arrives.
LEMMA Arrives ==
  ASSUME TypeOK, NEW m \in Message, inbox' = Append(inbox, m), device' \in Complete, NEW d
  PROVE  /\ \A x \in Message : x \in ToSet(inbox') <=> x \in ToSet(inbox) \/ x = m
         /\ m.values[d] = device'[d] => Announced(d)'
         /\ m.values[d] = Absent /\ device'[d] = device[d] /\ Announced(d) => Announced(d)'
         /\ m.values[d] = Absent /\ Unmentioned(d) => Unmentioned(d)'
         /\ \A i \in DOMAIN inbox : Intact(i)' => Intact(i) /\ m.kind \notin {"reset", "garbled"}
         /\ \A i \in DOMAIN inbox' : \/ i \in DOMAIN inbox /\ inbox'[i] = inbox[i]
                                     \/ inbox'[i] = m /\ i = Len(inbox) + 1
<1> DEFINE n == Len(inbox)
<1>1. /\ n \in Nat /\ DOMAIN inbox = 1..n /\ DOMAIN inbox' = 1..(n + 1)
      /\ \A i \in 1..n : inbox'[i] = inbox[i]
      /\ inbox'[n + 1] = m
  BY DEF TypeOK
<1> HIDE DEF n
<1>2. ASSUME NEW x \in Message
      PROVE  x \in ToSet(inbox') <=> x \in ToSet(inbox) \/ x = m
  <2>0. x \in ToSet(inbox') <=> \E i \in DOMAIN inbox' : inbox'[i] = x
    BY InQueue
  <2>1. x \in ToSet(inbox') <=> \E i \in 1..(n + 1) : inbox'[i] = x
    BY <1>1, <2>0
  <2>2. x \in ToSet(inbox) <=> \E i \in 1..n : inbox[i] = x
    BY <1>1, InQueue
  <2>3. \A i \in 1..(n + 1) : i \in 1..n \/ i = n + 1
    BY <1>1
  <2>4. \A i \in 1..n : i \in 1..(n + 1)
    BY <1>1
  <2>5. n + 1 \in 1..(n + 1)
    BY <1>1
  <2> QED  BY <1>1, <2>1, <2>2, <2>3, <2>4, <2>5
<1>3. m.values[d] = device'[d] => Announced(d)'
  BY <1>1 DEF Announced
<1>4. ASSUME m.values[d] = Absent, device'[d] = device[d], Announced(d)  PROVE Announced(d)'
  BY <1>1, <1>4 DEF Announced
<1>5. m.values[d] = Absent /\ Unmentioned(d) => Unmentioned(d)'
  BY <1>1 DEF Unmentioned
<1>6. \A i \in DOMAIN inbox : Intact(i)' => Intact(i) /\ m.kind \notin {"reset", "garbled"}
  BY <1>1 DEF Intact
<1>7. ASSUME NEW i \in DOMAIN inbox'
      PROVE  \/ i \in DOMAIN inbox /\ inbox'[i] = inbox[i]
             \/ inbox'[i] = m /\ i = n + 1
  <2>1. i \in 1..n \/ i = n + 1
    BY <1>1
  <2>2. CASE i \in 1..n
    <3>1. i \in DOMAIN inbox
      BY <1>1, <2>2
    <3> QED  BY <1>1, <2>2, <3>1
  <2>3. CASE i = n + 1
    BY <1>1, <2>3
  <2> QED  BY <2>1, <2>2, <2>3
<1> QED  BY <1>2, <1>3, <1>4, <1>5, <1>6, <1>7 DEF n

\* The loop takes the first message.
LEMMA Taken ==
  ASSUME TypeOK, inbox # <<>>, inbox' = Tail(inbox), device' = device, NEW d
  PROVE  /\ Head(inbox) \in Message /\ ToSet(inbox') \subseteq ToSet(inbox)
         /\ \A x : x \in ToSet(inbox) => x = Head(inbox) \/ x \in ToSet(inbox')
         /\ Announced(d) =>
              \/ Announced(d)'
              \/ Unmentioned(d)' /\ Head(inbox).values[d] = device[d]
         /\ Unmentioned(d) => Unmentioned(d)' /\ Head(inbox).values[d] = Absent
         /\ \A i \in DOMAIN inbox' :
              i + 1 \in DOMAIN inbox /\ inbox'[i] = inbox[i + 1] /\ (Intact(i)' => Intact(i + 1))
<1> DEFINE n == Len(inbox)
<1>1. /\ n \in Nat /\ n >= 1 /\ DOMAIN inbox = 1..n /\ DOMAIN inbox' = 1..(n - 1)
      /\ \A i \in 1..(n - 1) : inbox'[i] = inbox[i + 1]
      /\ inbox[1] = Head(inbox) /\ Head(inbox) \in Message
  BY DEF TypeOK
<1> HIDE DEF n
<1>2. \A i \in 2..n : i - 1 \in 1..(n - 1) /\ inbox[i] = inbox'[i - 1]
  BY <1>1
<1>3. ToSet(inbox') \subseteq ToSet(inbox)
  <2> SUFFICES ASSUME NEW x \in ToSet(inbox')  PROVE x \in ToSet(inbox)
    OBVIOUS
  <2>1. PICK i \in DOMAIN inbox' : inbox'[i] = x
    BY InQueue
  <2>2. i + 1 \in DOMAIN inbox /\ inbox[i + 1] = x
    BY <1>1, <2>1
  <2> QED  BY <2>2, InQueue
<1>4. ASSUME NEW x \in ToSet(inbox), x # Head(inbox)  PROVE x \in ToSet(inbox')
  <2>1. PICK i \in 1..n : inbox[i] = x
    BY <1>1, InQueue
  <2>2. i - 1 \in DOMAIN inbox' /\ inbox'[i - 1] = x
    BY <1>1, <1>2, <1>4, <2>1
  <2> QED  BY <2>2, InQueue
<1>5. ASSUME Announced(d)
      PROVE  Announced(d)' \/ (Unmentioned(d)' /\ Head(inbox).values[d] = device[d])
  <2>1. PICK i \in 1..n : /\ inbox[i].values[d] = device[d]
                          /\ \A j \in 1..n : j > i => inbox[j].values[d] = Absent
    BY <1>1, <1>5 DEF Announced
  <2>2. CASE i = 1
    <3>1. \A j \in 1..(n - 1) : inbox'[j].values[d] = Absent
      BY <1>1, <2>1, <2>2
    <3> QED  BY <1>1, <2>1, <2>2, <3>1 DEF Unmentioned
  <2>3. CASE i # 1
    <3>1. /\ i - 1 \in 1..(n - 1) /\ inbox'[i - 1].values[d] = device[d]
          /\ \A j \in 1..(n - 1) : j > i - 1 => inbox'[j].values[d] = Absent
      BY <1>1, <1>2, <2>1, <2>3
    <3> QED  BY <1>1, <3>1 DEF Announced
  <2> QED  BY <2>2, <2>3
<1>6. Unmentioned(d) => Unmentioned(d)' /\ Head(inbox).values[d] = Absent
  BY <1>1 DEF Unmentioned
<1>7. ASSUME NEW i \in 1..(n - 1), Intact(i)'  PROVE Intact(i + 1)
  <2> SUFFICES ASSUME NEW j \in 1..n, j > i + 1
               PROVE  inbox[j].kind \notin {"reset", "garbled"}
    BY <1>1 DEF Intact
  <2>1. j - 1 \in DOMAIN inbox' /\ j - 1 > i /\ inbox[j] = inbox'[j - 1]
    BY <1>1, <1>2
  <2> QED  BY <1>7, <2>1 DEF Intact
<1> QED  BY <1>1, <1>3, <1>4, <1>5, <1>6, <1>7


LEMMA StreamSync ==
  ASSUME TypeOK, SyncInv, Start \/ FailToConnect \/ Connect \/ Reconnect \/ Close
  PROVE  SyncInv'
<1>1. CASE Start \/ FailToConnect \/ Reconnect
  BY <1>1, SyncKept DEF Start, FailToConnect, Reconnect, SyncInv, Synced
<1>2. CASE Connect
  <2>1. ~synced /\ ~synced'
    BY <1>2 DEF Connect, Connected, SyncInv, Synced
  <2>2. PICK left \in {<<>>, inbox} : inbox' = Append(left, Plain("reset"))
    BY <1>2 DEF Connect, Connected
  <2>3. /\ Len(left) \in Nat /\ DOMAIN inbox' = 1..(Len(left) + 1)
        /\ inbox'[Len(left) + 1].kind = "reset"
    BY <2>2 DEF TypeOK, Plain
  <2>4. Fresh'
    <3> SUFFICES ASSUME NEW i \in DOMAIN inbox', inbox'[i].kind = "state", Intact(i)'
                 PROVE  FALSE
      BY DEF Fresh
    <3>1. Len(left) + 1 \in DOMAIN inbox' /\ i \in 1..(Len(left) + 1)
      BY <2>3
    <3>2. CASE i = Len(left) + 1
      BY <2>3, <3>2
    <3>3. CASE i # Len(left) + 1
      <4>1. Len(left) + 1 > i
        BY <2>3, <3>1, <3>3
      <4> QED  BY <2>3, <3>1, <4>1 DEF Intact
    <3> QED  BY <3>2, <3>3
  <2> QED  BY <2>1, <2>4 DEF SyncInv, Synced, KeptStateIsCurrent
<1>3. CASE Close
  BY <1>3 DEF Close, SyncInv, Synced, KeptStateIsCurrent, Fresh
<1> QED  BY <1>1, <1>2, <1>3

LEMMA TimerSync ==
  ASSUME SyncInv, Tick \/ WatchdogFires \/ Refresh
  PROVE  SyncInv'
BY SyncKept DEF Tick, WatchdogFires, Refresh, Lost

LEMMA ReceiveSync ==
  ASSUME TypeOK, TypeOK', SyncInv, Receive
  PROVE  SyncInv'
<1> DEFINE m == Head(inbox)
<1>1. inbox # <<>> /\ inbox' = Tail(inbox) /\ device' = device /\ alive' = alive
  BY DEF Receive, ReceiveReset, ReceiveGarbled, ReceiveOther, ReceiveState, ReceiveStatus,
         Receives, Read
<1>2. /\ link' = link \/ (link = "up" /\ link' = "dropped" /\ ~synced')
      /\ synced' => link' = link
  BY DEF Receive, ReceiveReset, ReceiveGarbled, ReceiveOther, ReceiveState, ReceiveStatus,
         Read, Lost, SyncInv, Synced
<1>3. m \in Message /\ ToSet(inbox') \subseteq ToSet(inbox)
  BY <1>1, Taken
<1>4. Fresh'
  <2> SUFFICES ASSUME link' = "up", alive', NEW i \in DOMAIN inbox',
                      inbox'[i].kind = "state", Intact(i)', NEW d \in DataPoint
               PROVE  Announced(d)'
    BY DEF Fresh
  <2>1. i + 1 \in DOMAIN inbox /\ inbox'[i] = inbox[i + 1] /\ Intact(i + 1)
    BY <1>1, Taken
  <2>2. Announced(d)
    BY <1>1, <1>2, <2>1 DEF SyncInv, Fresh
  <2>3. ~Unmentioned(d)'
    <3>1. inbox'[i] \in Message
      BY DEF TypeOK
    <3>2. inbox'[i].values[d] # Absent
      BY <3>1, MessageFields DEF Complete, Keys
    <3> QED  BY <3>2 DEF Unmentioned
  <2> QED  BY <1>1, <2>2, <2>3, Taken
<1>5. CASE ReceiveReset \/ ReceiveOther
  <2>1. synced' = synced /\ keeper' = keeper /\ m.values = NoValues
    BY <1>3, <1>5, Kinds DEF ReceiveReset, ReceiveOther, Read, Receives
  <2>2. Synced'
    BY <1>2, <1>3, <2>1 DEF SyncInv, Synced
  <2>3. KeptStateIsCurrent'
    <3> SUFFICES ASSUME synced, alive, Plain("garbled") \notin ToSet(inbox'),
                        NEW d \in DataPoint
                 PROVE  Announced(d)' \/ (Unmentioned(d)' /\ keeper[d] = device[d])
      BY <1>1, <2>1 DEF KeptStateIsCurrent
    <3>1. Plain("garbled") \notin ToSet(inbox)
      <4>1. m # Plain("garbled")
        BY <1>3, <1>5, Kinds DEF ReceiveReset, ReceiveOther, Receives
      <4> QED  BY <1>1, <4>1, Taken
    <3>2. m.values[d] = Absent
      BY <2>1 DEF NoValues
    <3>3. device[d] # Absent
      BY DEF TypeOK, Complete, Keys
    <3>4. Announced(d) \/ (Unmentioned(d) /\ keeper[d] = device[d])
      BY <3>1 DEF SyncInv, KeptStateIsCurrent
    <3> QED  BY <1>1, <3>2, <3>3, <3>4, Taken
  <2> QED  BY <1>4, <2>2, <2>3 DEF SyncInv
<1>6. CASE ReceiveGarbled
  <2>1. ~synced'
    BY <1>6 DEF ReceiveGarbled, Lost
  <2> QED  BY <1>4, <2>1 DEF SyncInv, Synced, KeptStateIsCurrent
<1>7. CASE ReceiveState
  <2>1. /\ keeper' = m.values /\ m.kind = "state" /\ keeper' \in Complete
        /\ synced' <=> link = "up" /\ Plain("reset") \notin ToSet(inbox)
    BY <1>3, <1>7, MessageFields DEF ReceiveState, Receives
  <2>2. Synced'
    BY <1>2, <1>3, <2>1 DEF Synced
  <2>3. KeptStateIsCurrent'
    <3> SUFFICES ASSUME synced', alive, Plain("garbled") \notin ToSet(inbox'),
                        NEW d \in DataPoint
                 PROVE  Announced(d)' \/ (Unmentioned(d)' /\ m.values[d] = device[d])
      BY <1>1, <2>1 DEF KeptStateIsCurrent
    <3>1. Plain("garbled") \notin ToSet(inbox) /\ Plain("reset") \notin ToSet(inbox)
      <4>1. m # Plain("garbled")
        BY <1>3, <2>1, Kinds
      <4> QED  BY <1>1, <2>1, <4>1, Taken
    <3>2. Intact(1)
      <4> SUFFICES ASSUME NEW j \in DOMAIN inbox
                   PROVE  inbox[j].kind \notin {"reset", "garbled"}
        BY DEF Intact
      <4>1. inbox[j] \in Message /\ inbox[j] \in ToSet(inbox)
        BY InQueue DEF TypeOK
      <4> QED  BY <3>1, <4>1, Kinds
    <3>3. 1 \in DOMAIN inbox /\ inbox[1] = m
      BY <1>1 DEF TypeOK
    <3>4. Announced(d)
      BY <2>1, <3>2, <3>3 DEF SyncInv, Fresh
    <3> QED  BY <1>1, <3>4, Taken
  <2> QED  BY <1>4, <2>2, <2>3 DEF SyncInv
<1>8. CASE ReceiveStatus
  <2>1. /\ m.kind = "status" /\ m.values \in Values /\ synced' = synced
        /\ keeper' = IF keeper = NoValues THEN keeper ELSE Merge(keeper, m.values)
    BY <1>3, <1>8, MessageFields DEF ReceiveStatus, Receives, Updated, Read
  <2>2. Synced'
    <3> SUFFICES ASSUME synced  PROVE keeper' \in Complete
      BY <1>2, <1>3, <2>1 DEF SyncInv, Synced
    <3>1. keeper \in Complete
      BY DEF SyncInv, Synced
    <3>2. CASE keeper # NoValues
      <4>1. keeper' \in Values /\ Keys(keeper) \subseteq Keys(keeper')
        BY <2>1, <3>1, <3>2, MergeType DEF Complete
      <4> QED  BY <3>1, <4>1 DEF Complete, Keys
    <3> QED  BY <2>1, <3>1, <3>2
  <2>3. KeptStateIsCurrent'
    <3> SUFFICES ASSUME synced, alive, Plain("garbled") \notin ToSet(inbox'),
                        NEW d \in DataPoint
                 PROVE  Announced(d)' \/ (Unmentioned(d)' /\ keeper'[d] = device[d])
      BY <1>1, <2>1 DEF KeptStateIsCurrent
    <3>1. Plain("garbled") \notin ToSet(inbox)
      <4>1. m # Plain("garbled")
        BY <1>3, <2>1, Kinds
      <4> QED  BY <1>1, <4>1, Taken
    <3>2. device[d] # Absent /\ keeper[d] # Absent
      BY DEF SyncInv, Synced, TypeOK, Complete, Keys
    <3>3. keeper'[d] = IF m.values[d] # Absent THEN m.values[d] ELSE keeper[d]
      BY <2>1, <3>2 DEF NoValues, Merge
    <3>4. Announced(d) \/ (Unmentioned(d) /\ keeper[d] = device[d])
      BY <3>1 DEF SyncInv, KeptStateIsCurrent
    <3> QED  BY <1>1, <3>2, <3>3, <3>4, Taken
  <2> QED  BY <1>4, <2>2, <2>3 DEF SyncInv
<1> QED  BY <1>5, <1>6, <1>7, <1>8 DEF Receive

LEMMA AnswerSync ==
  ASSUME TypeOK, SyncInv, Answer
  PROVE  SyncInv'
<1>1. /\ link = "up" /\ alive /\ UNCHANGED <<link, alive, device, synced, keeper>>
      /\ device \in Complete
  BY DEF Answer, Network, TypeOK
<1>2. PICK m \in Message :
        /\ inbox' = Append(inbox, m)
        /\ m \in {Plain("other"), Plain("garbled")} \/ m = [kind |-> "state", values |-> device]
  BY <1>1, NewMessages DEF Answer
<1>3. \A d \in DataPoint : device[d] # Absent
  BY <1>1 DEF Complete, Keys
<1>4. ASSUME NEW d \in DataPoint
      PROVE  /\ Announced(d) => Announced(d)'
             /\ m.kind = "state" => Announced(d)'
             /\ Unmentioned(d) => Unmentioned(d)' \/ Announced(d)'
  <2>1. CASE m = [kind |-> "state", values |-> device]
    BY <1>1, <1>2, <2>1, Arrives
  <2>2. CASE m \in {Plain("other"), Plain("garbled")}
    <3>1. m.values[d] = Absent /\ m.kind # "state"
      BY <2>2 DEF Plain, NoValues
    <3> QED  BY <1>1, <1>2, <3>1, Arrives
  <2> QED  BY <1>2, <2>1, <2>2
<1>5. Synced'
  <2>1. m # Plain("reset")
    BY <1>2 DEF Plain
  <2>2. Plain("reset") \in ToSet(inbox') <=> Plain("reset") \in ToSet(inbox)
    BY <1>1, <1>2, <2>1, Arrives, NewMessages
  <2> QED  BY <1>1, <2>2 DEF SyncInv, Synced
<1>6. Fresh'
  <2> SUFFICES ASSUME NEW i \in DOMAIN inbox', inbox'[i].kind = "state", Intact(i)',
                      NEW d \in DataPoint
               PROVE  Announced(d)'
    BY DEF Fresh
  <2>1. CASE i \in DOMAIN inbox /\ inbox'[i] = inbox[i]
    <3>1. Intact(i)
      BY <1>1, <1>2, <2>1, Arrives
    <3>2. Announced(d)
      BY <1>1, <2>1, <3>1 DEF SyncInv, Fresh
    <3> QED  BY <1>4, <3>2
  <2>2. CASE inbox'[i] = m
    BY <1>4, <2>2
  <2> QED  BY <1>1, <1>2, <2>1, <2>2, Arrives
<1>7. KeptStateIsCurrent'
  <2> SUFFICES ASSUME synced, Plain("garbled") \notin ToSet(inbox'), NEW d \in DataPoint
               PROVE  Announced(d)' \/ (Unmentioned(d)' /\ keeper[d] = device[d])
    BY <1>1 DEF KeptStateIsCurrent
  <2>1. Plain("garbled") \notin ToSet(inbox)
    BY <1>1, <1>2, Arrives, NewMessages
  <2>2. Announced(d) \/ (Unmentioned(d) /\ keeper[d] = device[d])
    BY <1>1, <2>1 DEF SyncInv, KeptStateIsCurrent
  <2> QED  BY <1>4, <2>2
<1> QED  BY <1>5, <1>6, <1>7 DEF SyncInv

\* The device has changed, and may have said so.
LEMMA ChangeSync ==
  ASSUME TypeOK, TypeOK', SyncInv, Change
  PROVE  SyncInv'
<1>1. UNCHANGED <<link, alive, synced, keeper>>
  BY DEF Change, Network
<1>2. CASE ~(link = "up" /\ alive)
  <2>1. inbox' = inbox
    BY <1>2 DEF Change
  <2> QED  BY <1>1, <1>2, <2>1 DEF SyncInv, Synced, Fresh, KeptStateIsCurrent
<1>3. CASE link = "up" /\ alive
  <2>1. PICK c \in DataPoint, x \in Value :
          /\ device' = [device EXCEPT ![c] = x]
          /\ \E m \in {Plain("garbled"),
                       [kind |-> "status", values |-> [NoValues EXCEPT ![c] = x]]} :
               inbox' = Append(inbox, m)
    BY <1>3 DEF Change
  <2>2. device' \in Complete /\ [NoValues EXCEPT ![c] = x] \in Values
    BY <2>1, ChangeType DEF TypeOK
  <2>3. CASE inbox' = Append(inbox, Plain("garbled"))
    <3>1. Plain("garbled") \in Message /\ Plain("reset") \in Message
      BY NewMessages
    <3>2. Plain("garbled") \in ToSet(inbox')
      BY <2>2, <2>3, <3>1, Arrives
    <3>3. Plain("reset") \in ToSet(inbox') <=> Plain("reset") \in ToSet(inbox)
      <4>1. Plain("reset") # Plain("garbled")
        BY DEF Plain
      <4> QED  BY <2>2, <2>3, <3>1, <4>1, Arrives
    <3>4. \A i \in DOMAIN inbox' : ~(inbox'[i].kind = "state" /\ Intact(i)')
      BY <2>2, <2>3, <3>1, Arrives DEF Plain
    <3> QED  BY <1>1, <3>2, <3>3, <3>4 DEF SyncInv, Synced, Fresh, KeptStateIsCurrent
  <2>4. CASE inbox' # Append(inbox, Plain("garbled"))
    <3> DEFINE m == [kind |-> "status", values |-> [NoValues EXCEPT ![c] = x]]
    <3>1. inbox' = Append(inbox, m) /\ m \in Message
      BY <2>1, <2>2, <2>4, NewMessages
    <3>2. m.kind = "status" /\ m # Plain("reset") /\ m # Plain("garbled")
      BY DEF Plain
    <3>3. ASSUME NEW d \in DataPoint
          PROVE  /\ Announced(d) => Announced(d)'
                 /\ Unmentioned(d) => (Unmentioned(d)' /\ device'[d] = device[d]) \/ Announced(d)'
      <4>1. CASE d = c
        <5>1. m.values[d] = device'[d]
          BY <2>1, <4>1 DEF NoValues, TypeOK, Complete, Values
        <5> QED  BY <2>2, <3>1, <5>1, Arrives
      <4>2. CASE d # c
        <5>1. m.values[d] = Absent /\ device'[d] = device[d]
          BY <2>1, <4>2 DEF NoValues, TypeOK, Complete, Values
        <5> QED  BY <2>2, <3>1, <5>1, Arrives
      <4> QED  BY <4>1, <4>2
    <3> HIDE DEF m
    <3>4. /\ Plain("reset") \in ToSet(inbox') <=> Plain("reset") \in ToSet(inbox)
          /\ Plain("garbled") \in ToSet(inbox') <=> Plain("garbled") \in ToSet(inbox)
      BY <2>2, <3>1, <3>2, Arrives, NewMessages
    <3>5. Fresh'
      <4> SUFFICES ASSUME NEW i \in DOMAIN inbox', inbox'[i].kind = "state", Intact(i)',
                          NEW d \in DataPoint
                   PROVE  Announced(d)'
        BY DEF Fresh
      <4>1. i \in DOMAIN inbox /\ inbox'[i] = inbox[i]
        BY <2>2, <3>1, <3>2, Arrives
      <4>2. Intact(i)
        BY <2>2, <3>1, <4>1, Arrives
      <4>3. Announced(d)
        BY <1>3, <4>1, <4>2 DEF SyncInv, Fresh
      <4> QED  BY <3>3, <4>3
    <3>6. Synced'
      BY <1>1, <3>4 DEF SyncInv, Synced
    <3>7. KeptStateIsCurrent'
      <4> SUFFICES ASSUME synced, Plain("garbled") \notin ToSet(inbox'), NEW d \in DataPoint
                   PROVE  Announced(d)' \/ (Unmentioned(d)' /\ keeper[d] = device'[d])
        BY <1>1 DEF KeptStateIsCurrent
      <4>1. Announced(d) \/ (Unmentioned(d) /\ keeper[d] = device[d])
        BY <1>3, <3>4 DEF SyncInv, KeptStateIsCurrent
      <4> QED  BY <3>3, <4>1
    <3> QED  BY <3>5, <3>6, <3>7 DEF SyncInv
  <2> QED  BY <2>3, <2>4
<1> QED  BY <1>2, <1>3

LEMMA LossSync ==
  ASSUME SyncInv, Drop \/ Hang
  PROVE  SyncInv'
BY SyncKept DEF Drop, Hang, Lost, Network

(* Once a response to a refresh was read on the link, what the keeper has,  *)
(* with the messages that are still to be read, is what the device has      *)
(* (state.py, lines 52 to 68), whatever was changed while the link was down *)
(* and however the responses and the changes interleave.                    *)
THEOREM KeeperIsCurrent == Spec => []KeptStateIsCurrent
<1>1. Init => SyncInv
  BY DEF Init, SyncInv, Synced, Fresh, KeptStateIsCurrent
<1>2. TypeOK /\ TypeOK' /\ SyncInv /\ [Next]_vars => SyncInv'
  <2> SUFFICES ASSUME TypeOK, TypeOK', SyncInv, [Next]_vars PROVE SyncInv'
    OBVIOUS
  <2>1. CASE UNCHANGED vars
    BY <2>1, SyncKept DEF vars
  <2>2. CASE Next
    BY <2>2, StreamSync, TimerSync, ReceiveSync, AnswerSync, ChangeSync, LossSync DEF Next
  <2> QED  BY <2>1, <2>2
<1>3. SyncInv => KeptStateIsCurrent
  BY DEF SyncInv
<1> QED
  BY <1>1, <1>2, <1>3, ConnectionTypes, PTL DEF Spec
=============================================================================
