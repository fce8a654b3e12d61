----------------------------- MODULE MqttClient -----------------------------
(***************************************************************************)
(* The MQTT client (mqtt/client.py) with those that use it: the manager,   *)
(* which starts and stops it (manager.py), the task that receives the      *)
(* commands, and the pool of a device that publishes its availability      *)
(* (device/device.py).                                                     *)
(*                                                                         *)
(* As in UpdateBuffer a coroutine runs from one suspension to the next in  *)
(* one action, and `ready` is the loop's queue.  What is handed over to a  *)
(* live session reaches the broker in order; a session can die unnoticed.  *)
(***************************************************************************)
EXTENDS Naturals, Sequences, SequencesExt, FiniteSets

CONSTANTS
  Slot,       \* the slots of the pool that publishes
  MaxBacklog  \* bounds the messages that wait for a slot

Main     == "main"      \* the manager: __aenter__ and __aexit__
Receiver == "receiver"  \* receive_commands

Task == Slot \cup {Main, Receiver}

Connector == "connector"  \* _connect_task
Network   == "network"    \* the callback of a connection that ends

Runnable == Task \cup {Connector, Network}

ASSUME SlotAssumption ==
  IsFiniteSet(Slot) /\ Slot \cap {Main, Receiver, Connector, Network} = {}
ASSUME MaxBacklogAssumption == MaxBacklog \in Nat \ {0}

VARIABLES
  phase,       \* of the manager: "new" to "closed"
  connected,   \* _connected is set
  connect,     \* where _connect is suspended, "idle" if it is not running
  pc,          \* where each task is suspended
  line,        \* the tasks that await _connected, in their order
  calls,       \* the tasks with a call to the session, in their order
  ready,       \* the loop's queue
  session,     \* "none", "up", "dead" (unnoticed), "lost" (noticed) or "parting"
  subscribed,  \* the session receives the commands
  will,        \* the broker holds the will of a session
  status,      \* the driver's retained status
  link,        \* whether the device is connected: "new", "up" or "down"
  backlog,     \* the availabilities that wait for a slot
  message,     \* the availability each slot publishes
  shown,       \* the device's retained availability
  trouble      \* what went wrong: history, no action reads it

client == <<connected, connect, session, subscribed>>
broker == <<will, status, shown>>
device == <<link, backlog, message>>
vars == <<phase, pc, line, calls, ready, trouble, client, broker, device>>

Available == {"up", "down"}

TypeOK ==
  /\ phase \in {"new", "opening", "starting", "running", "stopping", "closing", "closed"}
  /\ connected \in BOOLEAN /\ subscribed \in BOOLEAN /\ will \in BOOLEAN
  /\ connect \in {"idle", "backoff", "entering", "entered", "birth", "subscribing"}
  /\ pc \in [Task -> {"idle", "created", "waiting", "woken", "calling", "failed", "leaving", "left"}]
  /\ line \in Seq(Task) /\ calls \in Seq(Task) /\ ready \in Seq(Runnable)
  /\ session \in {"none", "up", "dead", "lost", "parting"}
  /\ status \in {"online", "offline"}
  /\ link \in Available \cup {"new"} /\ shown \in Available
  /\ backlog \in Seq(Available)
  /\ message \in [Slot -> Available]
  /\ trouble \subseteq {"alone", "dropped", "overtaken", "torn", "abandoned"}

\* What the broker retains is left by an earlier process.
Init ==
  /\ phase = "new"
  /\ connected = FALSE /\ connect = "idle"
  /\ pc = [t \in Task |-> "idle"]
  /\ line = <<>> /\ calls = <<>> /\ ready = <<>>
  /\ session = "none" /\ subscribed = FALSE
  /\ link = "new" /\ backlog = <<>>
  /\ message = [s \in Slot |-> "down"]
  /\ will = FALSE /\ status = "offline"
  /\ shown \in Available
  /\ trouble = {}

-----------------------------------------------------------------------------
(* The steps of a task.  queue is what else is ready.                       *)

Usable == session \in {"up", "dead"}
Runs(t, p) == ready # <<>> /\ Head(ready) = t /\ pc[t] = p
Rest == Tail(ready)
To(t, p) == pc' = [pc EXCEPT ![t] = p]

\* A call to the session.  Without one it raises at once.
Call(t, queue) ==
  IF Usable
  THEN /\ calls' = Append(calls, t)
       /\ To(t, "calling")
       /\ ready' = queue
       /\ shown' = IF t \in Slot /\ session = "up" THEN message[t] ELSE shown
  ELSE /\ To(t, "failed")
       /\ ready' = <<t>> \o queue
       /\ UNCHANGED <<calls, shown>>

\* _connected is awaited, which takes no time once it is set.
Await(t, queue) ==
  /\ line' = Append(line, t)
  /\ To(t, "waiting")
  /\ ready' = queue
AwaitAndCall(t, queue) ==
  \/ connected /\ Call(t, queue) /\ UNCHANGED line
  \/ ~connected /\ Await(t, queue) /\ UNCHANGED <<calls, shown>>

Cancelled(t) ==
  /\ To(t, "idle")
  /\ line' = RemoveFirst(line, t) /\ calls' = RemoveFirst(calls, t) /\ ready' = RemoveFirst(ready, t)
  /\ trouble' = trouble \cup (IF pc[t] \in {"leaving", "left"} THEN {"abandoned"} ELSE {})
                        \cup (IF t \in Slot THEN {"dropped"} ELSE {})

\* The session is gone: the calls raise in their order, and whoever waited
\* for its end goes on after them.
Ends(queue) ==
  LET leavers == {t \in Task : pc[t] = "leaving"}
  IN  /\ subscribed' = FALSE
      /\ connect' = IF connect \in {"birth", "subscribing"} THEN "idle" ELSE connect
      /\ calls' = <<>>
      /\ pc' = [t \in Task |-> CASE pc[t] = "calling" -> "failed"
                                 [] pc[t] = "leaving" -> "left"
                                 [] OTHER -> pc[t]]
      /\ \E last \in SetToSeqs(leavers) : ready' = queue \o calls \o last

\* Line 79 and 58: an orderly end of a live session discards its will.
Part ==
  /\ session' = "parting"
  /\ will' = (will /\ session # "up")

-----------------------------------------------------------------------------
(* _connect().                                                              *)

\* The task is started, or its delay ends.
Attempt ==
  /\ ready # <<>> /\ Head(ready) = Connector
  /\ connect = "backoff"
  /\ connect' = "entering"
  /\ ready' = Rest
  /\ UNCHANGED <<phase, pc, line, calls, trouble, connected, session, subscribed, broker, device>>

\* Seeded fault: one attempt.
EnterFailsForGood ==
  /\ connect = "entering"
  /\ connect' = "idle"
  /\ UNCHANGED <<phase, pc, line, calls, ready, trouble, connected, session, subscribed, broker, device>>

EnterFails ==
  /\ connect = "entering"
  /\ connect' = "backoff"
  /\ ready' = Append(ready, Connector)
  /\ UNCHANGED <<phase, pc, line, calls, trouble, connected, session, subscribed, broker, device>>

\* The broker publishes the will of the session that is replaced.
Enter ==
  /\ connect = "entering"
  /\ connect' = "entered"
  /\ session' = "up" /\ subscribed' = FALSE
  /\ will' = TRUE
  /\ status' = IF will THEN "offline" ELSE status
  /\ ready' = Append(ready, Connector)
  /\ UNCHANGED <<phase, pc, line, calls, trouble, connected, shown, device>>

\* Seeded fault: who came last goes first.
ConnectedLastFirst ==
  /\ ready # <<>> /\ Head(ready) = Connector
  /\ connect = "entered"
  /\ connect' = IF Usable THEN "birth" ELSE "idle"
  /\ connected' = TRUE
  /\ status' = IF session = "up" THEN "online" ELSE status
  /\ pc' = [t \in Task |-> IF pc[t] = "waiting" THEN "woken" ELSE pc[t]]
  /\ ready' = Rest \o Reverse(line)
  /\ line' = <<>>
  /\ trouble' = IF session = "up" THEN trouble \ {"torn"} ELSE trouble
  /\ UNCHANGED <<phase, calls, session, subscribed, will, shown, device>>

\* Lines 69 to 71.
Connected ==
  /\ ready # <<>> /\ Head(ready) = Connector
  /\ connect = "entered"
  /\ connect' = IF Usable THEN "birth" ELSE "idle"
  /\ connected' = TRUE
  /\ status' = IF session = "up" THEN "online" ELSE status
  /\ pc' = [t \in Task |-> IF pc[t] = "waiting" THEN "woken" ELSE pc[t]]
  /\ ready' = Rest \o line
  /\ line' = <<>>
  /\ trouble' = IF session = "up" THEN trouble \ {"torn"} ELSE trouble
  /\ UNCHANGED <<phase, calls, session, subscribed, will, shown, device>>

\* Seeded fault: line 72 is left out.
BirthAlone ==
  /\ Usable
  /\ connect = "birth"
  /\ connect' = "idle"
  /\ UNCHANGED <<phase, pc, line, calls, ready, trouble, connected, session, subscribed,
                 broker, device>>

BirthPublished ==
  /\ Usable
  /\ connect = "birth"
  /\ connect' = "subscribing"
  /\ UNCHANGED <<phase, pc, line, calls, ready, trouble, connected, session, subscribed,
                 broker, device>>

Subscribed ==
  /\ session = "up"
  /\ connect = "subscribing"
  /\ connect' = "idle"
  /\ subscribed' = TRUE
  /\ UNCHANGED <<phase, pc, line, calls, ready, trouble, connected, session, broker, device>>

\* The task ends with the exception, and the session stays.
ConnectRaises ==
  /\ Usable
  /\ connect \in {"birth", "subscribing"}
  /\ connect' = "idle"
  /\ trouble' = trouble \cup {"alone"}
  /\ UNCHANGED <<phase, pc, line, calls, ready, connected, session, subscribed, broker, device>>

-----------------------------------------------------------------------------
(* receive_commands() and _publish().                                       *)

\* The pool starts a task for the next message.
Take(s) ==
  /\ pc[s] = "idle"
  /\ backlog # <<>>
  /\ backlog' = Tail(backlog)
  /\ message' = [message EXCEPT ![s] = Head(backlog)]
  /\ To(s, "created")
  /\ ready' = Append(ready, s)
  /\ UNCHANGED <<phase, line, calls, trouble, client, broker, link>>

\* Handed over to a session that is gone; or started in the very moment when
\* the session changed, before the tasks that this woke go on.
Mishaps(t) ==
  {m \in {"dropped", "overtaken"} :
     /\ t \in Slot
     /\ IF m = "dropped" THEN session = "dead"
        ELSE pc[t] = "created" /\ \E s \in Slot : pc[s] \in {"woken", "failed"}}

\* Lines 88 and 185.
Begin(t) ==
  /\ Runs(t, "created")
  /\ AwaitAndCall(t, Rest)
  /\ trouble' = trouble \cup Mishaps(t)
  /\ UNCHANGED <<phase, client, will, status, device>>

\* They return.  It is not checked that it is still connected.
Resume(t) ==
  /\ Runs(t, "woken")
  /\ Call(t, Rest)
  /\ trouble' = trouble \cup Mishaps(t)
  /\ UNCHANGED <<phase, line, client, will, status, device>>

\* What was handed over first is written first.
Published(s) ==
  /\ Usable
  /\ pc[s] = "calling"
  /\ Head(RemoveFirst(calls, Receiver)) = s
  /\ To(s, "idle")
  /\ calls' = RemoveFirst(calls, s)
  /\ UNCHANGED <<phase, line, ready, trouble, client, broker, device>>

\* The call of one task fails, and the session stays.
FailAlone(t) ==
  /\ Usable
  /\ pc[t] = "calling"
  /\ To(t, "failed")
  /\ calls' = RemoveFirst(calls, t)
  /\ ready' = Append(ready, t)
  /\ trouble' = trouble \cup {"alone"}
  /\ UNCHANGED <<phase, line, client, broker, device>>

\* _reconnect(): the session is left, unless another task has done so.
Leave(t) ==
  /\ Runs(t, "failed")
  /\ connected /\ Usable
  /\ connected' = FALSE
  /\ Part
  /\ To(t, "leaving")
  /\ ready' = Rest
  /\ trouble' = IF session = "up" THEN trouble \cup {"torn"} ELSE trouble
  /\ UNCHANGED <<phase, line, calls, connect, subscribed, status, shown, device>>

\* Seeded fault: the error of line 79 is not suppressed, and ends the task.
LeaveLostRaising(t) ==
  /\ Runs(t, "failed")
  /\ connected /\ ~Usable
  /\ connected' = FALSE
  /\ session' = "none"
  /\ To(t, "idle")
  /\ ready' = Rest
  /\ UNCHANGED <<phase, line, calls, connect, trouble, subscribed, broker, device>>

\* Seeded fault: line 76 does not ask whether another task reconnects.
LeaveLostAgain(t) ==
  /\ Runs(t, "failed")
  /\ session \in {"lost", "none"}
  /\ connected' = FALSE
  /\ session' = "none"
  /\ connect' = "backoff"
  /\ Await(t, Append(Rest, Connector))
  /\ UNCHANGED <<phase, calls, trouble, subscribed, broker, device>>

\* The same when the session is known to be lost: to leave it raises at once.
LeaveLost(t) ==
  /\ Runs(t, "failed")
  /\ connected /\ ~Usable
  /\ connected' = FALSE
  /\ session' = "none"
  /\ connect' = "backoff"
  /\ Await(t, Append(Rest, Connector))
  /\ UNCHANGED <<phase, calls, trouble, subscribed, broker, device>>

AwaitOther(t) ==
  /\ Runs(t, "failed")
  /\ ~connected
  /\ Await(t, Rest)
  /\ UNCHANGED <<phase, calls, trouble, client, broker, device>>

\* Seeded fault: receive_commands ends with an error instead of line 96.
ReconnectToPublish(t) ==
  \/ t # Receiver /\ (Leave(t) \/ LeaveLost(t) \/ AwaitOther(t))
  \/ /\ Runs(Receiver, "failed")
     /\ To(Receiver, "idle")
     /\ ready' = Rest
     /\ UNCHANGED <<phase, line, calls, trouble, client, broker, device>>

Reconnect(t) == Leave(t) \/ LeaveLost(t) \/ AwaitOther(t)

\* Line 80, once the session was left.
Recreate(t) ==
  /\ Runs(t, "left")
  /\ connect' = "backoff"
  /\ Await(t, Append(Rest, Connector))
  /\ UNCHANGED <<phase, calls, trouble, connected, session, subscribed, broker, device>>

Timeout(s) ==
  /\ pc[s] # "idle"
  /\ Cancelled(s)
  /\ UNCHANGED <<phase, client, broker, device>>

-----------------------------------------------------------------------------
(* The manager.                                                             *)

\* MQTTClient.__aenter__.
Open ==
  /\ phase = "new"
  /\ phase' = "opening"
  /\ connect' = "backoff"
  /\ Await(Main, Append(ready, Connector))
  /\ UNCHANGED <<calls, trouble, connected, session, subscribed, broker, device>>

\* The devices start.
Opened ==
  /\ phase = "opening"
  /\ Runs(Main, "woken")
  /\ phase' = "starting"
  /\ To(Main, "idle")
  /\ ready' = Rest
  /\ UNCHANGED <<line, calls, trouble, client, broker, device>>

Receive ==
  /\ phase = "starting"
  /\ phase' = "running"
  /\ To(Receiver, "created")
  /\ ready' = Append(ready, Receiver)
  /\ UNCHANGED <<line, calls, trouble, client, broker, device>>

\* The task that receives is cancelled, and the device is closed.
Stop ==
  /\ phase = "running"
  /\ phase' = "stopping"
  /\ Cancelled(Receiver)
  /\ link' = "down"
  /\ backlog' = Append(backlog, "down")
  /\ UNCHANGED <<client, broker, message>>

\* Seeded fault: the session is left without the message of line 56.
ShutQuietly ==
  /\ phase = "stopping"
  /\ backlog = <<>> /\ \A s \in Slot : pc[s] = "idle"
  /\ connect' = "idle"
  /\ ready' = RemoveFirst(ready, Connector)
  /\ session \notin {"none", "lost"}
  /\ phase' = "closing"
  /\ Part
  /\ To(Main, "leaving")
  /\ UNCHANGED <<line, calls, trouble, connected, subscribed, status, shown, device>>

\* Seeded fault: line 55 waits for the event instead of asking for it.
ShutConnected ==
  /\ phase = "stopping"
  /\ backlog = <<>> /\ \A s \in Slot : pc[s] = "idle"
  /\ connected /\ Usable
  /\ connect' = "idle"
  /\ phase' = "closing"
  /\ status' = IF session = "up" THEN "offline" ELSE status
  /\ calls' = Append(calls, Main)
  /\ To(Main, "calling")
  /\ UNCHANGED <<line, ready, trouble, connected, session, subscribed, will, shown, device>>

\* MQTTClient.__aexit__, once the pool of the device has no task left.
Shut ==
  /\ phase = "stopping"
  /\ backlog = <<>> /\ \A s \in Slot : pc[s] = "idle"
  /\ connect' = "idle"
  /\ ready' = RemoveFirst(ready, Connector)
  /\ \/ /\ connected /\ Usable
        /\ phase' = "closing"
        /\ status' = IF session = "up" THEN "offline" ELSE status
        /\ calls' = Append(calls, Main)
        /\ To(Main, "calling")
        /\ UNCHANGED <<session, will>>
     \/ /\ connected => ~Usable
        /\ session \notin {"none", "lost"}
        /\ phase' = "closing"
        /\ Part
        /\ To(Main, "leaving")
        /\ UNCHANGED <<status, calls>>
     \/ /\ session \in {"none", "lost"}
        /\ phase' = "closed"
        /\ UNCHANGED <<pc, session, will, status, calls>>
  /\ UNCHANGED <<line, trouble, connected, subscribed, shown, device>>

\* Line 56 returns.
ShutPublished ==
  /\ phase = "closing"
  /\ Usable
  /\ pc[Main] = "calling"
  /\ connected' = FALSE
  /\ Part
  /\ calls' = RemoveFirst(calls, Main)
  /\ To(Main, "leaving")
  /\ UNCHANGED <<phase, line, ready, trouble, connect, subscribed, status, shown, device>>

\* Line 56 or 58 raises an MqttError, which is suppressed, or line 58 returns.
Closed ==
  /\ phase = "closing"
  /\ Runs(Main, "failed") \/ Runs(Main, "left")
  /\ phase' = "closed"
  /\ To(Main, "idle")
  /\ ready' = Rest
  /\ UNCHANGED <<line, calls, trouble, client, broker, device>>

\* The process is killed, or has ended, and may be started again.
Exit ==
  /\ phase # "new"
  /\ phase' = "new"
  /\ connected' = FALSE /\ connect' = "idle"
  /\ pc' = [t \in Task |-> "idle"]
  /\ line' = <<>> /\ calls' = <<>> /\ ready' = <<>>
  /\ session' = "none" /\ subscribed' = FALSE
  /\ link' = "new" /\ backlog' = <<>>
  /\ message' = [s \in Slot |-> "down"]
  /\ trouble' = trouble \cap {"torn"}
  /\ UNCHANGED broker

-----------------------------------------------------------------------------
(* The device, the network and the broker.                                  *)

\* Seeded fault: the state before the event is published.
LinkChangesStale ==
  /\ phase \in {"starting", "running"}
  /\ Len(backlog) < MaxBacklog
  /\ link' = IF link = "up" THEN "down" ELSE "up"
  /\ backlog' = Append(backlog, link)
  /\ UNCHANGED <<phase, pc, line, calls, ready, trouble, client, broker, message>>

\* TuyaConnectionEstablished or TuyaConnectionClosed.
LinkChanges ==
  /\ phase \in {"starting", "running"}
  /\ Len(backlog) < MaxBacklog
  /\ link' = IF link = "up" THEN "down" ELSE "up"
  /\ backlog' = Append(backlog, link')
  /\ UNCHANGED <<phase, pc, line, calls, ready, trouble, client, broker, message>>

Die ==
  /\ session = "up"
  /\ session' = "dead"
  /\ UNCHANGED <<phase, pc, line, calls, ready, trouble, connected, connect, subscribed,
                 broker, device>>

\* The end of a session, which the client wanted or learns of.
Hear ==
  /\ session \in {"dead", "parting"}
  /\ Network \notin ToSet(ready)
  /\ ready' = Append(ready, Network)
  /\ UNCHANGED <<phase, pc, line, calls, trouble, client, broker, device>>

Disconnected ==
  /\ ready # <<>> /\ Head(ready) = Network
  /\ session' = CASE session = "dead" -> "lost"
                  [] session = "parting" -> "none"
                  [] OTHER -> session
  /\ Ends(Rest)
  /\ UNCHANGED <<phase, line, trouble, connected, broker, device>>

\* The broker learns it, and publishes the will.
PublishWill ==
  /\ will /\ session # "up"
  /\ will' = FALSE
  /\ status' = "offline"
  /\ UNCHANGED <<phase, pc, line, calls, ready, trouble, client, shown, device>>

LoopStep ==
  \/ \E t \in Slot \cup {Receiver} : Begin(t) \/ Resume(t) \/ Reconnect(t) \/ Recreate(t)
  \/ Attempt \/ Connected \/ Disconnected \/ Opened \/ Closed

Next ==
  \/ LoopStep
  \/ EnterFails \/ Enter \/ BirthPublished \/ Subscribed \/ ConnectRaises
  \/ \E s \in Slot : Take(s) \/ Published(s) \/ Timeout(s)
  \/ \E t \in Slot \cup {Main} : FailAlone(t)
  \/ Open \/ Receive \/ Stop \/ Shut \/ ShutPublished \/ Exit
  \/ LinkChanges \/ Die \/ Hear \/ PublishWill

Spec == Init /\ [][Next]_vars

\* The loop runs what is ready, calls and connections take a finite time, and
\* one that is tried again and again succeeds in the end.  The keepalive notices
\* a dead session, and the pool's timeout bounds a task.  The manager, once
\* started or stopped, goes on.
FairSpec ==
  /\ Spec
  /\ WF_vars(LoopStep) /\ SF_vars(Enter) /\ WF_vars(Hear)
  /\ WF_vars(Receive) /\ WF_vars(Shut) /\ WF_vars(ShutPublished)
  /\ \A s \in Slot : WF_vars(Take(s)) /\ WF_vars(Timeout(s))

-----------------------------------------------------------------------------
(* Properties.                                                              *)

Leaving == {t \in Task : pc[t] \in {"leaving", "left"}}
Connecting == connect \in {"backoff", "entering", "entered"}

\* A session is entered (line 65) only when the one before was left, and one
\* task leaves it: aiomqtt's client refuses to be entered twice.
OneSession ==
  /\ Connecting => ~connected /\ Leaving = {}
  /\ connect \in {"backoff", "entering"} => session = "none"
  /\ \A t, u \in Leaving : t = u

\* A client that is not connected is connecting, or about to: the tasks that
\* wait at line 46, 88 or 185 do not wait for ever.  But for a task that was
\* cancelled while it left the session.
Recovers ==
  phase \notin {"new", "closing", "closed"} /\ ~connected
    => Connecting \/ Leaving # {} \/ "abandoned" \in trouble

\* A status "online" that is not true is withdrawn by the will, or is that of
\* a driver that left its session in order to enter it again.
StatusIsTold ==
  status = "online" /\ session # "up" => will \/ "torn" \in trouble

\* Without a failed call, what is shown of the device in the end is what was
\* last said of it, whatever sessions were lost and in whichever task.
AvailabilityInOrder ==
  /\ phase = "running" /\ link # "new"
  /\ backlog = <<>> /\ \A s \in Slot : pc[s] = "idle"
  /\ trouble \cap {"alone", "dropped", "overtaken"} = {}
  => shown = link

\* A client that is connected receives the commands, or is about to notice
\* that it does not.  But for a call that failed while the session stayed.
Listens ==
  phase = "running" /\ connected /\ session = "up" /\ connect = "idle"
    => subscribed \/ "alone" \in trouble

\* A driver that runs has a session again.
ComesBack ==
  phase = "running" /\ session # "up"
    ~> session = "up" \/ phase # "running" \/ "abandoned" \in trouble

\* The manager ends, whatever its tasks wait for.
StopEnds == phase = "stopping" ~> phase \in {"closed", "new"}

\* The claim of the README ("persistent and robust communication").
AlwaysRecovers ==
  phase \notin {"new", "closing", "closed"} /\ ~connected
    => Connecting \/ Leaving # {}
=============================================================================
