----------------------------- MODULE MqttProofs -----------------------------
(***************************************************************************)
(* Theorems on MqttClient for any number of slots: a client that is not    *)
(* connected has somebody who connects it, and only one; a connected one   *)
(* listens; and what is shown of a device is what was last said of it.     *)
(***************************************************************************)
EXTENDS MqttClient, SequenceTheorems, FiniteSetTheorems, TLAPS

LEMMA Names ==
  /\ Main \in Task /\ Receiver \in Task /\ Main # Receiver
  /\ Slot \subseteq Task
  /\ \A s \in Slot : s # Main /\ s # Receiver
BY SlotAssumption DEF Task, Main, Receiver, Connector, Network

Places == {"idle", "created", "waiting", "woken", "calling", "failed", "leaving", "left"}

\* What the proof needs of the types.
Kinds ==
  /\ pc \in [Task -> Places]
  /\ connect \in {"idle", "backoff", "entering", "entered", "birth", "subscribing"}
  /\ session \in {"none", "up", "dead", "lost", "parting"}
  /\ connected \in BOOLEAN

\* Where the manager is, and which tasks there are then.
ManagerInv ==
  /\ phase # "closing" => pc[Main] \in {"idle", "waiting", "woken"}
  /\ phase \in {"new", "starting", "running", "stopping"} => pc[Main] = "idle"
  /\ phase \in {"new", "opening", "starting", "stopping"} => pc[Receiver] = "idle"
  /\ phase \in {"new", "closing", "closed"} =>
       /\ backlog = <<>> /\ connect = "idle"
       /\ \A t \in Task \ {Main} : pc[t] = "idle"

\* The session belongs to the tasks, to the connect task or to who leaves it.
SessionInv ==
  /\ phase = "new" => session = "none" /\ ~connected
  /\ connected => session \in {"up", "dead", "lost"} /\ ~Connecting /\ Leaving = {}
  /\ Connecting => Leaving = {}
  /\ connect \in {"backoff", "entering"} => session = "none"
  /\ connect = "entered" => session \in {"up", "dead", "lost"}
  /\ \A t \in Task : /\ pc[t] = "leaving" => session = "parting"
                     /\ pc[t] = "left" => session = "none"
  /\ \A t, u \in Leaving : t = u

Inv == Kinds /\ ManagerInv /\ SessionInv /\ Recovers

LEMMA InitInv == Init => Inv
BY Names DEF Init, Inv, Kinds, ManagerInv, SessionInv, Recovers, Places, Connecting, Leaving

-----------------------------------------------------------------------------
(* The connect task.                                                         *)

LEMMA AttemptInv == Inv /\ Attempt => Inv'
BY Names DEF Inv, Kinds, Places, ManagerInv, SessionInv, Recovers, Connecting, Leaving,
  Attempt, broker, device

LEMMA EnterFailsInv == Inv /\ EnterFails => Inv'
BY Names DEF Inv, Kinds, Places, ManagerInv, SessionInv, Recovers, Connecting, Leaving,
  EnterFails, broker, device

LEMMA EnterInv == Inv /\ Enter => Inv'
BY Names DEF Inv, Kinds, Places, ManagerInv, SessionInv, Recovers, Connecting, Leaving,
  Enter, device

LEMMA ConnectedInv == Inv /\ Connected => Inv'
BY Names DEF Inv, Kinds, Places, ManagerInv, SessionInv, Recovers, Connecting, Leaving,
  Connected, device, Usable

LEMMA BirthPublishedInv == Inv /\ BirthPublished => Inv'
BY Names DEF Inv, Kinds, Places, ManagerInv, SessionInv, Recovers, Connecting, Leaving,
  BirthPublished, broker, device, Usable

LEMMA SubscribedInv == Inv /\ Subscribed => Inv'
BY Names DEF Inv, Kinds, Places, ManagerInv, SessionInv, Recovers, Connecting, Leaving,
  Subscribed, broker, device

LEMMA ConnectRaisesInv == Inv /\ ConnectRaises => Inv'
BY Names DEF Inv, Kinds, Places, ManagerInv, SessionInv, Recovers, Connecting, Leaving,
  ConnectRaises, broker, device, Usable

-----------------------------------------------------------------------------
(* The tasks that publish and receive.                                       *)

LEMMA BeginInv == ASSUME Inv, NEW t \in Slot \cup {Receiver}, Begin(t) PROVE Inv'
BY Names DEF Inv, Kinds, Places, ManagerInv, SessionInv, Recovers, Connecting, Leaving,
  Begin, client, device, To, Call, Await, AwaitAndCall, Usable, Runs

LEMMA ResumeInv == ASSUME Inv, NEW t \in Slot \cup {Receiver}, Resume(t) PROVE Inv'
BY Names DEF Inv, Kinds, Places, ManagerInv, SessionInv, Recovers, Connecting, Leaving,
  Resume, client, device, To, Call, Usable, Runs

LEMMA LeaveInv == ASSUME Inv, NEW t \in Slot \cup {Receiver}, Leave(t) PROVE Inv'
BY Names, ZenonT(60) DEF Inv, Kinds, Places, ManagerInv, SessionInv, Recovers, Connecting, Leaving,
  Leave, device, To, Part, Usable, Runs

LEMMA LeaveLostInv == ASSUME Inv, NEW t \in Slot \cup {Receiver}, LeaveLost(t) PROVE Inv'
BY Names, ZenonT(60) DEF Inv, Kinds, Places, ManagerInv, SessionInv, Recovers, Connecting, Leaving,
  LeaveLost, broker, device, To, Await, Usable, Runs

LEMMA AwaitOtherInv == ASSUME Inv, NEW t \in Slot \cup {Receiver}, AwaitOther(t) PROVE Inv'
BY Names DEF Inv, Kinds, Places, ManagerInv, SessionInv, Recovers, Connecting, Leaving,
  AwaitOther, client, broker, device, To, Await, Runs

LEMMA RecreateInv == ASSUME Inv, NEW t \in Slot \cup {Receiver}, Recreate(t) PROVE Inv'
BY Names DEF Inv, Kinds, Places, ManagerInv, SessionInv, Recovers, Connecting, Leaving,
  Recreate, broker, device, To, Await, Runs

-----------------------------------------------------------------------------
(* The pool.                                                                 *)

LEMMA TakeInv == ASSUME Inv, NEW s \in Slot, Take(s) PROVE Inv'
BY Names DEF Inv, Kinds, Places, ManagerInv, SessionInv, Recovers, Connecting, Leaving,
  Take, client, broker, To

LEMMA PublishedInv == ASSUME Inv, NEW s \in Slot, Published(s) PROVE Inv'
BY Names DEF Inv, Kinds, Places, ManagerInv, SessionInv, Recovers, Connecting, Leaving,
  Published, client, broker, device, To, Usable

LEMMA TimeoutInv == ASSUME Inv, NEW s \in Slot, Timeout(s) PROVE Inv'
BY Names DEF Inv, Kinds, Places, ManagerInv, SessionInv, Recovers, Connecting, Leaving,
  Timeout, client, broker, device, To, Cancelled

LEMMA FailAloneInv == ASSUME Inv, NEW t \in Slot \cup {Main}, FailAlone(t) PROVE Inv'
BY Names DEF Inv, Kinds, Places, ManagerInv, SessionInv, Recovers, Connecting, Leaving,
  FailAlone, client, broker, device, To, Usable

-----------------------------------------------------------------------------
(* The manager.                                                              *)

LEMMA OpenInv == Inv /\ Open => Inv'
BY Names DEF Inv, Kinds, Places, ManagerInv, SessionInv, Recovers, Connecting, Leaving,
  Open, broker, device, To, Await

LEMMA OpenedInv == Inv /\ Opened => Inv'
BY Names DEF Inv, Kinds, Places, ManagerInv, SessionInv, Recovers, Connecting, Leaving,
  Opened, client, broker, device, To, Runs

LEMMA ReceiveInv == Inv /\ Receive => Inv'
BY Names DEF Inv, Kinds, Places, ManagerInv, SessionInv, Recovers, Connecting, Leaving,
  Receive, client, broker, device, To

LEMMA StopInv == Inv /\ Stop => Inv'
BY Names DEF Inv, Kinds, Places, ManagerInv, SessionInv, Recovers, Connecting, Leaving,
  Stop, client, broker, To, Cancelled

LEMMA ShutInv == Inv /\ Shut => Inv'
<1> SUFFICES ASSUME Inv, Shut PROVE Inv'
  OBVIOUS
<1>1. /\ phase = "stopping" /\ phase' \in {"closing", "closed"} /\ connect' = "idle"
      /\ connected' = connected /\ backlog' = <<>>
  BY DEF Shut, device
<1>2. \A t \in Task : pc[t] = "idle"
  BY <1>1 DEF Inv, ManagerInv, Shut, Task
<1>3. /\ pc' \in [Task -> Places]
      /\ \A t \in Task \ {Main} : pc'[t] = "idle"
      /\ phase' = "closed" => pc'[Main] = "idle"
  BY <1>2, Names DEF Inv, Kinds, Places, Shut, To
<1>4. Kinds'
  BY <1>1, <1>3 DEF Inv, Kinds, Shut, Part
<1>5. ManagerInv'
  BY <1>1, <1>3, Names DEF ManagerInv
<1>6. \/ session' = session /\ pc'[Main] \in {"idle", "calling"}
      \/ session' = "parting" /\ pc'[Main] = "leaving" /\ ~connected
  BY <1>2, Names DEF Inv, Kinds, SessionInv, Shut, To, Part, Usable
<1>7. SessionInv'
  BY <1>1, <1>3, <1>6, Names DEF Inv, SessionInv, Connecting, Leaving
<1> QED BY <1>1, <1>4, <1>5, <1>7 DEF Inv, Recovers

LEMMA ShutPublishedInv == Inv /\ ShutPublished => Inv'
<1> SUFFICES ASSUME Inv, ShutPublished PROVE Inv'
  OBVIOUS
<1>1. /\ phase = "closing" /\ phase' = "closing" /\ connected' = FALSE /\ session' = "parting"
      /\ UNCHANGED <<backlog, connect>>
      /\ pc' = [pc EXCEPT ![Main] = "leaving"]
  BY DEF ShutPublished, Part, To, device
<1>2. /\ connect = "idle" /\ backlog = <<>>
      /\ pc' \in [Task -> Places]
      /\ \A t \in Task : pc'[t] = IF t = Main THEN "leaving" ELSE "idle"
  BY <1>1, Names DEF Inv, Kinds, Places, ManagerInv
<1>3. ManagerInv'
  BY <1>1, <1>2, Names DEF ManagerInv
<1>4. SessionInv'
  BY <1>1, <1>2 DEF SessionInv, Connecting, Leaving
<1> QED BY <1>1, <1>2, <1>3, <1>4 DEF Inv, Kinds, Recovers

LEMMA ClosedInv == Inv /\ Closed => Inv'
BY Names DEF Inv, Kinds, Places, ManagerInv, SessionInv, Recovers, Connecting, Leaving,
  Closed, client, broker, device, To, Runs

LEMMA ExitInv == Inv /\ Exit => Inv'
BY Names DEF Inv, Kinds, Places, ManagerInv, SessionInv, Recovers, Connecting, Leaving,
  Exit, broker

-----------------------------------------------------------------------------
(* The device, the network and the broker.                                   *)

LEMMA LinkChangesInv == Inv /\ LinkChanges => Inv'
BY Names DEF Inv, Kinds, Places, ManagerInv, SessionInv, Recovers, Connecting, Leaving,
  LinkChanges, client, broker

LEMMA DieInv == Inv /\ Die => Inv'
BY Names DEF Inv, Kinds, Places, ManagerInv, SessionInv, Recovers, Connecting, Leaving,
  Die, broker, device

LEMMA HearInv == Inv /\ Hear => Inv'
BY Names DEF Inv, Kinds, Places, ManagerInv, SessionInv, Recovers, Connecting, Leaving,
  Hear, client, broker, device

LEMMA DisconnectedInv == Inv /\ Disconnected => Inv'
BY Names DEF Inv, Kinds, Places, ManagerInv, SessionInv, Recovers, Connecting, Leaving,
  Disconnected, broker, device, Ends

LEMMA PublishWillInv == Inv /\ PublishWill => Inv'
BY Names DEF Inv, Kinds, Places, ManagerInv, SessionInv, Recovers, Connecting, Leaving,
  PublishWill, client, device

-----------------------------------------------------------------------------
(* The theorems.                                                             *)

LEMMA StepInv == Inv /\ [Next]_vars => Inv'
<1> SUFFICES ASSUME Inv, [Next]_vars PROVE Inv'
  OBVIOUS
<1>1. CASE LoopStep
  <2>1. ASSUME NEW t \in Slot \cup {Receiver}, Reconnect(t) PROVE Inv'
    BY <2>1, LeaveInv, LeaveLostInv, AwaitOtherInv DEF Reconnect
  <2> QED
    BY <1>1, <2>1, BeginInv, ResumeInv, RecreateInv, AttemptInv, ConnectedInv, DisconnectedInv,
       OpenedInv, ClosedInv DEF LoopStep
<1>2. CASE EnterFails \/ Enter \/ BirthPublished \/ Subscribed \/ ConnectRaises
  BY <1>2, EnterFailsInv, EnterInv, BirthPublishedInv, SubscribedInv, ConnectRaisesInv
<1>3. ASSUME NEW s \in Slot, Take(s) \/ Published(s) \/ Timeout(s) PROVE Inv'
  BY <1>3, TakeInv, PublishedInv, TimeoutInv
<1>4. ASSUME NEW t \in Slot \cup {Main}, FailAlone(t) PROVE Inv'
  BY <1>4, FailAloneInv
<1>5. CASE Open \/ Receive \/ Stop \/ Shut \/ ShutPublished \/ Exit
  BY <1>5, OpenInv, ReceiveInv, StopInv, ShutInv, ShutPublishedInv, ExitInv
<1>6. CASE LinkChanges \/ Die \/ Hear \/ PublishWill
  BY <1>6, LinkChangesInv, DieInv, HearInv, PublishWillInv
<1>7. CASE UNCHANGED vars
  BY <1>7 DEF vars, client, device, Inv, Kinds, ManagerInv, SessionInv, Recovers, Connecting, Leaving
<1> QED BY <1>1, <1>2, <1>3, <1>4, <1>5, <1>6, <1>7 DEF Next

LEMMA Invariance == Spec => []Inv
BY InitInv, StepInv, PTL DEF Spec

\* A session is entered only when the one before was left, by one task: for
\* any number of slots, timeouts, losses and restarts.
THEOREM OneSessionHolds == Spec => []OneSession
<1>1. Inv => OneSession
  BY DEF Inv, SessionInv, OneSession
<1> QED BY <1>1, Invariance, PTL

\* A client that is not connected is connecting, or a task is about to, or was
\* cancelled while it was.
THEOREM ClientRecovers == Spec => []Recovers
<1>1. Inv => Recovers
  BY DEF Inv
<1> QED BY <1>1, Invariance, PTL

-----------------------------------------------------------------------------
(* The driver's status.                                                      *)

\* The broker holds the will of a live session, and a session that is entered
\* or left in order has nothing to take back.
StatusInv ==
  /\ session = "up" => will /\ (connected \/ connect = "entered")
  /\ connect = "entered" /\ status = "online" => "torn" \in trouble
  /\ pc[Main] = "calling" /\ session = "up" => status = "offline"
  /\ StatusIsTold

LEMMA InitStatus == Init => StatusInv
BY Names DEF Init, StatusInv, StatusIsTold

LEMMA StepStatus == Inv /\ StatusInv /\ [Next]_vars => StatusInv'
<1> SUFFICES ASSUME Inv, StatusInv, [Next]_vars PROVE StatusInv'
  OBVIOUS
<1> USE Names DEF StatusInv, StatusIsTold
<1>1. CASE Attempt \/ EnterFails \/ BirthPublished \/ Subscribed \/ ConnectRaises
  BY <1>1 DEF Inv, SessionInv, Attempt, EnterFails, BirthPublished, Subscribed, ConnectRaises, broker
<1>2. CASE Enter
  BY <1>2 DEF Enter, Inv, SessionInv, ManagerInv
<1>3. CASE Connected
  BY <1>3 DEF Connected, Inv, Kinds, Places, SessionInv, ManagerInv
<1>4. ASSUME NEW t \in Slot \cup {Receiver}, Begin(t) \/ Resume(t) PROVE StatusInv'
  BY <1>4 DEF Begin, Resume, AwaitAndCall, Await, Call, To, client, Inv, Kinds, Places, ManagerInv
<1>5. ASSUME NEW t \in Slot \cup {Receiver}, Reconnect(t) PROVE StatusInv'
  BY <1>5 DEF Reconnect, Leave, LeaveLost, AwaitOther, Await, Part, To, Usable, client, broker,
     Inv, Kinds, SessionInv
<1>6. ASSUME NEW t \in Slot \cup {Receiver}, Recreate(t) PROVE StatusInv'
  BY <1>6 DEF Recreate, Await, To, broker, Inv, Kinds, SessionInv, Runs
<1>7. ASSUME NEW s \in Slot, Take(s) \/ Published(s) \/ Timeout(s) PROVE StatusInv'
  BY <1>7 DEF Take, Published, Timeout, Cancelled, To, client, broker, Inv, Kinds
<1>8. ASSUME NEW t \in Slot \cup {Main}, FailAlone(t) PROVE StatusInv'
  BY <1>8 DEF FailAlone, To, client, broker, Inv, Kinds
<1>9. CASE Open \/ Opened \/ Receive \/ Stop \/ Closed
  BY <1>9 DEF Open, Opened, Receive, Stop, Closed, Await, Cancelled, To, client, broker, Inv, Kinds,
     ManagerInv, SessionInv
<1>10. CASE Shut
  <2>1. connect' = "idle" /\ connected' = connected /\ trouble' = trouble
    BY <1>10 DEF Shut
  <2>2. \/ /\ connected /\ session' = session /\ will' = will
           /\ status' = IF session = "up" THEN "offline" ELSE status
        \/ ~connected /\ session' = "parting" /\ will' = (will /\ session # "up")
             /\ status' = status
        \/ session' = session /\ session # "up" /\ will' = will /\ status' = status
    BY <1>10 DEF Shut, Part, Usable, Inv, SessionInv
  <2> QED BY <2>1, <2>2
<1>11. CASE ShutPublished
  BY <1>11 DEF ShutPublished, Part, To, Inv, Kinds, ManagerInv
<1>12. CASE Exit
  BY <1>12 DEF Exit, broker
<1>13. CASE LinkChanges \/ Die \/ Hear
  BY <1>13 DEF LinkChanges, Die, Hear, client, broker
<1>14. CASE Disconnected
  BY <1>14 DEF Disconnected, Ends, broker, Inv, Kinds, Places
<1>15. CASE PublishWill
  BY <1>15 DEF PublishWill, client
<1>16. CASE UNCHANGED vars
  BY <1>16 DEF vars, client, broker
<1> QED
  BY <1>1, <1>2, <1>3, <1>4, <1>5, <1>6, <1>7, <1>8, <1>9, <1>10, <1>11, <1>12, <1>13, <1>14,
     <1>15, <1>16 DEF Next, LoopStep

\* A retained "online" is true, or withdrawn by a will, or that of a session
\* which was left in order after an error.
THEOREM StatusHolds == Spec => []StatusIsTold
<1>1. StatusInv => StatusIsTold
  BY DEF StatusInv
<1>2. Spec => []StatusInv
  BY InitStatus, StepStatus, Invariance, PTL DEF Spec
<1> QED BY <1>1, <1>2, PTL

-----------------------------------------------------------------------------
(* Sequences.                                                                *)

\* Nothing is in it twice.
Distinct(s) == \A i, j \in 1..Len(s) : s[i] = s[j] => i = j
\* y is somewhere behind x.
Behind(s, x, y) == \E i, j \in 1..Len(s) : i < j /\ s[i] = x /\ s[j] = y

LEMMA Empty ==
  ASSUME NEW S
  PROVE  /\ <<>> \in Seq(S) /\ Distinct(<<>>)
         /\ \A x : ~Contains(<<>>, x)
         /\ \A x, y : ~Behind(<<>>, x, y)
<1>1. Len(<<>>) = 0 /\ <<>> \in Seq(S)
  OBVIOUS
<1> QED  BY <1>1 DEF Distinct, Contains, Behind

LEMMA Joined ==
  ASSUME NEW S, NEW s \in Seq(S), NEW t \in Seq(S)
  PROVE  /\ s \o t \in Seq(S)
         /\ \A x : Contains(s \o t, x) <=> Contains(s, x) \/ Contains(t, x)
         /\ \A x, y : Behind(s \o t, x, y) <=>
              Behind(s, x, y) \/ Behind(t, x, y) \/ (Contains(s, x) /\ Contains(t, y))
         /\ Distinct(s) /\ Distinct(t) /\ (\A x : Contains(s, x) => ~Contains(t, x))
              => Distinct(s \o t)
<1> DEFINE u == s \o t
           m == Len(s)
           n == Len(t)
<1>1. /\ u \in Seq(S) /\ m \in Nat /\ n \in Nat /\ Len(u) = m + n
      /\ \A i \in 1..m : u[i] = s[i]
      /\ \A i \in 1..n : u[m + i] = t[i]
  OBVIOUS
<1>2. \A i \in 1..Len(u) : \/ i \in 1..m /\ u[i] = s[i]
                           \/ i > m /\ i - m \in 1..n /\ u[i] = t[i - m]
  BY <1>1
<1>3. \A i \in 1..m : i \in 1..Len(u)
  BY <1>1
<1>4. \A i \in 1..n : m + i \in 1..Len(u) /\ m + i > m
  BY <1>1
<1> HIDE DEF u
<1>5. \A x : Contains(u, x) <=> Contains(s, x) \/ Contains(t, x)
  BY <1>1, <1>2, <1>3, <1>4 DEF Contains, m, n
<1>6. ASSUME NEW x, NEW y, Behind(u, x, y)
      PROVE  Behind(s, x, y) \/ Behind(t, x, y) \/ (Contains(s, x) /\ Contains(t, y))
  <2>1. PICK i \in 1..Len(u), j \in 1..Len(u) : i < j /\ u[i] = x /\ u[j] = y
    BY <1>6 DEF Behind
  <2>2. CASE j \in 1..m
    <3>1. i \in 1..m
      BY <2>1, <2>2, <1>1
    <3> QED  BY <1>1, <2>1, <2>2, <3>1 DEF Behind, m
  <2>3. CASE j > m /\ i \in 1..m
    <3>1. i \in 1..m /\ s[i] = x /\ j - m \in 1..n /\ t[j - m] = y
      BY <1>1, <1>2, <2>1, <2>3
    <3> QED  BY <3>1 DEF Contains, m, n
  <2>4. CASE j > m /\ i > m
    <3>1. i - m \in 1..n /\ j - m \in 1..n /\ i - m < j - m /\ t[i - m] = x /\ t[j - m] = y
      BY <1>1, <1>2, <2>1, <2>4
    <3> QED  BY <3>1 DEF Behind, n
  <2> QED  BY <1>1, <2>1, <2>2, <2>3, <2>4
<1>7. ASSUME NEW x, NEW y, Behind(s, x, y)  PROVE Behind(u, x, y)
  BY <1>1, <1>3, <1>7 DEF Behind, m
<1>8. ASSUME NEW x, NEW y, Behind(t, x, y)  PROVE Behind(u, x, y)
  <2>1. PICK i \in 1..n, j \in 1..n : i < j /\ t[i] = x /\ t[j] = y
    BY <1>8 DEF Behind, n
  <2>2. m + i \in 1..Len(u) /\ m + j \in 1..Len(u) /\ m + i < m + j /\ u[m + i] = x /\ u[m + j] = y
    BY <1>1, <1>4, <2>1
  <2> QED  BY <2>2 DEF Behind
<1>9. ASSUME NEW x, NEW y, Contains(s, x), Contains(t, y)  PROVE Behind(u, x, y)
  <2>1. PICK i \in 1..m, j \in 1..n : s[i] = x /\ t[j] = y
    BY <1>9 DEF Contains, m, n
  <2>2. i \in 1..Len(u) /\ m + j \in 1..Len(u) /\ i < m + j /\ u[i] = x /\ u[m + j] = y
    BY <1>1, <1>3, <1>4, <2>1
  <2> QED  BY <2>2 DEF Behind
<1>10. ASSUME Distinct(s), Distinct(t), \A x : Contains(s, x) => ~Contains(t, x)
       PROVE  Distinct(u)
  <2>1. \A i \in 1..m, j \in 1..n : s[i] # t[j]
    BY <1>10 DEF Contains, m, n
  <2> SUFFICES ASSUME NEW i \in 1..Len(u), NEW j \in 1..Len(u), u[i] = u[j]
               PROVE  i = j
    BY DEF Distinct
  <2>2. CASE i \in 1..m /\ j \in 1..m
    BY <1>1, <1>10, <2>2 DEF Distinct, m
  <2>3. CASE i > m /\ j > m
    <3>1. i - m \in 1..n /\ j - m \in 1..n /\ t[i - m] = t[j - m]
      BY <1>1, <1>2, <2>3
    <3>2. i - m = j - m
      BY <1>10, <3>1 DEF Distinct, n
    <3> QED  BY <1>1, <3>2
  <2> QED  BY <1>1, <1>2, <2>1, <2>2, <2>3
<1> QED  BY <1>1, <1>5, <1>6, <1>7, <1>8, <1>9, <1>10 DEF u

LEMMA Single ==
  ASSUME NEW S, NEW x \in S
  PROVE  /\ <<x>> \in Seq(S) /\ Distinct(<<x>>)
         /\ \A y : Contains(<<x>>, y) <=> y = x
         /\ \A y, z : ~Behind(<<x>>, y, z)
<1>1. <<x>> \in Seq(S) /\ Len(<<x>>) = 1 /\ <<x>>[1] = x
  OBVIOUS
<1> QED  BY <1>1 DEF Distinct, Contains, Behind

LEMMA Appended ==
  ASSUME NEW S, NEW s \in Seq(S), NEW x \in S
  PROVE  /\ Append(s, x) \in Seq(S)
         /\ \A y : Contains(Append(s, x), y) <=> Contains(s, y) \/ y = x
         /\ \A y, z : Behind(Append(s, x), y, z) <=>
              Behind(s, y, z) \/ (Contains(s, y) /\ z = x)
         /\ Distinct(s) /\ ~Contains(s, x) => Distinct(Append(s, x))
<1> DEFINE t == <<x>>
<1>1. Append(s, x) = s \o t
  BY AppendIsConcat
<1>2. /\ t \in Seq(S) /\ Distinct(t) /\ \A y : Contains(t, y) <=> y = x
      /\ \A y, z : ~Behind(t, y, z)
  BY Single
<1> HIDE DEF t
<1> QED  BY <1>1, <1>2, Joined

LEMMA TailOf ==
  ASSUME NEW S, NEW s \in Seq(S), s # <<>>, Distinct(s)
  PROVE  /\ Tail(s) \in Seq(S) /\ Distinct(Tail(s))
         /\ Head(s) \in S /\ Contains(s, Head(s))
         /\ \A y : Contains(Tail(s), y) <=> Contains(s, y) /\ y # Head(s)
         /\ \A y, z : Behind(Tail(s), y, z) <=> Behind(s, y, z) /\ y # Head(s)
         /\ \A y : ~Behind(s, y, Head(s))
         /\ \A y : Contains(s, y) /\ y # Head(s) => Behind(s, Head(s), y)
<1> DEFINE t == Tail(s)
           n == Len(s)
<1>1. /\ t \in Seq(S) /\ n \in Nat \ {0} /\ Len(t) = n - 1
      /\ \A i \in 1..(n - 1) : t[i] = s[i + 1]
      /\ Head(s) = s[1] /\ Head(s) \in S
  OBVIOUS
<1>2. \A i \in 2..n : i - 1 \in 1..(n - 1) /\ t[i - 1] = s[i]
  BY <1>1
<1>3. \A i \in 1..n : s[i] = Head(s) <=> i = 1
  BY <1>1 DEF Distinct, n
<1> HIDE DEF t
<1>4. Distinct(t)
  <2> SUFFICES ASSUME NEW i \in 1..Len(t), NEW j \in 1..Len(t), t[i] = t[j]
               PROVE  i = j
    BY DEF Distinct
  <2>1. i + 1 \in 1..n /\ j + 1 \in 1..n /\ s[i + 1] = s[j + 1]
    BY <1>1
  <2>2. i + 1 = j + 1
    BY <2>1 DEF Distinct, n
  <2> QED  BY <1>1, <2>2
<1>5. \A y : Contains(t, y) <=> Contains(s, y) /\ y # Head(s)
  <2>1. ASSUME NEW y, Contains(t, y)  PROVE Contains(s, y) /\ y # Head(s)
    <3>1. PICK i \in 1..(n - 1) : t[i] = y
      BY <1>1, <2>1 DEF Contains
    <3>2. i + 1 \in 1..n /\ i + 1 # 1 /\ s[i + 1] = y
      BY <1>1, <3>1
    <3> QED  BY <1>3, <3>2 DEF Contains, n
  <2>2. ASSUME NEW y, Contains(s, y), y # Head(s)  PROVE Contains(t, y)
    <3>1. PICK i \in 1..n : s[i] = y
      BY <2>2 DEF Contains, n
    <3>2. i \in 2..n
      BY <1>1, <2>2, <3>1
    <3> QED  BY <1>1, <1>2, <3>1, <3>2 DEF Contains
  <2> QED  BY <2>1, <2>2
<1>6. \A y, z : Behind(t, y, z) <=> Behind(s, y, z) /\ y # Head(s)
  <2>1. ASSUME NEW y, NEW z, Behind(t, y, z)  PROVE Behind(s, y, z) /\ y # Head(s)
    <3>1. PICK i \in 1..(n - 1), j \in 1..(n - 1) : i < j /\ t[i] = y /\ t[j] = z
      BY <1>1, <2>1 DEF Behind
    <3>2. /\ i + 1 \in 1..n /\ j + 1 \in 1..n /\ i + 1 < j + 1 /\ i + 1 # 1
          /\ s[i + 1] = y /\ s[j + 1] = z
      BY <1>1, <3>1
    <3> QED  BY <1>3, <3>2 DEF Behind, n
  <2>2. ASSUME NEW y, NEW z, Behind(s, y, z), y # Head(s)  PROVE Behind(t, y, z)
    <3>1. PICK i \in 1..n, j \in 1..n : i < j /\ s[i] = y /\ s[j] = z
      BY <2>2 DEF Behind, n
    <3>2. i \in 2..n /\ j \in 2..n
      BY <1>1, <2>2, <3>1
    <3>3. i - 1 \in 1..Len(t) /\ j - 1 \in 1..Len(t) /\ i - 1 < j - 1
      BY <1>1, <3>1, <3>2
    <3> QED  BY <1>2, <3>1, <3>2, <3>3 DEF Behind
  <2> QED  BY <2>1, <2>2
<1>7. \A y : ~Behind(s, y, Head(s))
  BY <1>1, <1>3 DEF Behind, n
<1>8. \A y : Contains(s, y) /\ y # Head(s) => Behind(s, Head(s), y)
  <2> SUFFICES ASSUME NEW y, Contains(s, y), y # Head(s)  PROVE Behind(s, Head(s), y)
    OBVIOUS
  <2>1. PICK i \in 1..n : s[i] = y
    BY DEF Contains, n
  <2>2. 1 \in 1..n /\ 1 < i
    BY <1>1, <2>1
  <2> QED  BY <1>1, <2>1, <2>2 DEF Behind, n
<1> QED  BY <1>1, <1>3, <1>4, <1>5, <1>6, <1>7, <1>8 DEF t, Contains, n

LEMMA Removed ==
  ASSUME NEW S, NEW s \in Seq(S), NEW x, Distinct(s)
  PROVE  /\ RemoveFirst(s, x) \in Seq(S) /\ Distinct(RemoveFirst(s, x))
         /\ \A y : Contains(RemoveFirst(s, x), y) <=> Contains(s, y) /\ y # x
         /\ \A y, z : Behind(RemoveFirst(s, x), y, z) <=> Behind(s, y, z) /\ y # x /\ z # x
<1> DEFINE t == RemoveFirst(s, x)
           n == Len(s)
<1>1. CASE ~Contains(s, x)
  <2>1. t = s
    BY <1>1 DEF RemoveFirst, Contains
  <2>2. \A y, z : Behind(s, y, z) => Contains(s, y) /\ Contains(s, z)
    BY DEF Behind, Contains
  <2> QED  BY <1>1, <2>1, <2>2
<1>2. CASE Contains(s, x)
  <2>1. PICK k \in 1..n : s[k] = x
    BY <1>2 DEF Contains
  <2> DEFINE I == {i \in 1..n : s[i] = x}
             w(i) == IF i < k THEN i ELSE i + 1
  <2>2. I = {k}
    BY <2>1 DEF Distinct
  <2>3. Min(I) = k
    <3>1. k <= k /\ \A j \in I : j = k
      BY <2>2, <2>1
    <3> QED  BY <2>2, <3>1 DEF Min
  <2>4. SelectInSeq(s, LAMBDA v : v = x) = k
    BY <2>2, <2>3 DEF SelectInSeq
  <2>5. t = SubSeq(s, 1, k - 1) \o SubSeq(s, k + 1, n)
    BY <1>2, <2>4 DEF RemoveFirst, RemoveAt, Contains
  <2> HIDE DEF t, I
  <2>6. n \in Nat /\ k \in Nat /\ 1 <= k /\ k <= n
    BY <2>1
  <2>7. /\ SubSeq(s, 1, k - 1) \in Seq(S) /\ Len(SubSeq(s, 1, k - 1)) = k - 1
        /\ \A i \in 1..(k - 1) : SubSeq(s, 1, k - 1)[i] = s[i]
    BY <2>6
  <2>8. /\ SubSeq(s, k + 1, n) \in Seq(S) /\ Len(SubSeq(s, k + 1, n)) = n - k
        /\ \A i \in 1..(n - k) : SubSeq(s, k + 1, n)[i] = s[k + i]
    BY <2>6
  <2>9. /\ t \in Seq(S) /\ Len(t) = n - 1
        /\ \A i \in 1..(n - 1) : t[i] = s[w(i)] /\ w(i) \in 1..n /\ w(i) # k
    <3> DEFINE a == SubSeq(s, 1, k - 1)
               b == SubSeq(s, k + 1, n)
    <3>1. /\ a \in Seq(S) /\ b \in Seq(S) /\ Len(a) = k - 1 /\ Len(b) = n - k /\ t = a \o b
          /\ \A i \in 1..(k - 1) : a[i] = s[i]
          /\ \A i \in 1..(n - k) : b[i] = s[k + i]
      BY <2>5, <2>7, <2>8
    <3> HIDE DEF a, b
    <3>2. t \in Seq(S) /\ Len(t) = n - 1
      <4>1. a \o b \in Seq(S) /\ Len(a \o b) = Len(a) + Len(b)
        BY <3>1, ConcatProperties
      <4>2. (k - 1) + (n - k) = n - 1
        BY <2>6
      <4> QED  BY <3>1, <4>1, <4>2
    <3>3. \A i \in 1..(k - 1) : t[i] = s[i]
      BY <2>6, <3>1
    <3>4. \A i \in k..(n - 1) : t[i] = s[i + 1]
      <4> TAKE i \in k..(n - 1)
      <4>1. i - (k - 1) \in 1..(n - k) /\ i = (k - 1) + (i - (k - 1)) /\ k + (i - (k - 1)) = i + 1
        BY <2>6
      <4>2. t[i] = b[i - (k - 1)]
        BY <2>6, <3>1, <4>1
      <4> QED  BY <3>1, <4>1, <4>2
    <3> QED  BY <2>6, <3>2, <3>3, <3>4
  <2>10. /\ \A i, j \in 1..(n - 1) : (i < j <=> w(i) < w(j)) /\ (w(i) = w(j) => i = j)
         /\ \A h \in 1..n : h # k => \E i \in 1..(n - 1) : w(i) = h
    <3>1. \A i, j \in 1..(n - 1) : (i < j <=> w(i) < w(j)) /\ (w(i) = w(j) => i = j)
      BY <2>6
    <3>2. ASSUME NEW h \in 1..n, h # k  PROVE \E i \in 1..(n - 1) : w(i) = h
      <4>1. CASE h < k
        <5>1. h \in 1..(n - 1) /\ w(h) = h
          BY <2>6, <4>1
        <5> QED  BY <5>1
      <4>2. CASE h > k
        <5>1. h - 1 \in 1..(n - 1) /\ w(h - 1) = h
          BY <2>6, <4>2
        <5> QED  BY <5>1
      <4> QED  BY <2>6, <3>2, <4>1, <4>2
    <3> QED  BY <3>1, <3>2
  <2>11. \A h \in 1..n : s[h] = x <=> h = k
    BY <2>1 DEF Distinct
  <2> HIDE DEF w
  <2>12. Distinct(t)
    <3> SUFFICES ASSUME NEW i \in 1..(n - 1), NEW j \in 1..(n - 1), t[i] = t[j]
                 PROVE  i = j
      BY <2>9 DEF Distinct
    <3>1. w(i) \in 1..n /\ w(j) \in 1..n /\ s[w(i)] = s[w(j)]
      BY <2>9
    <3>2. w(i) = w(j)
      BY <3>1 DEF Distinct
    <3> QED  BY <2>10, <3>2
  <2>13. ASSUME NEW y  PROVE Contains(t, y) <=> Contains(s, y) /\ y # x
    <3>1. Contains(t, y) => Contains(s, y) /\ y # x
      BY <2>9, <2>11 DEF Contains
    <3>2. ASSUME Contains(s, y), y # x  PROVE Contains(t, y)
      <4>1. PICK h \in 1..n : s[h] = y
        BY <3>2 DEF Contains
      <4>2. PICK i \in 1..(n - 1) : w(i) = h
        BY <2>10, <2>11, <3>2, <4>1
      <4> QED  BY <2>9, <4>1, <4>2 DEF Contains
    <3> QED  BY <3>1, <3>2
  <2>14. ASSUME NEW y, NEW z  PROVE Behind(t, y, z) <=> Behind(s, y, z) /\ y # x /\ z # x
    <3>1. ASSUME Behind(t, y, z)  PROVE Behind(s, y, z) /\ y # x /\ z # x
      <4>1. PICK i \in 1..(n - 1), j \in 1..(n - 1) : i < j /\ t[i] = y /\ t[j] = z
        BY <2>9, <3>1 DEF Behind
      <4>2. w(i) \in 1..n /\ w(j) \in 1..n /\ w(i) < w(j) /\ s[w(i)] = y /\ s[w(j)] = z
        BY <2>9, <2>10, <4>1
      <4> QED  BY <2>9, <2>11, <4>2 DEF Behind
    <3>2. ASSUME Behind(s, y, z), y # x, z # x  PROVE Behind(t, y, z)
      <4>1. PICK g \in 1..n, h \in 1..n : g < h /\ s[g] = y /\ s[h] = z
        BY <3>2 DEF Behind
      <4>2. PICK i \in 1..(n - 1), j \in 1..(n - 1) : w(i) = g /\ w(j) = h
        BY <2>10, <2>11, <3>2, <4>1
      <4>3. i < j /\ t[i] = y /\ t[j] = z
        BY <2>9, <2>10, <4>1, <4>2
      <4> QED  BY <2>9, <4>3 DEF Behind
    <3> QED  BY <3>1, <3>2
  <2> QED  BY <2>9, <2>12, <2>13, <2>14 DEF t
<1> QED  BY <1>1, <1>2

-----------------------------------------------------------------------------
(* The queues.                                                               *)

\* Nothing is twice in a queue.
SeqInv ==
  /\ line \in Seq(Task) /\ calls \in Seq(Task) /\ ready \in Seq(Runnable)
  /\ Distinct(line) /\ Distinct(calls) /\ Distinct(ready)

\* A task stands in the one queue that fits where it is suspended.
PlaceInv ==
  \A t \in Task :
    /\ Contains(line, t) <=> pc[t] = "waiting"
    /\ Contains(calls, t) <=> pc[t] = "calling"
    /\ Contains(ready, t) <=> pc[t] \in {"created", "woken", "failed", "left"}

\* The connect task is ready when it has something to do, and the callback
\* of a connection while there is one that ends.
CallbackInv ==
  /\ Contains(ready, Connector) <=> connect \in {"backoff", "entered"}
  /\ Contains(ready, Network) => session \in {"dead", "parting"}

QueueInv == SeqInv /\ PlaceInv /\ CallbackInv

\* The callbacks of the loop are no tasks.
LEMMA Callbacks ==
  /\ Connector \notin Task /\ Network \notin Task /\ Connector # Network
  /\ Connector \in Runnable /\ Network \in Runnable
  /\ \A t \in Task : t \in Runnable /\ t # Connector /\ t # Network
BY SlotAssumption DEF Task, Runnable, Main, Receiver, Connector, Network

\* What is ready besides who runs.
LEMMA Running ==
  ASSUME SeqInv, ready # <<>>
  PROVE  /\ Rest \in Seq(Runnable) /\ Distinct(Rest)
         /\ Head(ready) \in Runnable /\ Contains(ready, Head(ready))
         /\ \A y : Contains(Rest, y) <=> Contains(ready, y) /\ y # Head(ready)
         /\ \A y, z : Behind(Rest, y, z) <=> Behind(ready, y, z) /\ y # Head(ready)
         /\ \A y : ~Behind(ready, y, Head(ready))
BY TailOf DEF Rest, SeqInv

LEMMA InitQueues == Init => QueueInv
<1>1. /\ \A x : ~Contains(<<>>, x)
      /\ <<>> \in Seq(Task) /\ <<>> \in Seq(Runnable) /\ Distinct(<<>>)
  BY Empty
<1> QED  BY <1>1 DEF Init, QueueInv, SeqInv, PlaceInv, CallbackInv

\* The steps of a task that runs.
LEMMA CallQueues ==
  ASSUME Inv, QueueInv, NEW t \in Task, NEW queue \in Seq(Runnable), Distinct(queue),
         Contains(ready, t), \A y : Contains(queue, y) <=> Contains(ready, y) /\ y # t,
         Call(t, queue), UNCHANGED <<line, connect, session>>
  PROVE  QueueInv'
<1>1. /\ pc \in [Task -> Places] /\ t \in Runnable
      /\ line \in Seq(Task) /\ calls \in Seq(Task) /\ Distinct(line) /\ Distinct(calls)
      /\ ~Contains(calls, t) /\ ~Contains(line, t)
  BY Callbacks DEF QueueInv, SeqInv, PlaceInv, Inv, Kinds
<1>2. CASE Usable
  <2>1. calls' = Append(calls, t) /\ ready' = queue /\ pc' = [pc EXCEPT ![t] = "calling"]
    BY <1>2 DEF Call, To
  <2>2. /\ calls' \in Seq(Task) /\ Distinct(calls')
        /\ \A y : Contains(calls', y) <=> Contains(calls, y) \/ y = t
    BY <1>1, <2>1, Appended
  <2> QED  BY <1>1, <2>1, <2>2, Callbacks DEF QueueInv, SeqInv, PlaceInv, CallbackInv
<1>3. CASE ~Usable
  <2>1. calls' = calls /\ ready' = <<t>> \o queue /\ pc' = [pc EXCEPT ![t] = "failed"]
    BY <1>3 DEF Call, To
  <2>2. /\ <<t>> \in Seq(Runnable) /\ Distinct(<<t>>) /\ \A y : Contains(<<t>>, y) <=> y = t
    BY <1>1, Single
  <2>3. /\ ready' \in Seq(Runnable) /\ Distinct(ready')
        /\ \A y : Contains(ready', y) <=> Contains(ready, y)
    <3> DEFINE v == <<t>>
    <3>1. v \in Seq(Runnable) /\ Distinct(v) /\ (\A y : Contains(v, y) <=> y = t) /\ ready' = v \o queue
      BY <2>1, <2>2
    <3> HIDE DEF v
    <3> QED  BY <3>1, Joined
  <2> QED  BY <1>1, <2>1, <2>3, Callbacks DEF QueueInv, SeqInv, PlaceInv, CallbackInv
<1> QED  BY <1>2, <1>3

LEMMA AwaitQueues ==
  ASSUME Inv, QueueInv, NEW t \in Task, NEW queue \in Seq(Runnable), Distinct(queue),
         \A y \in Task : Contains(queue, y) <=> Contains(ready, y) /\ y # t,
         pc[t] \notin {"waiting", "calling"},
         Await(t, queue), calls' = calls, CallbackInv'
  PROVE  QueueInv'
<1>1. /\ pc \in [Task -> Places] /\ line \in Seq(Task) /\ Distinct(line) /\ ~Contains(line, t)
  BY DEF QueueInv, SeqInv, PlaceInv, Inv, Kinds
<1>2. line' = Append(line, t) /\ ready' = queue /\ pc' = [pc EXCEPT ![t] = "waiting"]
  BY DEF Await, To
<1>3. /\ line' \in Seq(Task) /\ Distinct(line')
      /\ \A y : Contains(line', y) <=> Contains(line, y) \/ y = t
  BY <1>1, <1>2, Appended
<1> QED  BY <1>1, <1>2, <1>3 DEF QueueInv, SeqInv, PlaceInv

\* What is ready when t, which is at the head, is taken off, and behind it
\* the connect task is put.
LEMMA Scheduled ==
  ASSUME SeqInv, ready # <<>>, ~Contains(ready, Connector)
  PROVE  /\ Append(Rest, Connector) \in Seq(Runnable) /\ Distinct(Append(Rest, Connector))
         /\ \A y : Contains(Append(Rest, Connector), y) <=>
              (Contains(ready, y) /\ y # Head(ready)) \/ y = Connector
         /\ \A y, z : Behind(Append(Rest, Connector), y, z) <=>
              \/ Behind(ready, y, z) /\ y # Head(ready)
              \/ Contains(ready, y) /\ y # Head(ready) /\ z = Connector
BY Running, Appended, Callbacks

\* t is cancelled.
LEMMA CancelQueues ==
  ASSUME Inv, QueueInv, NEW t \in Task, Cancelled(t), UNCHANGED <<connect, session>>
  PROVE  QueueInv'
<1>1. /\ pc \in [Task -> Places]
      /\ line \in Seq(Task) /\ calls \in Seq(Task) /\ ready \in Seq(Runnable)
      /\ Distinct(line) /\ Distinct(calls) /\ Distinct(ready)
  BY DEF QueueInv, SeqInv, Inv, Kinds
<1>2. /\ line' = RemoveFirst(line, t) /\ calls' = RemoveFirst(calls, t)
      /\ ready' = RemoveFirst(ready, t) /\ pc' = [pc EXCEPT ![t] = "idle"]
  BY DEF Cancelled, To
<1>3. /\ line' \in Seq(Task) /\ Distinct(line')
      /\ \A y : Contains(line', y) <=> Contains(line, y) /\ y # t
  BY <1>1, <1>2, Removed
<1>4. /\ calls' \in Seq(Task) /\ Distinct(calls')
      /\ \A y : Contains(calls', y) <=> Contains(calls, y) /\ y # t
  BY <1>1, <1>2, Removed
<1>5. /\ ready' \in Seq(Runnable) /\ Distinct(ready')
      /\ \A y : Contains(ready', y) <=> Contains(ready, y) /\ y # t
  BY <1>1, <1>2, Removed
<1> QED
  BY <1>1, <1>2, <1>3, <1>4, <1>5, Callbacks DEF QueueInv, SeqInv, PlaceInv, CallbackInv

-----------------------------------------------------------------------------
(* The actions.                                                              *)

LEMMA AttemptQueues == ASSUME Inv, QueueInv, Attempt  PROVE QueueInv'
<1>1. /\ ready # <<>> /\ Head(ready) = Connector /\ ready' = Rest /\ connect' = "entering"
      /\ UNCHANGED <<pc, line, calls, session>>
  BY DEF Attempt
<1>2. SeqInv
  BY DEF QueueInv
<1> QED  BY <1>1, <1>2, Running, Callbacks DEF QueueInv, SeqInv, PlaceInv, CallbackInv

LEMMA EnterQueues ==
  ASSUME Inv, QueueInv, EnterFails \/ Enter  PROVE QueueInv'
<1>1. /\ connect = "entering" /\ connect' \in {"backoff", "entered"}
      /\ ready' = Append(ready, Connector) /\ UNCHANGED <<pc, line, calls>>
      /\ session = "none"
  BY DEF EnterFails, Enter, Inv, SessionInv
<1>2. /\ ready \in Seq(Runnable) /\ Distinct(ready) /\ ~Contains(ready, Connector)
      /\ ~Contains(ready, Network)
  BY <1>1 DEF QueueInv, SeqInv, CallbackInv
<1>3. /\ ready' \in Seq(Runnable) /\ Distinct(ready')
      /\ \A y : Contains(ready', y) <=> Contains(ready, y) \/ y = Connector
  BY <1>1, <1>2, Appended, Callbacks
<1> QED  BY <1>1, <1>2, <1>3, Callbacks DEF QueueInv, SeqInv, PlaceInv, CallbackInv

LEMMA AsRunnable == \A s \in Seq(Task) : s \in Seq(Runnable)
<1> SUFFICES ASSUME NEW s \in Seq(Task)  PROVE s \in Seq(Runnable)
  OBVIOUS
<1>1. \A i \in 1..Len(s) : s[i] \in Runnable
  BY Callbacks
<1> QED  BY <1>1

LEMMA InSeq ==
  ASSUME NEW S, NEW s \in Seq(S), NEW x, Contains(s, x)  PROVE x \in S
BY DEF Contains

LEMMA ConnectedQueues == ASSUME Inv, QueueInv, Connected  PROVE QueueInv'
<1>1. /\ ready # <<>> /\ Head(ready) = Connector /\ connect = "entered"
      /\ connect' \in {"birth", "idle"}
      /\ ready' = Rest \o line /\ line' = <<>> /\ UNCHANGED <<calls, session>>
      /\ pc' = [t \in Task |-> IF pc[t] = "waiting" THEN "woken" ELSE pc[t]]
  BY DEF Connected
<1>2. SeqInv /\ PlaceInv /\ CallbackInv /\ line \in Seq(Task)
  BY DEF QueueInv, SeqInv
<1>3. line \in Seq(Runnable) /\ Distinct(line)
  BY <1>2, AsRunnable DEF SeqInv
<1>4. /\ Rest \in Seq(Runnable) /\ Distinct(Rest)
      /\ \A y : Contains(Rest, y) <=> Contains(ready, y) /\ y # Connector
  BY <1>1, <1>2, Running
<1>5. \A y : Contains(line, y) => y \in Task /\ ~Contains(Rest, y)
  BY <1>2, <1>4, InSeq DEF PlaceInv
<1>6. /\ ready' \in Seq(Runnable) /\ Distinct(ready')
      /\ \A y : Contains(ready', y) <=>
           (Contains(ready, y) /\ y # Connector) \/ Contains(line, y)
  BY <1>1, <1>3, <1>4, <1>5, Joined
<1>7. line' \in Seq(Task) /\ Distinct(line') /\ \A y : ~Contains(line', y)
  BY <1>1, Empty
<1> QED  BY <1>1, <1>2, <1>5, <1>6, <1>7, Callbacks DEF QueueInv, SeqInv, PlaceInv, CallbackInv

LEMMA BirthQueues ==
  ASSUME Inv, QueueInv, BirthPublished \/ Subscribed \/ ConnectRaises  PROVE QueueInv'
BY DEF BirthPublished, Subscribed, ConnectRaises, QueueInv, SeqInv, PlaceInv, CallbackInv

\* The task at the head of the queue.
LEMMA HeadTask ==
  ASSUME QueueInv, NEW t \in Task, NEW p, Runs(t, p)
  PROVE  /\ Rest \in Seq(Runnable) /\ Distinct(Rest)
         /\ Contains(ready, t) /\ ready # <<>> /\ Head(ready) = t /\ pc[t] = p
         /\ \A y : Contains(Rest, y) <=> Contains(ready, y) /\ y # t
         /\ \A y, z : Behind(Rest, y, z) <=> Behind(ready, y, z) /\ y # t
         /\ \A y : ~Behind(ready, y, t)
BY Running DEF Runs, QueueInv

LEMMA BeginQueues ==
  ASSUME Inv, QueueInv, NEW t \in Slot \cup {Receiver}, Begin(t) \/ Resume(t)  PROVE QueueInv'
<1>1. t \in Task /\ (Runs(t, "created") \/ Runs(t, "woken"))
  BY Names DEF Begin, Resume
<1>2. /\ Rest \in Seq(Runnable) /\ Distinct(Rest) /\ Contains(ready, t)
      /\ \A y : Contains(Rest, y) <=> Contains(ready, y) /\ y # t
  BY <1>1, HeadTask
<1>3. UNCHANGED <<connect, session>>
  BY DEF Begin, Resume, client
<1>4. CASE Call(t, Rest) /\ line' = line
  BY <1>1, <1>2, <1>3, <1>4, CallQueues
<1>5. CASE Await(t, Rest) /\ calls' = calls
  <2>1. ready' = Rest
    BY <1>5 DEF Await
  <2>2. CallbackInv'
    BY <1>1, <1>2, <1>3, <2>1, Callbacks DEF QueueInv, CallbackInv
  <2>3. pc[t] \notin {"waiting", "calling"}
    BY <1>1 DEF Runs
  <2> QED  BY <1>1, <1>2, <1>5, <2>2, <2>3, AwaitQueues
<1> QED  BY <1>4, <1>5 DEF Begin, Resume, AwaitAndCall

LEMMA LeaveQueues ==
  ASSUME Inv, QueueInv, NEW t \in Slot \cup {Receiver}, Leave(t)  PROVE QueueInv'
<1>1. t \in Task /\ Runs(t, "failed")
  BY Names DEF Leave
<1>2. /\ Rest \in Seq(Runnable) /\ Distinct(Rest) /\ Contains(ready, t)
      /\ \A y : Contains(Rest, y) <=> Contains(ready, y) /\ y # t
  BY <1>1, HeadTask
<1>3. /\ ready' = Rest /\ pc' = [pc EXCEPT ![t] = "leaving"] /\ session' = "parting"
      /\ UNCHANGED <<line, calls, connect>>
  BY DEF Leave, Part, To
<1> QED
  BY <1>1, <1>2, <1>3, Callbacks DEF QueueInv, SeqInv, PlaceInv, CallbackInv, Inv, Kinds, Runs

LEMMA LeaveLostQueues ==
  ASSUME Inv, QueueInv, NEW t \in Slot \cup {Receiver}, LeaveLost(t) \/ Recreate(t)
  PROVE  QueueInv'
<1>1. t \in Task /\ (Runs(t, "failed") \/ Runs(t, "left"))
  BY Names DEF LeaveLost, Recreate
<1>2. /\ connect \notin {"backoff", "entered"} /\ session \notin {"dead", "parting"}
      /\ session' \notin {"dead", "parting"} /\ connect' = "backoff" /\ calls' = calls
      /\ Await(t, Append(Rest, Connector))
  BY <1>1 DEF LeaveLost, Recreate, Runs, Inv, Kinds, SessionInv, Connecting, Leaving, Usable
<1>3. /\ SeqInv /\ ready # <<>> /\ ~Contains(ready, Connector) /\ ~Contains(ready, Network)
      /\ Head(ready) = t
  BY <1>1, <1>2 DEF QueueInv, CallbackInv, Runs
<1>4. /\ Append(Rest, Connector) \in Seq(Runnable) /\ Distinct(Append(Rest, Connector))
      /\ \A y : Contains(Append(Rest, Connector), y) <=>
           (Contains(ready, y) /\ y # t) \/ y = Connector
  BY <1>3, Scheduled
<1>5. ready' = Append(Rest, Connector)
  BY <1>2 DEF Await
<1>6. CallbackInv'
  BY <1>2, <1>3, <1>4, <1>5, Callbacks DEF CallbackInv
<1>7. pc[t] \notin {"waiting", "calling"}
  BY <1>1 DEF Runs
<1> QED  BY <1>1, <1>2, <1>4, <1>6, <1>7, Callbacks, AwaitQueues

LEMMA AwaitOtherQueues ==
  ASSUME Inv, QueueInv, NEW t \in Slot \cup {Receiver}, AwaitOther(t)  PROVE QueueInv'
<1>1. t \in Task /\ Runs(t, "failed")
  BY Names DEF AwaitOther
<1>2. /\ Rest \in Seq(Runnable) /\ Distinct(Rest) /\ Contains(ready, t)
      /\ \A y : Contains(Rest, y) <=> Contains(ready, y) /\ y # t
  BY <1>1, HeadTask
<1>3. Await(t, Rest) /\ ready' = Rest /\ UNCHANGED <<calls, connect, session>>
  BY DEF AwaitOther, Await, client
<1>4. CallbackInv'
  BY <1>1, <1>2, <1>3, Callbacks DEF QueueInv, CallbackInv
<1>5. pc[t] \notin {"waiting", "calling"}
  BY <1>1 DEF Runs
<1> QED  BY <1>1, <1>2, <1>3, <1>4, <1>5, AwaitQueues

\* Tasks that start, or go on with their call having failed.
LEMMA ReadyQueues ==
  ASSUME Inv, QueueInv, NEW t \in Task, NEW p \in {"created", "failed"},
         pc[t] = "idle" \/ pc[t] = "calling",
         pc' = [pc EXCEPT ![t] = p], ready' = Append(ready, t),
         pc[t] = "idle" => calls' = calls,
         pc[t] = "calling" => calls' = RemoveFirst(calls, t),
         UNCHANGED <<line, connect, session>>
  PROVE  QueueInv'
<1>1. /\ pc \in [Task -> Places] /\ t \in Runnable
      /\ calls \in Seq(Task) /\ Distinct(calls) /\ ready \in Seq(Runnable) /\ Distinct(ready)
      /\ ~Contains(ready, t)
  BY Callbacks DEF QueueInv, SeqInv, PlaceInv, Inv, Kinds
<1>2. /\ ready' \in Seq(Runnable) /\ Distinct(ready')
      /\ \A y : Contains(ready', y) <=> Contains(ready, y) \/ y = t
  BY <1>1, Appended
<1>3. /\ calls' \in Seq(Task) /\ Distinct(calls')
      /\ \A y : Contains(calls', y) <=> Contains(calls, y) /\ y # t
  <2>1. CASE pc[t] = "idle"
    BY <1>1, <2>1 DEF QueueInv, PlaceInv
  <2>2. CASE pc[t] = "calling"
    BY <1>1, <2>2, Removed
  <2> QED  BY <2>1, <2>2
<1> QED  BY <1>1, <1>2, <1>3, Callbacks DEF QueueInv, SeqInv, PlaceInv, CallbackInv

LEMMA TakeQueues == ASSUME Inv, QueueInv, NEW s \in Slot, Take(s)  PROVE QueueInv'
<1>1. s \in Task /\ pc[s] = "idle" /\ pc' = [pc EXCEPT ![s] = "created"]
      /\ ready' = Append(ready, s) /\ UNCHANGED <<line, calls, connect, session>>
  BY Names DEF Take, To, client
<1> QED  BY <1>1, ReadyQueues

LEMMA FailAloneQueues ==
  ASSUME Inv, QueueInv, NEW t \in Slot \cup {Main}, FailAlone(t)  PROVE QueueInv'
<1>1. t \in Task /\ pc[t] = "calling" /\ pc' = [pc EXCEPT ![t] = "failed"]
      /\ ready' = Append(ready, t) /\ calls' = RemoveFirst(calls, t)
      /\ UNCHANGED <<line, connect, session>>
  BY Names DEF FailAlone, To, client
<1> QED  BY <1>1, ReadyQueues

\* A call returns.
LEMMA ReturnQueues ==
  ASSUME Inv, QueueInv, NEW t \in Task, NEW p \in {"idle", "leaving"}, pc[t] = "calling",
         pc' = [pc EXCEPT ![t] = p], calls' = RemoveFirst(calls, t),
         UNCHANGED <<line, ready, connect>>, session' \in {session, "parting"}
  PROVE  QueueInv'
<1>1. pc \in [Task -> Places] /\ calls \in Seq(Task) /\ Distinct(calls)
  BY DEF QueueInv, SeqInv, Inv, Kinds
<1>2. /\ calls' \in Seq(Task) /\ Distinct(calls')
      /\ \A y : Contains(calls', y) <=> Contains(calls, y) /\ y # t
  BY <1>1, Removed
<1> QED  BY <1>1, <1>2 DEF QueueInv, SeqInv, PlaceInv, CallbackInv

LEMMA PublishedQueues == ASSUME Inv, QueueInv, NEW s \in Slot, Published(s)  PROVE QueueInv'
<1>1. s \in Task /\ pc[s] = "calling" /\ pc' = [pc EXCEPT ![s] = "idle"]
      /\ calls' = RemoveFirst(calls, s) /\ UNCHANGED <<line, ready, connect, session>>
  BY Names DEF Published, To, client
<1> QED  BY <1>1, ReturnQueues

LEMMA ShutPublishedQueues == ASSUME Inv, QueueInv, ShutPublished  PROVE QueueInv'
<1>1. Main \in Task /\ pc[Main] = "calling" /\ pc' = [pc EXCEPT ![Main] = "leaving"]
      /\ calls' = RemoveFirst(calls, Main) /\ UNCHANGED <<line, ready, connect>>
      /\ session' = "parting"
  BY Names DEF ShutPublished, To, Part
<1> QED  BY <1>1, ReturnQueues

LEMMA TimeoutQueues == ASSUME Inv, QueueInv, NEW s \in Slot, Timeout(s)  PROVE QueueInv'
BY Names, CancelQueues DEF Timeout, client

LEMMA StopQueues == ASSUME Inv, QueueInv, Stop  PROVE QueueInv'
BY Names, CancelQueues DEF Stop, client

LEMMA ReceiveQueues == ASSUME Inv, QueueInv, Receive  PROVE QueueInv'
<1>1. Receiver \in Task /\ pc[Receiver] = "idle" /\ pc' = [pc EXCEPT ![Receiver] = "created"]
      /\ ready' = Append(ready, Receiver) /\ UNCHANGED <<line, calls, connect, session>>
  BY Names DEF Receive, To, client, Inv, ManagerInv
<1> QED  BY <1>1, ReadyQueues

LEMMA ClosedQueues == ASSUME Inv, QueueInv, Opened \/ Closed  PROVE QueueInv'
<1>1. /\ \E p \in {"woken", "failed", "left"} : Runs(Main, p)
      /\ pc' = [pc EXCEPT ![Main] = "idle"] /\ ready' = Rest
      /\ UNCHANGED <<line, calls, connect, session>>
  BY DEF Opened, Closed, To, client
<1>2. /\ Rest \in Seq(Runnable) /\ Distinct(Rest) /\ Contains(ready, Main)
      /\ \A y : Contains(Rest, y) <=> Contains(ready, y) /\ y # Main
  BY <1>1, Names, HeadTask
<1>3. pc[Main] \in {"woken", "failed", "left"}
  BY <1>1 DEF Runs
<1> QED
  BY <1>1, <1>2, <1>3, Names, Callbacks DEF QueueInv, SeqInv, PlaceInv, CallbackInv, Inv, Kinds

LEMMA OpenQueues == ASSUME Inv, QueueInv, Open  PROVE QueueInv'
<1>1. /\ Await(Main, Append(ready, Connector)) /\ connect' = "backoff" /\ session' = session
      /\ calls' = calls /\ session = "none" /\ connect = "idle" /\ pc[Main] = "idle"
  BY DEF Open, Inv, ManagerInv, SessionInv
<1>2. /\ ready \in Seq(Runnable) /\ Distinct(ready) /\ ~Contains(ready, Connector)
      /\ ~Contains(ready, Network) /\ ~Contains(ready, Main)
  BY <1>1, Names DEF QueueInv, SeqInv, PlaceInv, CallbackInv
<1>3. /\ Append(ready, Connector) \in Seq(Runnable) /\ Distinct(Append(ready, Connector))
      /\ \A y : Contains(Append(ready, Connector), y) <=> Contains(ready, y) \/ y = Connector
  BY <1>2, Appended, Callbacks
<1>4. ready' = Append(ready, Connector)
  BY <1>1 DEF Await
<1>5. CallbackInv'
  BY <1>1, <1>2, <1>3, <1>4, Callbacks DEF CallbackInv
<1>6. \A y \in Task : Contains(Append(ready, Connector), y) <=> Contains(ready, y) /\ y # Main
  BY <1>2, <1>3, Callbacks
<1> QED  BY <1>1, <1>3, <1>5, <1>6, Names, AwaitQueues

LEMMA ShutQueues == ASSUME Inv, QueueInv, Shut  PROVE QueueInv'
<1>1. /\ connect' = "idle" /\ ready' = RemoveFirst(ready, Connector) /\ line' = line
      /\ phase = "stopping"
  BY DEF Shut
<1>2. /\ pc \in [Task -> Places] /\ ready \in Seq(Runnable) /\ Distinct(ready) /\ Distinct(calls)
      /\ calls \in Seq(Task) /\ pc[Main] = "idle" /\ ~Contains(calls, Main)
  BY <1>1, Names DEF QueueInv, SeqInv, PlaceInv, Inv, Kinds, ManagerInv
<1>3. /\ ready' \in Seq(Runnable) /\ Distinct(ready')
      /\ \A y : Contains(ready', y) <=> Contains(ready, y) /\ y # Connector
  BY <1>1, <1>2, Removed
<1>4. CASE calls' = Append(calls, Main) /\ pc' = [pc EXCEPT ![Main] = "calling"] /\ session' = session
  <2>1. /\ calls' \in Seq(Task) /\ Distinct(calls')
        /\ \A y : Contains(calls', y) <=> Contains(calls, y) \/ y = Main
    BY <1>2, <1>4, Names, Appended
  <2> QED
    BY <1>1, <1>2, <1>3, <1>4, <2>1, Names, Callbacks DEF QueueInv, SeqInv, PlaceInv, CallbackInv
<1>5. CASE calls' = calls /\ pc' = [pc EXCEPT ![Main] = "leaving"] /\ session' = "parting"
  BY <1>1, <1>2, <1>3, <1>5, Names, Callbacks DEF QueueInv, SeqInv, PlaceInv, CallbackInv
<1>6. CASE calls' = calls /\ pc' = pc /\ session' = session
  BY <1>1, <1>2, <1>3, <1>6, Names, Callbacks DEF QueueInv, SeqInv, PlaceInv, CallbackInv
<1> QED  BY <1>4, <1>5, <1>6 DEF Shut, Part, To

LEMMA ExitQueues == ASSUME Inv, QueueInv, Exit  PROVE QueueInv'
<1>1. /\ line' = <<>> /\ calls' = <<>> /\ ready' = <<>> /\ connect' = "idle"
      /\ pc' = [t \in Task |-> "idle"]
  BY DEF Exit
<1>2. /\ \A x : ~Contains(<<>>, x)
      /\ <<>> \in Seq(Task) /\ <<>> \in Seq(Runnable) /\ Distinct(<<>>)
  BY Empty
<1> QED  BY <1>1, <1>2 DEF QueueInv, SeqInv, PlaceInv, CallbackInv

LEMMA OutsideQueues ==
  ASSUME Inv, QueueInv, LinkChanges \/ Die \/ PublishWill \/ UNCHANGED vars  PROVE QueueInv'
BY DEF LinkChanges, Die, PublishWill, vars, client, QueueInv, SeqInv, PlaceInv, CallbackInv

LEMMA HearQueues == ASSUME Inv, QueueInv, Hear  PROVE QueueInv'
<1>1. /\ session \in {"dead", "parting"} /\ ready' = Append(ready, Network)
      /\ UNCHANGED <<pc, line, calls, connect, session>>
  BY DEF Hear, client
<1>2. ready \in Seq(Runnable) /\ Distinct(ready) /\ ~Contains(ready, Network)
  <2>1. ready \in Seq(Runnable) /\ Network \notin ToSet(ready)
    BY DEF Hear, QueueInv, SeqInv
  <2> QED  BY <2>1 DEF ToSet, Contains, QueueInv, SeqInv
<1>3. /\ ready' \in Seq(Runnable) /\ Distinct(ready')
      /\ \A y : Contains(ready', y) <=> Contains(ready, y) \/ y = Network
  BY <1>1, <1>2, Appended, Callbacks
<1> QED  BY <1>1, <1>3, Callbacks DEF QueueInv, SeqInv, PlaceInv, CallbackInv

LEMMA Leavers ==
  ASSUME Inv, NEW last \in SetToSeqs({t \in Task : pc[t] = "leaving"})
  PROVE  /\ last \in Seq(Task) /\ Distinct(last)
         /\ \A y : Contains(last, y) <=> y \in Task /\ pc[y] = "leaving"
<1> DEFINE L == {t \in Task : pc[t] = "leaving"}
<1>1. \A t, u \in L : t = u
  BY DEF Inv, SessionInv, Leaving
<1> HIDE DEF L
<1>2. CASE L = {}
  <2>1. Cardinality(L) = 0
    BY <1>2, FS_EmptySet
  <2>2. last \in [1..0 -> L]
    BY <2>1 DEF SetToSeqs, L
  <2>3. last = <<>>
    BY <2>2
  <2> QED  BY <1>2, <2>3, Empty DEF L
<1>3. CASE L # {}
  <2>1. PICK t : L = {t}
    BY <1>1, <1>3
  <2>2. Cardinality(L) = 1
    BY <2>1, FS_Singleton
  <2>3. last \in [1..1 -> L]
    BY <2>2 DEF SetToSeqs, L
  <2>4. t \in Task /\ \A y : y = t <=> y \in Task /\ pc[y] = "leaving"
    BY <2>1 DEF L
  <2>5. last = <<t>>
    BY <2>1, <2>3
  <2> QED  BY <2>4, <2>5, Single
<1> QED  BY <1>2, <1>3

\* What is ready once the session has ended: the rest, the tasks whose calls
\* raise, in their order, and the one that has left the session.
LEMMA Ended ==
  ASSUME Inv, QueueInv, Disconnected
  PROVE  /\ ready # <<>> /\ Head(ready) = Network /\ session \in {"dead", "parting"}
         /\ ready' \in Seq(Runnable) /\ Distinct(ready')
         /\ \A y : Contains(ready', y) <=>
              \/ Contains(ready, y) /\ y # Network
              \/ Contains(calls, y)
              \/ y \in Task /\ pc[y] = "leaving"
         /\ \A y, z : Behind(ready', y, z) /\ Contains(ready, y) /\ Contains(ready, z)
              => Behind(ready, y, z)
         /\ \A y, z : Behind(ready, y, z) /\ y # Network /\ z # Network => Behind(ready', y, z)
         /\ \A y, z : Contains(ready, y) /\ y # Network /\ Contains(calls, z)
              => Behind(ready', y, z)
         /\ \A y, z : Behind(calls, y, z) => Behind(ready', y, z)
<1>1. ready # <<>> /\ Head(ready) = Network
  BY DEF Disconnected
<1> DEFINE L == {t \in Task : pc[t] = "leaving"}
<1>2. PICK last \in SetToSeqs(L) : ready' = Rest \o calls \o last
  BY DEF Disconnected, Ends
<1>3. /\ last \in Seq(Task) /\ Distinct(last)
      /\ \A y : Contains(last, y) <=> y \in Task /\ pc[y] = "leaving"
  BY <1>2, Leavers
<1>4. SeqInv /\ PlaceInv /\ CallbackInv
  BY DEF QueueInv
<1>5. /\ Rest \in Seq(Runnable) /\ Distinct(Rest) /\ Contains(ready, Network)
      /\ \A y : Contains(Rest, y) <=> Contains(ready, y) /\ y # Network
      /\ \A y, z : Behind(Rest, y, z) <=> Behind(ready, y, z) /\ y # Network
      /\ \A y : ~Behind(ready, y, Network)
  BY <1>1, <1>4, Running
<1>6. /\ calls \in Seq(Runnable) /\ Distinct(calls) /\ last \in Seq(Runnable)
      /\ \A y : Contains(calls, y) => y \in Task
  BY <1>3, <1>4, AsRunnable, InSeq DEF SeqInv
<1>7. /\ \A y : Contains(Rest, y) => ~Contains(calls, y)
      /\ \A y : Contains(Rest, y) \/ Contains(calls, y) => ~Contains(last, y)
  BY <1>3, <1>4, <1>5, <1>6 DEF PlaceInv
<1> DEFINE v == Rest \o calls
<1>8. /\ v \in Seq(Runnable) /\ Distinct(v)
      /\ \A y : Contains(v, y) <=> Contains(Rest, y) \/ Contains(calls, y)
      /\ \A y, z : Behind(v, y, z) <=>
           Behind(Rest, y, z) \/ Behind(calls, y, z) \/ (Contains(Rest, y) /\ Contains(calls, z))
  BY <1>5, <1>6, <1>7, Joined
<1> HIDE DEF v
<1>9. /\ ready' \in Seq(Runnable) /\ Distinct(ready')
      /\ \A y : Contains(ready', y) <=> Contains(v, y) \/ Contains(last, y)
      /\ \A y, z : Behind(ready', y, z) <=>
           Behind(v, y, z) \/ Behind(last, y, z) \/ (Contains(v, y) /\ Contains(last, z))
  <2>1. ready' = v \o last
    BY <1>2 DEF v
  <2>2. \A y : Contains(v, y) => ~Contains(last, y)
    BY <1>7, <1>8
  <2> QED  BY <1>3, <1>6, <1>8, <2>1, <2>2, Joined
<1>10. \A y, z : Behind(calls, y, z) => Contains(calls, y) /\ Contains(calls, z)
  BY DEF Behind, Contains
<1>11. \A y, z : Behind(last, y, z) => Contains(last, y) /\ Contains(last, z)
  BY DEF Behind, Contains
<1>12. \A y : Contains(ready, y) => ~Contains(calls, y) /\ ~Contains(last, y)
  BY <1>3, <1>4, <1>6, Callbacks DEF PlaceInv
<1>13. session \in {"dead", "parting"}
  BY <1>4, <1>5 DEF CallbackInv
<1> QED
  BY <1>1, <1>3, <1>5, <1>8, <1>9, <1>10, <1>11, <1>12, <1>13

LEMMA DisconnectedQueues == ASSUME Inv, QueueInv, Disconnected  PROVE QueueInv'
<1>1. /\ ready' \in Seq(Runnable) /\ Distinct(ready')
      /\ \A y : Contains(ready', y) <=>
           \/ Contains(ready, y) /\ y # Network
           \/ Contains(calls, y)
           \/ y \in Task /\ pc[y] = "leaving"
  BY Ended
<1>2. /\ calls' = <<>> /\ line' = line
      /\ connect' = IF connect \in {"birth", "subscribing"} THEN "idle" ELSE connect
      /\ pc' = [t \in Task |-> CASE pc[t] = "calling" -> "failed"
                                  [] pc[t] = "leaving" -> "left"
                                  [] OTHER -> pc[t]]
  BY DEF Disconnected, Ends
<1>3. SeqInv /\ PlaceInv /\ CallbackInv /\ \A y : Contains(calls, y) => y \in Task
  BY InSeq DEF QueueInv, SeqInv
<1>4. calls' \in Seq(Task) /\ Distinct(calls') /\ \A y : ~Contains(calls', y)
  BY <1>2, Empty
<1>5. SeqInv'
  BY <1>1, <1>2, <1>3, <1>4 DEF SeqInv
<1>6. PlaceInv'
  <2> SUFFICES ASSUME NEW t \in Task
               PROVE  /\ Contains(line', t) <=> pc'[t] = "waiting"
                      /\ Contains(calls', t) <=> pc'[t] = "calling"
                      /\ Contains(ready', t) <=> pc'[t] \in {"created", "woken", "failed", "left"}
    BY DEF PlaceInv
  <2>1. pc[t] \in Places /\ t # Network
    BY Callbacks DEF Inv, Kinds
  <2>2. pc'[t] = CASE pc[t] = "calling" -> "failed" [] pc[t] = "leaving" -> "left"
                   [] OTHER -> pc[t]
    BY <1>2
  <2> QED  BY <1>1, <1>2, <1>3, <1>4, <2>1, <2>2 DEF PlaceInv, Places
<1>7. CallbackInv'
  BY <1>1, <1>2, <1>3, Callbacks DEF CallbackInv
<1> QED  BY <1>5, <1>6, <1>7 DEF QueueInv

LEMMA StepQueues == Inv /\ QueueInv /\ [Next]_vars => QueueInv'
<1> SUFFICES ASSUME Inv, QueueInv, [Next]_vars PROVE QueueInv'
  OBVIOUS
<1>1. CASE LoopStep
  <2>1. ASSUME NEW t \in Slot \cup {Receiver}, Begin(t) \/ Resume(t) \/ Reconnect(t) \/ Recreate(t)
        PROVE  QueueInv'
    BY <2>1, BeginQueues, LeaveQueues, LeaveLostQueues, AwaitOtherQueues DEF Reconnect
  <2> QED
    BY <1>1, <2>1, AttemptQueues, ConnectedQueues, DisconnectedQueues, ClosedQueues DEF LoopStep
<1>2. CASE EnterFails \/ Enter \/ BirthPublished \/ Subscribed \/ ConnectRaises
  BY <1>2, EnterQueues, BirthQueues
<1>3. ASSUME NEW s \in Slot, Take(s) \/ Published(s) \/ Timeout(s) PROVE QueueInv'
  BY <1>3, TakeQueues, PublishedQueues, TimeoutQueues
<1>4. ASSUME NEW t \in Slot \cup {Main}, FailAlone(t) PROVE QueueInv'
  BY <1>4, FailAloneQueues
<1>5. CASE Open \/ Receive \/ Stop \/ Shut \/ ShutPublished \/ Exit
  BY <1>5, OpenQueues, ReceiveQueues, StopQueues, ShutQueues, ShutPublishedQueues, ExitQueues
<1>6. CASE LinkChanges \/ Die \/ Hear \/ PublishWill \/ UNCHANGED vars
  BY <1>6, OutsideQueues, HearQueues
<1> QED BY <1>1, <1>2, <1>3, <1>4, <1>5, <1>6 DEF Next

LEMMA Queues == Spec => []QueueInv
BY InitQueues, StepQueues, Invariance, PTL DEF Spec

-----------------------------------------------------------------------------
(* Listening.                                                                *)

\* A session that is up and that nobody subscribes is subscribed: the connect
\* task subscribes the one it has entered (client.py lines 65 to 72).
ListenInv ==
  phase \in {"opening", "starting", "running", "stopping"}
    /\ connected /\ session = "up" /\ connect = "idle"
  => subscribed \/ "alone" \in trouble

LEMMA StepListens == Inv /\ QueueInv /\ ListenInv /\ [Next]_vars => ListenInv'
<1> SUFFICES ASSUME Inv, QueueInv, ListenInv, [Next]_vars PROVE ListenInv'
  OBVIOUS
<1> USE DEF ListenInv
<1>1. CASE Attempt \/ EnterFails \/ Enter \/ BirthPublished \/ Subscribed \/ ConnectRaises
  BY <1>1 DEF Attempt, EnterFails, Enter, BirthPublished, Subscribed, ConnectRaises
<1>2. CASE Connected
  BY <1>2 DEF Connected, Usable
<1>3. ASSUME NEW t \in Slot \cup {Receiver}, Begin(t) \/ Resume(t) \/ Reconnect(t) \/ Recreate(t)
      PROVE  ListenInv'
  BY <1>3 DEF Begin, Resume, Reconnect, Leave, LeaveLost, AwaitOther, Recreate, Part, client
<1>4. ASSUME NEW s \in Slot, Take(s) \/ Published(s) \/ Timeout(s) PROVE ListenInv'
  BY <1>4 DEF Take, Published, Timeout, Cancelled, client
<1>5. ASSUME NEW t \in Slot \cup {Main}, FailAlone(t) PROVE ListenInv'
  BY <1>5 DEF FailAlone, client
<1>6. CASE Open \/ Opened \/ Receive \/ Stop \/ Closed
  BY <1>6 DEF Open, Opened, Receive, Stop, Closed, Cancelled, client
<1>7. CASE Shut \/ ShutPublished \/ Exit
  BY <1>7 DEF Shut, ShutPublished, Exit
<1>8. CASE LinkChanges \/ Die \/ Hear \/ PublishWill \/ UNCHANGED vars
  BY <1>8 DEF LinkChanges, Die, Hear, PublishWill, vars, client
<1>9. CASE Disconnected
  <2>1. session \in {"dead", "parting"}
    BY <1>9, Ended
  <2> QED  BY <1>9, <2>1 DEF Disconnected
<1> QED
  BY <1>1, <1>2, <1>3, <1>4, <1>5, <1>6, <1>7, <1>8, <1>9 DEF Next, LoopStep

\* A client that is connected receives the commands or is about to subscribe,
\* unless a call failed on a session that stayed.
THEOREM ClientListens == Spec => []Listens
<1>1. Init => ListenInv
  BY DEF Init, ListenInv
<1>2. ListenInv => Listens
  BY DEF ListenInv, Listens
<1> QED  BY <1>1, <1>2, StepListens, Invariance, Queues, PTL DEF Spec

-----------------------------------------------------------------------------
(* The types.                                                                *)

\* What is left of the type invariant.
OtherKinds ==
  /\ phase \in {"new", "opening", "starting", "running", "stopping", "closing", "closed"}
  /\ subscribed \in BOOLEAN /\ will \in BOOLEAN
  /\ status \in {"online", "offline"}
  /\ link \in Available \cup {"new"} /\ shown \in Available
  /\ backlog \in Seq(Available)
  /\ message \in [Slot -> Available]
  /\ trouble \subseteq {"alone", "dropped", "overtaken", "torn", "abandoned"}

LEMMA StepOtherKinds == Inv /\ OtherKinds /\ [Next]_vars => OtherKinds'
<1> SUFFICES ASSUME Inv, OtherKinds, [Next]_vars PROVE OtherKinds'
  OBVIOUS
<1> USE DEF OtherKinds
<1>1. CASE Attempt \/ EnterFails \/ Enter \/ BirthPublished \/ Subscribed \/ ConnectRaises
  BY <1>1 DEF Attempt, EnterFails, Enter, BirthPublished, Subscribed, ConnectRaises, broker, device
<1>2. CASE Connected
  BY <1>2 DEF Connected, device
<1>3. ASSUME NEW t \in Slot \cup {Receiver}, Begin(t) \/ Resume(t) PROVE OtherKinds'
  <2>1. shown' \in Available
    BY <1>3 DEF Begin, Resume, AwaitAndCall, Call
  <2>2. Mishaps(t) \subseteq {"dropped", "overtaken"}
    BY DEF Mishaps
  <2> QED  BY <1>3, <2>1, <2>2 DEF Begin, Resume, client, device
<1>4. ASSUME NEW t \in Slot \cup {Receiver}, Reconnect(t) \/ Recreate(t) PROVE OtherKinds'
  BY <1>4 DEF Reconnect, Leave, LeaveLost, AwaitOther, Recreate, Part, client, broker, device
<1>5. ASSUME NEW s \in Slot, Take(s) PROVE OtherKinds'
  <2>1. Head(backlog) \in Available /\ Tail(backlog) \in Seq(Available)
    BY <1>5 DEF Take
  <2> QED  BY <1>5, <2>1 DEF Take, client, broker
<1>6. ASSUME NEW s \in Slot, Published(s) \/ Timeout(s) PROVE OtherKinds'
  BY <1>6 DEF Published, Timeout, Cancelled, client, broker, device
<1>7. ASSUME NEW t \in Slot \cup {Main}, FailAlone(t) PROVE OtherKinds'
  BY <1>7 DEF FailAlone, client, broker, device
<1>8. CASE Open \/ Opened \/ Receive \/ Closed
  BY <1>8 DEF Open, Opened, Receive, Closed, client, broker, device
<1>9. CASE Stop
  <2>1. "down" \in Available /\ Append(backlog, "down") \in Seq(Available)
    <3>1. "down" \in Available
      BY DEF Available
    <3> QED  BY <3>1
  <2> QED  BY <1>9, <2>1 DEF Stop, Cancelled, client, broker
<1>10. CASE Shut \/ ShutPublished
  BY <1>10 DEF Shut, ShutPublished, Part, device
<1>11. CASE Exit
  <2>1. <<>> \in Seq(Available) /\ "down" \in Available
    BY DEF Available
  <2> QED  BY <1>11, <2>1 DEF Exit, broker
<1>12. CASE LinkChanges
  <2>1. link' \in Available /\ backlog' = Append(backlog, link')
    BY <1>12 DEF LinkChanges, Available
  <2>2. backlog' \in Seq(Available)
    <3> DEFINE l == link'
    <3>1. l \in Available /\ backlog' = Append(backlog, l)
      BY <2>1
    <3> HIDE DEF l
    <3> QED  BY <3>1
  <2> QED  BY <1>12, <2>1, <2>2 DEF LinkChanges, client, broker
<1>13. CASE Die \/ Hear \/ PublishWill
  BY <1>13 DEF Die, Hear, PublishWill, client, broker, device
<1>14. CASE Disconnected
  BY <1>14 DEF Disconnected, Ends, broker, device
<1>15. CASE UNCHANGED vars
  BY <1>15 DEF vars, client, broker, device
<1> QED
  BY <1>1, <1>2, <1>3, <1>4, <1>5, <1>6, <1>7, <1>8, <1>9, <1>10, <1>11, <1>12, <1>13, <1>14,
     <1>15 DEF Next, LoopStep

\* The types.
LEMMA InitOtherKinds == Init => OtherKinds
<1>1. <<>> \in Seq(Available) /\ "down" \in Available
  BY DEF Available
<1> QED  BY <1>1 DEF Init, OtherKinds

\* Every variable of the client, of the broker and of the device has its type.
THEOREM ClientTypes == Spec => []TypeOK
<1>2. Inv /\ QueueInv /\ OtherKinds => TypeOK
  BY DEF Inv, Kinds, Places, QueueInv, SeqInv, OtherKinds, TypeOK
<1> QED  BY <1>2, InitOtherKinds, StepOtherKinds, Invariance, Queues, PTL DEF Spec

-----------------------------------------------------------------------------
(* The way of a task, as long as no call fails alone.                        *)

\* The tasks that use the session, and those that the loop has yet to resume.
Publisher == Slot \cup {Receiver}
Held == {"woken", "failed"}

Smooth ==
  /\ trouble \cap {"alone", "dropped", "overtaken"} = {}
  /\ phase \in {"new", "opening", "starting", "running"}

\* Calls are made while connected, and fail when the session is gone; who was
\* woken goes on before the client connects again; and who goes on behind the
\* end of the session does not overtake a call.
WayInv ==
  Smooth =>
    /\ \A t \in Task : pc[t] \notin {"leaving", "left"}
    /\ \A t \in Publisher :
         /\ pc[t] = "calling" => connected /\ Usable
         /\ pc[t] = "failed" => ~(connected /\ Usable)
         /\ pc[t] = "waiting" => ~connected
         /\ pc[t] \in Held => connect \notin {"entering", "entered"} /\ ~Behind(ready, Connector, t)
    /\ ~connected /\ Usable => connect = "entered"
    /\ session # "parting"
    /\ \A t, u \in Slot :
         pc[u] \in Held /\ Behind(ready, Network, u) =>
           /\ pc[t] # "calling"
           /\ pc[t] \in Held => ~Behind(ready, t, Network)

LEMMA Publishers ==
  /\ \A t \in Publisher : /\ t \in Task /\ t # Main /\ t # Connector /\ t # Network
                          /\ t \in Runnable
  /\ \A s \in Slot : s \in Publisher /\ s # Receiver
BY Names, Callbacks DEF Publisher

\* Trouble stays.
LEMMA StillSmooth ==
  ASSUME [Next]_vars, Smooth', ~Exit  PROVE trouble \cap {"alone", "dropped", "overtaken"} = {}
<1> USE DEF Smooth
<1>1. CASE EnterFails \/ Enter \/ BirthPublished \/ Subscribed \/ ConnectRaises
  BY <1>1 DEF EnterFails, Enter, BirthPublished, Subscribed, ConnectRaises
<1>2. CASE LoopStep
  <2>1. ASSUME NEW t \in Publisher, Begin(t) \/ Resume(t) \/ Reconnect(t) \/ Recreate(t)
        PROVE  trouble \cap {"alone", "dropped", "overtaken"} = {}
    BY <2>1 DEF Begin, Resume, Reconnect, Leave, LeaveLost, AwaitOther, Recreate
  <2> QED
    BY <1>2, <2>1 DEF LoopStep, Publisher, Attempt, Connected, Disconnected, Opened, Closed
<1>3. ASSUME NEW s \in Slot, Take(s) \/ Published(s) \/ Timeout(s)
      PROVE  trouble \cap {"alone", "dropped", "overtaken"} = {}
  BY <1>3 DEF Take, Published, Timeout, Cancelled
<1>4. ASSUME NEW t \in Slot \cup {Main}, FailAlone(t)
      PROVE  trouble \cap {"alone", "dropped", "overtaken"} = {}
  BY <1>4 DEF FailAlone
<1>5. CASE Open \/ Receive \/ Stop \/ Shut \/ ShutPublished
  BY <1>5 DEF Open, Receive, Stop, Shut, ShutPublished, Cancelled
<1>6. CASE LinkChanges \/ Die \/ Hear \/ PublishWill \/ UNCHANGED vars
  BY <1>6 DEF LinkChanges, Die, Hear, PublishWill, vars
<1> QED  BY <1>1, <1>2, <1>3, <1>4, <1>5, <1>6 DEF Next

LEMMA InitWay == Init => WayInv
BY Publishers DEF Init, WayInv, Usable, Held

LEMMA AttemptWay == ASSUME Inv, QueueInv, WayInv, Attempt  PROVE WayInv'
<1>1. /\ ready # <<>> /\ Head(ready) = Connector /\ ready' = Rest /\ connect' = "entering"
      /\ connect = "backoff" /\ UNCHANGED <<phase, trouble, pc, connected, session>>
  BY DEF Attempt
<1>2. /\ \A y, z : Behind(Rest, y, z) => Behind(ready, y, z)
      /\ \A y : Contains(ready, y) /\ y # Connector => Behind(ready, Connector, y)
  BY <1>1, TailOf DEF QueueInv, SeqInv, Rest
<1>3. \A t \in Publisher : pc[t] \in Held => Behind(ready, Connector, t)
  BY <1>2, Publishers DEF QueueInv, PlaceInv, Held
<1> QED  BY <1>1, <1>2, <1>3, Publishers DEF WayInv, Smooth, Usable

LEMMA EnterWay == ASSUME Inv, QueueInv, WayInv, EnterFails \/ Enter  PROVE WayInv'
<1>1. /\ connect = "entering" /\ connect' \in {"backoff", "entered"} /\ session = "none" /\ ~connected
      /\ ready' = Append(ready, Connector) /\ UNCHANGED <<phase, trouble, pc, connected>>
      /\ \/ session' = session
         \/ session' = "up" /\ connect' = "entered"
  BY DEF EnterFails, Enter, Inv, SessionInv, Connecting
<1>2. \A y, z : Behind(ready', y, z) <=> Behind(ready, y, z) \/ (Contains(ready, y) /\ z = Connector)
  BY <1>1, Appended, Callbacks DEF QueueInv, SeqInv
<1> QED  BY <1>1, <1>2, Publishers, Callbacks DEF WayInv, Smooth, Usable

LEMMA ConnectedWay == ASSUME Inv, QueueInv, WayInv, Connected  PROVE WayInv'
<1>1. /\ ready # <<>> /\ Head(ready) = Connector /\ connect = "entered" /\ connected' = TRUE
      /\ connect' \in {"birth", "idle"}
      /\ ready' = Rest \o line /\ UNCHANGED <<phase, calls, session>>
      /\ pc' = [t \in Task |-> IF pc[t] = "waiting" THEN "woken" ELSE pc[t]]
      /\ Smooth' => Smooth
  BY DEF Connected, Smooth
<1>2. SeqInv /\ PlaceInv /\ line \in Seq(Runnable) /\ ~connected
  BY <1>1, AsRunnable DEF QueueInv, SeqInv, Inv, SessionInv, Connecting
<1>3. /\ Rest \in Seq(Runnable)
      /\ \A y : Contains(Rest, y) <=> Contains(ready, y) /\ y # Connector
      /\ \A y, z : Behind(Rest, y, z) <=> Behind(ready, y, z) /\ y # Connector
  BY <1>1, <1>2, Running
<1>4. /\ \A y : Contains(line, y) => y \in Task
      /\ \A y, z : Behind(line, y, z) => Contains(line, y) /\ Contains(line, z)
      /\ \A y, z : Behind(Rest, y, z) => Contains(Rest, y) /\ Contains(Rest, z)
  BY <1>2, InSeq DEF SeqInv, Behind, Contains
<1>5. \A y, z : Behind(ready', y, z) <=>
        Behind(Rest, y, z) \/ Behind(line, y, z) \/ (Contains(Rest, y) /\ Contains(line, z))
  BY <1>1, <1>2, <1>3, Joined
<1> SUFFICES ASSUME Smooth'  PROVE WayInv'
  BY DEF WayInv
<1>6. /\ Smooth /\ \A t \in Task : pc[t] \notin {"leaving", "left"}
      /\ session # "parting" /\ session' = session
  BY <1>1 DEF Smooth, WayInv
<1>7. ASSUME NEW t \in Publisher
      PROVE  /\ pc'[t] \notin {"failed", "calling", "waiting"}
             /\ pc'[t] \in Held => Contains(line, t)
  <2>1. t \in Task /\ pc[t] \notin Held /\ pc[t] # "calling"
    BY <1>1, <1>2, <1>6, Publishers DEF WayInv, Held
  <2>2. pc[t] = "waiting" <=> Contains(line, t)
    BY <1>2, <2>1 DEF PlaceInv
  <2> QED  BY <1>1, <2>1, <2>2 DEF Held
<1>8. ASSUME NEW t \in Publisher, pc'[t] \in Held
      PROVE  ~Behind(ready', Connector, t) /\ ~Behind(ready', t, Network)
  <2>1. t \in Task /\ t # Connector /\ t # Network /\ Contains(line, t)
    BY <1>7, <1>8, Publishers
  <2>2. ~Contains(Rest, t) /\ ~Contains(line, Network) /\ ~Contains(line, Connector) /\ ~Contains(Rest, Connector)
    BY <1>2, <1>3, <1>4, <2>1, Callbacks DEF PlaceInv
  <2> QED  BY <1>4, <1>5, <2>1, <2>2
<1>9. connect' \notin {"entering", "entered"} /\ connected'
  BY <1>1
<1>10. \A t \in Task : pc'[t] \notin {"leaving", "left"}
  BY <1>1, <1>6
<1>11. \A t \in Slot : pc'[t] # "calling" /\ (pc'[t] \in Held => ~Behind(ready', t, Network))
  BY <1>7, <1>8, Publishers
<1> QED  BY <1>6, <1>7, <1>8, <1>9, <1>10, <1>11 DEF WayInv

LEMMA BirthWay ==
  ASSUME Inv, QueueInv, WayInv, BirthPublished \/ Subscribed \/ ConnectRaises  PROVE WayInv'
<1>1. CASE ConnectRaises
  BY <1>1 DEF ConnectRaises, WayInv, Smooth
<1>2. CASE BirthPublished \/ Subscribed
  <2>1. /\ connect \in {"birth", "subscribing"} /\ connect' \in {"subscribing", "idle"}
        /\ UNCHANGED <<phase, trouble, pc, ready, connected, session>>
    BY <1>2 DEF BirthPublished, Subscribed
  <2> QED  BY <2>1 DEF WayInv, Smooth, Usable
<1> QED  BY <1>1, <1>2

\* A call that is made, or raises at once.
LEMMA CallWay ==
  ASSUME Inv, QueueInv, WayInv, NEW t \in Publisher, Begin(t) \/ Resume(t), Call(t, Rest), Smooth, Smooth'
  PROVE  WayInv'
<1>1. /\ t \in Task /\ t \in Runnable /\ pc[t] \in {"created", "woken"}
      /\ ready # <<>> /\ Head(ready) = t /\ UNCHANGED <<connected, connect, session>>
      /\ SeqInv /\ pc \in [Task -> Places]
      /\ pc[t] = "created" => connected
  <2>1. t \in Task /\ t \in Runnable /\ SeqInv /\ pc \in [Task -> Places]
    BY Publishers DEF QueueInv, Inv, Kinds
  <2>2. CASE Begin(t)
    <3>1. connected
      BY <2>1, <2>2 DEF Begin, AwaitAndCall, Call, Await, To
    <3> QED  BY <2>1, <2>2, <3>1 DEF Begin, client, Runs
  <2>3. CASE Resume(t)
    BY <2>1, <2>3 DEF Resume, client, Runs
  <2> QED  BY <2>2, <2>3
<1>2. /\ Rest \in Seq(Runnable)
      /\ \A y : Contains(Rest, y) <=> Contains(ready, y) /\ y # t
      /\ \A y, z : Behind(Rest, y, z) <=> Behind(ready, y, z) /\ y # t
      /\ \A y : ~Behind(ready, y, t)
      /\ \A y : Contains(ready, y) /\ y # t => Behind(ready, t, y)
  BY <1>1, TailOf DEF SeqInv, Rest
<1>3. pc[t] = "created" /\ t \in Slot => \A s \in Slot : pc[s] \notin Held
  BY DEF Begin, Resume, Mishaps, Smooth, Held, Runs
<1>4. CASE Usable
  <2>1. ready' = Rest /\ pc' = [pc EXCEPT ![t] = "calling"]
    BY <1>4 DEF Call, To
  <2>2. connected
    BY <1>1, <1>4 DEF WayInv, Held
  <2>3. ASSUME t \in Slot, NEW u \in Slot, pc[u] \in Held, Behind(ready, Network, u)
        PROVE  FALSE
    <3>1. Contains(ready, Network)
      BY <2>3 DEF Behind, Contains
    <3>2. Behind(ready, t, Network)
      BY <1>2, <3>1, Publishers
    <3> QED  BY <1>1, <1>3, <2>3, <3>2 DEF WayInv, Held
  <2> QED  BY <1>1, <1>2, <1>4, <2>1, <2>2, <2>3, Publishers DEF WayInv, Usable, Held
<1>5. CASE ~Usable
  <2>1. ready' = <<t>> \o Rest /\ pc' = [pc EXCEPT ![t] = "failed"]
    BY <1>5 DEF Call, To
  <2>2. \A y, z : Behind(ready', y, z) <=> Behind(ready, y, z)
    <3> DEFINE v == <<t>>
    <3>1. /\ v \in Seq(Runnable) /\ (\A y : Contains(v, y) <=> y = t) /\ ready' = v \o Rest
          /\ \A y, z : ~Behind(v, y, z)
      BY <1>1, <2>1, Single
    <3>2. \A y, z : Behind(ready, y, z) => Contains(ready, z) /\ Contains(ready, y)
      BY DEF Behind, Contains
    <3> HIDE DEF v
    <3> QED  BY <1>2, <3>1, <3>2, Joined
  <2>3. pc[t] \notin Held => connect \notin {"entering", "entered"}
    BY <1>1 DEF Inv, SessionInv, Connecting, Held
  <2> QED  BY <1>1, <1>2, <1>3, <1>5, <2>1, <2>2, <2>3, Publishers DEF WayInv, Usable, Held
<1> QED  BY <1>4, <1>5

\* A task that begins to wait.
LEMMA AwaitWay ==
  ASSUME Inv, QueueInv, WayInv, NEW t \in Publisher, NEW p, Runs(t, p), ~connected',
         Await(t, Rest), UNCHANGED <<connected, connect, session>>, Smooth
  PROVE  WayInv'
<1>1. /\ t \in Task /\ ready # <<>> /\ Head(ready) = t /\ SeqInv /\ pc \in [Task -> Places]
      /\ ready' = Rest /\ pc' = [pc EXCEPT ![t] = "waiting"]
  BY Publishers DEF QueueInv, Inv, Kinds, Runs, Await, To
<1>2. \A y, z : Behind(Rest, y, z) <=> Behind(ready, y, z) /\ y # t
  BY <1>1, Running
<1> QED  BY <1>1, <1>2, Publishers DEF WayInv, Usable, Held

LEMMA BeginWay ==
  ASSUME Inv, QueueInv, WayInv, NEW t \in Publisher, Begin(t) \/ Resume(t)  PROVE WayInv'
<1> SUFFICES ASSUME Smooth'  PROVE WayInv'
  BY DEF WayInv
<1>1. Smooth
  BY DEF Begin, Resume, Smooth
<1>2. UNCHANGED <<connected, connect, session>>
  BY DEF Begin, Resume, client
<1>3. CASE Call(t, Rest)
  BY <1>1, <1>3, CallWay
<1>4. CASE Await(t, Rest) /\ ~connected /\ Runs(t, "created")
  BY <1>1, <1>2, <1>4, AwaitWay
<1> QED  BY <1>3, <1>4 DEF Begin, Resume, AwaitAndCall

LEMMA ReconnectWay ==
  ASSUME Inv, QueueInv, WayInv, NEW t \in Publisher, Reconnect(t) \/ Recreate(t)  PROVE WayInv'
<1> SUFFICES ASSUME Smooth'  PROVE WayInv'
  BY DEF WayInv
<1>1. Smooth
  BY DEF Reconnect, Leave, LeaveLost, AwaitOther, Recreate, Smooth
<1>2. t \in Task
  BY Publishers
<1>3. CASE Leave(t) \/ Recreate(t)
  BY <1>1, <1>2, <1>3 DEF Leave, Recreate, Runs, WayInv
<1>4. CASE AwaitOther(t)
  BY <1>1, <1>4, AwaitWay DEF AwaitOther, client
<1>5. CASE LeaveLost(t)
  <2>1. /\ ready # <<>> /\ Head(ready) = t /\ SeqInv /\ pc \in [Task -> Places]
        /\ ready' = Append(Rest, Connector) /\ pc' = [pc EXCEPT ![t] = "waiting"]
        /\ connected /\ ~Usable /\ ~connected' /\ session' = "none" /\ connect' = "backoff"
    BY <1>5 DEF QueueInv, Inv, Kinds, Runs, LeaveLost, Await, To
  <2>2. ~Contains(ready, Connector)
    BY <2>1 DEF QueueInv, CallbackInv, Inv, SessionInv, Connecting
  <2>3. /\ \A y, z : Behind(ready', y, z) <=>
              \/ Behind(ready, y, z) /\ y # t
              \/ Contains(ready, y) /\ y # t /\ z = Connector
        /\ \A y : ~Behind(ready, Connector, y)
    <3>1. \A y : ~Behind(ready, Connector, y)
      BY <2>2 DEF Behind, Contains
    <3> QED  BY <2>1, <2>2, <3>1, Scheduled
  <2> QED  BY <1>1, <1>2, <2>1, <2>3, Publishers, Callbacks DEF WayInv, Usable, Held
<1> QED  BY <1>3, <1>4, <1>5 DEF Reconnect

\* Tasks that start.
LEMMA TakeWay ==
  ASSUME Inv, QueueInv, WayInv, NEW t \in Publisher,
         pc' = [pc EXCEPT ![t] = "created"], ready' = Append(ready, t), pc[t] = "idle",
         Smooth' => Smooth, UNCHANGED <<connected, connect, session>>
  PROVE  WayInv'
<1>1. /\ t \in Task /\ t \in Runnable /\ ready \in Seq(Runnable) /\ pc \in [Task -> Places]
  BY Publishers DEF QueueInv, SeqInv, Inv, Kinds
<1>2. \A y, z : Behind(ready', y, z) <=> Behind(ready, y, z) \/ (Contains(ready, y) /\ z = t)
  BY <1>1, Appended
<1> QED  BY <1>1, <1>2, Publishers DEF WayInv, Usable, Held

LEMMA PublishedWay == ASSUME Inv, QueueInv, WayInv, NEW s \in Slot, Published(s)  PROVE WayInv'
<1>1. /\ s \in Publisher /\ s \in Task /\ pc \in [Task -> Places]
      /\ pc' = [pc EXCEPT ![s] = "idle"] /\ UNCHANGED <<phase, trouble, ready, connected, connect, session>>
  BY Publishers DEF Published, To, client, Inv, Kinds
<1> QED  BY <1>1, Publishers DEF WayInv, Usable, Held, Smooth

LEMMA OpenWay == ASSUME Inv, QueueInv, WayInv, Open \/ Opened  PROVE WayInv'
<1>1. Main \in Task /\ pc \in [Task -> Places] /\ \A t \in Publisher : t # Main /\ t \in Task
  BY Names, Publishers DEF Inv, Kinds
<1>2. CASE Open
  <2>0. phase = "new" /\ session' = session /\ connected' = connected
    BY <1>2 DEF Open
  <2>1. /\ \A t \in Publisher : pc[t] = "idle"
        /\ pc' = [pc EXCEPT ![Main] = "waiting"] /\ ~connected' /\ session' = "none"
    <3>1. pc' = [pc EXCEPT ![Main] = "waiting"]
      BY <1>2 DEF Open, Await, To
    <3>2. \A t \in Publisher : pc[t] = "idle"
      BY <1>1, <2>0 DEF Inv, ManagerInv
    <3> QED  BY <2>0, <3>1, <3>2 DEF Inv, SessionInv
  <2>2. \A t \in Task : pc'[t] \notin {"leaving", "left"}
    <3>1. \A t \in Task : t = Main \/ t \in Publisher
      BY DEF Task, Publisher
    <3> QED  BY <1>1, <2>1, <3>1
  <2> QED  BY <1>1, <2>1, <2>2, Publishers DEF WayInv, Usable, Held
<1>3. CASE Opened
  <2>1. /\ ready # <<>> /\ ready' = Rest /\ Head(ready) = Main /\ pc' = [pc EXCEPT ![Main] = "idle"]
        /\ UNCHANGED <<trouble, connected, connect, session>> /\ (Smooth' => Smooth) /\ SeqInv
    BY <1>3 DEF Opened, Runs, To, client, Smooth, QueueInv
  <2>2. \A y, z : Behind(ready', y, z) <=> Behind(ready, y, z) /\ y # Main
    BY <2>1, Running
  <2> QED  BY <1>1, <2>1, <2>2, Publishers DEF WayInv, Usable
<1> QED  BY <1>2, <1>3

LEMMA ReceiveWay == ASSUME Inv, QueueInv, WayInv, Receive  PROVE WayInv'
<1>1. Receiver \in Publisher /\ pc[Receiver] = "idle"
  BY DEF Publisher, Receive, Inv, ManagerInv
<1> QED  BY <1>1, TakeWay DEF Receive, To, client, Smooth

LEMMA ExitWay == ASSUME Exit  PROVE WayInv'
BY Publishers DEF Exit, WayInv, Usable, Held

LEMMA OutsideWay ==
  ASSUME Inv, QueueInv, WayInv, LinkChanges \/ Die \/ PublishWill \/ UNCHANGED vars  PROVE WayInv'
<1>1. UNCHANGED <<phase, trouble, pc, ready, connected, connect>>
  BY DEF LinkChanges, Die, PublishWill, vars, client
<1>2. session' = session \/ (session = "up" /\ session' = "dead")
  BY DEF LinkChanges, Die, PublishWill, vars, client
<1> QED  BY <1>1, <1>2 DEF WayInv, Usable, Smooth

LEMMA HearWay == ASSUME Inv, QueueInv, WayInv, Hear  PROVE WayInv'
<1>1. /\ ready' = Append(ready, Network) /\ ready \in Seq(Runnable)
      /\ UNCHANGED <<phase, trouble, pc, connected, connect, session>>
  BY DEF Hear, client, QueueInv, SeqInv
<1>2. \A y, z : Behind(ready', y, z) <=> Behind(ready, y, z) \/ (Contains(ready, y) /\ z = Network)
  BY <1>1, Appended, Callbacks
<1>3. \A y : ~Behind(ready, Network, y)
  BY <1>1 DEF Hear, ToSet, Behind
<1> QED  BY <1>1, <1>2, <1>3, Publishers, Callbacks DEF WayInv, Usable, Smooth

LEMMA DisconnectedWay == ASSUME Inv, QueueInv, WayInv, Disconnected  PROVE WayInv'
<1> SUFFICES ASSUME Smooth'  PROVE WayInv'
  BY DEF WayInv
<1>1. /\ Smooth /\ connected' = connected
      /\ connect' = IF connect \in {"birth", "subscribing"} THEN "idle" ELSE connect
      /\ pc' = [t \in Task |-> CASE pc[t] = "calling" -> "failed"
                                  [] pc[t] = "leaving" -> "left"
                                  [] OTHER -> pc[t]]
  BY DEF Disconnected, Ends, Smooth
<1>2. session = "dead" /\ session' = "lost"
  BY <1>1, Ended DEF Disconnected, WayInv
<1>3. /\ ~Contains(ready', Network)
      /\ \A y, z : Behind(ready', y, z) /\ Contains(ready, y) /\ Contains(ready, z)
           => Behind(ready, y, z)
      /\ \A y : Contains(ready', y) <=>
              \/ Contains(ready, y) /\ y # Network
              \/ Contains(calls, y)
              \/ y \in Task /\ pc[y] = "leaving"
  <2>1. \A y : Contains(calls, y) => y \in Task
    BY InSeq DEF QueueInv, SeqInv
  <2> QED  BY <2>1, Ended, Callbacks
<1>4. \A t \in Task : pc'[t] \notin {"leaving", "left", "calling"}
  BY <1>1 DEF WayInv
<1>5. ASSUME NEW t \in Publisher, pc'[t] \in Held
      PROVE  connect' \notin {"entering", "entered"} /\ ~Behind(ready', Connector, t)
  <2>1. t \in Task /\ (pc[t] = "calling" \/ pc[t] \in Held)
    BY <1>1, <1>5, Publishers DEF WayInv, Held
  <2>2. CASE pc[t] = "calling"
    <3>1. ~Contains(ready, Connector) /\ connect \notin {"entering", "entered"}
      BY <1>1, <2>2 DEF WayInv, Inv, SessionInv, Connecting, QueueInv, CallbackInv
    <3>2. ~Contains(ready', Connector)
      <4>1. ~Contains(calls, Connector)
        BY InSeq, Callbacks DEF QueueInv, SeqInv
      <4> QED  BY <1>3, <3>1, <4>1, Callbacks
    <3> QED  BY <1>1, <3>1, <3>2 DEF Behind, Contains
  <2>3. CASE pc[t] \in Held
    <3>1. connect' \notin {"entering", "entered"} /\ ~Behind(ready, Connector, t)
      BY <1>1, <2>3 DEF WayInv
    <3>2. Contains(ready, t)
      BY <2>1, <2>3 DEF QueueInv, PlaceInv, Held
    <3>3. Behind(ready', Connector, t) => Contains(ready', Connector)
      BY DEF Behind, Contains
    <3>4. Contains(ready', Connector) => Contains(ready, Connector)
      <4>1. ~Contains(calls, Connector)
        BY InSeq, Callbacks DEF QueueInv, SeqInv
      <4> QED  BY <1>3, <4>1, Callbacks
    <3> QED  BY <1>3, <3>1, <3>2, <3>3, <3>4
  <2> QED  BY <2>1, <2>2, <2>3
<1>6. \A t \in Publisher : pc'[t] = "waiting" => ~connected'
  BY <1>1, Publishers DEF WayInv
<1>7. \A y : ~Behind(ready', Network, y)
  BY <1>3 DEF Behind, Contains
<1> QED  BY <1>2, <1>4, <1>5, <1>6, <1>7, Publishers DEF WayInv, Usable

LEMMA StepWay == Inv /\ QueueInv /\ WayInv /\ [Next]_vars => WayInv'
<1> SUFFICES ASSUME Inv, QueueInv, WayInv, [Next]_vars PROVE WayInv'
  OBVIOUS
<1>1. CASE LoopStep
  <2>1. ASSUME NEW t \in Publisher, Begin(t) \/ Resume(t) \/ Reconnect(t) \/ Recreate(t)
        PROVE  WayInv'
    BY <2>1, BeginWay, ReconnectWay
  <2>2. CASE Closed
    BY <2>2 DEF Closed, WayInv, Smooth
  <2> QED
    BY <1>1, <2>1, <2>2, AttemptWay, ConnectedWay, DisconnectedWay, OpenWay DEF LoopStep, Publisher
<1>2. CASE EnterFails \/ Enter \/ BirthPublished \/ Subscribed \/ ConnectRaises
  BY <1>2, EnterWay, BirthWay
<1>3. ASSUME NEW s \in Slot, Take(s) \/ Published(s) \/ Timeout(s) PROVE WayInv'
  <2>1. CASE Take(s)
    BY <2>1, TakeWay, Publishers DEF Take, To, client, Smooth
  <2>2. CASE Timeout(s)
    BY <2>2 DEF Timeout, Cancelled, WayInv, Smooth
  <2> QED  BY <1>3, <2>1, <2>2, PublishedWay
<1>4. ASSUME NEW t \in Slot \cup {Main}, FailAlone(t) PROVE WayInv'
  BY <1>4 DEF FailAlone, WayInv, Smooth
<1>5. CASE Stop \/ Shut \/ ShutPublished
  BY <1>5 DEF Stop, Shut, ShutPublished, WayInv, Smooth
<1>6. CASE Open \/ Receive \/ Exit
  BY <1>6, OpenWay, ReceiveWay, ExitWay
<1>7. CASE LinkChanges \/ Die \/ Hear \/ PublishWill \/ UNCHANGED vars
  BY <1>7, OutsideWay, HearWay
<1> QED BY <1>1, <1>2, <1>3, <1>4, <1>5, <1>6, <1>7 DEF Next

-----------------------------------------------------------------------------
(* The order of the availabilities.                                          *)

\* u publishes after t: who calls is before who waits, who waits is before who
\* was held up and waits again, and who has only started is last.
After(u, t) ==
  \/ pc[t] = "calling" /\ pc[u] # "calling"
  \/ pc[t] = "waiting" /\ pc[u] \in Held \cup {"created"}
  \/ pc[t] \in Held /\ pc[u] = "created"
  \/ Behind(calls, t, u)
  \/ Behind(line, t, u)
  \/ Behind(ready, t, u) /\ (pc[t] \in Held \/ pc[u] = "created")

Active(t) == pc[t] # "idle"
LastOf(t) == Active(t) /\ \A u \in Slot : Active(u) /\ u # t => ~After(u, t)
LastCall(t) == pc[t] = "calling" /\ \A u \in Slot : ~Behind(calls, t, u)

\* The link is the last that waits for a slot, else what the last slot
\* publishes, else what is shown; and shown is what the last call says.
OrderInv ==
  /\ link = "new" => backlog = <<>> /\ \A s \in Slot : ~Active(s)
  /\ Smooth /\ link # "new" =>
       /\ backlog # <<>> => Last(backlog) = link
       /\ backlog = <<>> => \A t \in Slot : LastOf(t) => message[t] = link
       /\ \A t \in Slot : LastCall(t) => shown = message[t]
       /\ backlog = <<>> /\ (\A s \in Slot : ~Active(s)) => shown = link

LEMMA InitOrder == Init => OrderInv
BY Names DEF Init, OrderInv, Active

\* A step in which the slots stay in order.
LEMMA Keeps ==
  ASSUME OrderInv, Smooth' => Smooth, UNCHANGED <<link, backlog, message>>,
         \A s \in Slot : Active(s)' <=> Active(s),
         Smooth' => /\ \A t, u \in Slot : t # u /\ Active(t) /\ Active(u) /\ After(u, t) => After(u, t)'
                    /\ \A t \in Slot : LastCall(t)' => shown' = message[t]
                    /\ shown' = shown \/ \E s \in Slot : Active(s)
  PROVE  OrderInv'
<1>1. link' = "new" => backlog' = <<>> /\ \A s \in Slot : ~Active(s)'
  BY DEF OrderInv
<1> SUFFICES ASSUME Smooth', link' # "new"
             PROVE  /\ backlog' # <<>> => Last(backlog') = link'
                    /\ backlog' = <<>> => \A t \in Slot : LastOf(t)' => message'[t] = link'
                    /\ \A t \in Slot : LastCall(t)' => shown' = message'[t]
                    /\ backlog' = <<>> /\ (\A s \in Slot : ~Active(s)') => shown' = link'
  BY <1>1 DEF OrderInv
<1>2. \A t \in Slot : LastOf(t)' => LastOf(t)
  <2> SUFFICES ASSUME NEW t \in Slot, LastOf(t)', NEW u \in Slot, Active(u), u # t, After(u, t)
               PROVE  FALSE
    BY DEF LastOf
  <2>1. Active(t)' /\ Active(u)' /\ Active(t)
    BY DEF LastOf
  <2>2. After(u, t)'
    BY <2>1
  <2> QED  BY <2>1, <2>2 DEF LastOf
<1> QED  BY <1>2 DEF OrderInv

\* A queue that another joins.
LEMMA JoinedByOther ==
  ASSUME NEW S, NEW s \in Seq(S), NEW x \in S, NEW t, NEW u, u # x
  PROVE  Behind(Append(s, x), t, u) <=> Behind(s, t, u)
BY Appended

\* A step that leaves the slots where they are.
LEMMA Stays ==
  ASSUME OrderInv, Smooth' => Smooth, UNCHANGED <<link, backlog, message, shown>>,
         \A s \in Slot : pc'[s] = pc[s],
         \A t, u \in Slot : /\ Behind(line', t, u) <=> Behind(line, t, u)
                            /\ Behind(calls', t, u) <=> Behind(calls, t, u)
                            /\ Behind(ready', t, u) <=> Behind(ready, t, u)
  PROVE  OrderInv'
<1>1. \A s \in Slot : Active(s)' <=> Active(s)
  BY DEF Active
<1>2. \A t, u \in Slot : After(u, t) => After(u, t)'
  BY DEF After
<1>3. \A t \in Slot : LastCall(t)' => LastCall(t)
  BY DEF LastCall
<1>4. link # "new" /\ Smooth' => \A t \in Slot : LastCall(t)' => shown' = message[t]
  BY <1>3 DEF OrderInv
<1>5. link = "new" => \A t \in Slot : ~LastCall(t)'
  BY <1>1 DEF OrderInv, LastCall, Active
<1> QED  BY <1>1, <1>2, <1>4, <1>5, Keeps

\* Where the slots are, when all goes well.
LEMMA Slots ==
  ASSUME Inv, QueueInv, WayInv
  PROVE  /\ SeqInv /\ PlaceInv /\ pc \in [Task -> Places]
         /\ \A t \in Slot :
              /\ t \in Publisher /\ t \in Task /\ t \in Runnable
              /\ t # Main /\ t # Receiver /\ t # Connector /\ t # Network
              /\ Contains(line, t) <=> pc[t] = "waiting"
              /\ Contains(calls, t) <=> pc[t] = "calling"
              /\ Contains(ready, t) <=> pc[t] \in Held \cup {"created", "left"}
              /\ Smooth => pc[t] \in Held \cup {"idle", "created", "waiting", "calling"}
         /\ \A q \in {line, calls, ready} :
              \A y, z : Behind(q, y, z) => Contains(q, y) /\ Contains(q, z)
<1>1. \A t \in Slot : /\ t \in Publisher /\ t \in Task /\ t \in Runnable
                      /\ t # Main /\ t # Receiver /\ t # Connector /\ t # Network
  BY Publishers, Names
<1>2. SeqInv /\ PlaceInv /\ pc \in [Task -> Places]
  BY DEF QueueInv, Inv, Kinds
<1>3. \A q \in {line, calls, ready} :
        \A y, z : Behind(q, y, z) => Contains(q, y) /\ Contains(q, z)
  BY DEF Behind, Contains
<1>4. ASSUME NEW t \in Slot
      PROVE  /\ Contains(line, t) <=> pc[t] = "waiting"
             /\ Contains(calls, t) <=> pc[t] = "calling"
             /\ Contains(ready, t) <=> pc[t] \in Held \cup {"created", "left"}
             /\ Smooth => pc[t] \in Held \cup {"idle", "created", "waiting", "calling"}
  <2>1. t \in Task /\ pc[t] \in Places
    BY <1>1, <1>2
  <2> QED  BY <1>2, <2>1 DEF PlaceInv, Held, Places, WayInv
<1> QED  BY <1>1, <1>2, <1>3, <1>4

LEMMA TakeOrder ==
  ASSUME Inv, QueueInv, WayInv, OrderInv, OtherKinds, NEW s \in Slot, Take(s)  PROVE OrderInv'
<1>1. /\ pc[s] = "idle" /\ backlog # <<>> /\ backlog' = Tail(backlog) /\ backlog \in Seq(Available)
      /\ message' = [message EXCEPT ![s] = Head(backlog)] /\ message \in [Slot -> Available]
      /\ pc' = [pc EXCEPT ![s] = "created"] /\ ready' = Append(ready, s)
      /\ UNCHANGED <<phase, trouble, line, calls, link, shown>> /\ link # "new"
  BY DEF Take, To, broker, OtherKinds, OrderInv
<1> SUFFICES ASSUME Smooth'
             PROVE  /\ backlog' # <<>> => Last(backlog') = link'
                    /\ backlog' = <<>> => \A t \in Slot : LastOf(t)' => message'[t] = link'
                    /\ \A t \in Slot : LastCall(t)' => shown' = message'[t]
                    /\ \E t \in Slot : Active(t)'
  BY <1>1 DEF OrderInv
<1>2. Smooth
  BY <1>1 DEF Smooth
<1>3. Last(backlog) = link
  BY <1>1, <1>2 DEF OrderInv
<1>4. /\ backlog' # <<>> => Last(backlog') = link
      /\ backlog' = <<>> => Head(backlog) = link
  <2>1. Len(backlog) \in Nat \ {0} /\ Len(Tail(backlog)) = Len(backlog) - 1
        /\ \A i \in 1..(Len(backlog) - 1) : Tail(backlog)[i] = backlog[i + 1]
    BY <1>1
  <2>2. CASE Len(backlog) = 1
    <3>1. Head(backlog) = link /\ backlog' = <<>>
      BY <1>1, <1>3, <2>1, <2>2 DEF Last
    <3> QED  BY <3>1
  <2>3. CASE Len(backlog) # 1
    <3>1. Len(backlog) - 1 \in 1..(Len(backlog) - 1) /\ backlog' # <<>>
      BY <1>1, <2>1, <2>3
    <3> QED  BY <1>1, <1>3, <2>1, <3>1 DEF Last
  <2> QED  BY <2>2, <2>3
<1>5. /\ SeqInv /\ pc \in [Task -> Places]
      /\ \A y, z : Behind(ready', y, z) <=> Behind(ready, y, z) \/ (Contains(ready, y) /\ z = s)
  BY <1>1, Slots, Appended DEF SeqInv
<1>6. pc'[s] = "created" /\ s \in Task
  BY <1>1, Slots
<1>7. \A t \in Slot : t # s => pc'[t] = pc[t] /\ message'[t] = message[t]
  BY <1>1, Slots
<1>8. ASSUME NEW t \in Slot, LastOf(t)'  PROVE t = s
  <2> SUFFICES ASSUME t # s  PROVE FALSE
    OBVIOUS
  <2>1. ~After(s, t)' /\ pc[t] # "idle"
    BY <1>6, <1>7, <1>8 DEF LastOf, Active
  <2>2. pc[t] = "created" => Contains(ready, t)
    BY Slots
  <2>3. pc[t] \in Held \cup {"created", "waiting", "calling"}
    BY <1>2, <2>1, Slots
  <2> QED  BY <1>5, <1>6, <1>7, <2>1, <2>2, <2>3 DEF After
<1>9. ASSUME NEW t \in Slot, LastCall(t)'  PROVE shown' = message'[t]
  <2>1. t # s /\ LastCall(t)
    BY <1>1, <1>6, <1>7, <1>9 DEF LastCall
  <2> QED  BY <1>1, <1>2, <1>7, <2>1 DEF OrderInv
<1> QED  BY <1>1, <1>4, <1>6, <1>8, <1>9 DEF Active

\* A call that is made, or raises at once.
LEMMA CallOrder ==
  ASSUME Inv, QueueInv, WayInv, OrderInv, NEW s \in Slot, Begin(s) \/ Resume(s), Call(s, Rest)
  PROVE  OrderInv'
<1>1. /\ pc[s] \in {"created", "woken"}
      /\ ready # <<>> /\ Head(ready) = s /\ UNCHANGED <<phase, line, session, link, backlog, message>>
      /\ pc[s] = "created" => connected
  BY DEF Begin, Resume, Runs, client, device, AwaitAndCall, Call, Await, To
<1>2. Smooth' => /\ Smooth
                 /\ session # "dead"
                 /\ pc[s] = "created" => \A t \in Slot : pc[t] \notin Held
  BY DEF Begin, Resume, Mishaps, Smooth, Held, Runs
<1>3. /\ SeqInv /\ pc \in [Task -> Places] /\ s \in Task /\ s \in Runnable
      /\ Rest \in Seq(Runnable)
      /\ \A y : Contains(Rest, y) <=> Contains(ready, y) /\ y # s
      /\ \A y, z : Behind(Rest, y, z) <=> Behind(ready, y, z) /\ y # s
      /\ \A y : ~Behind(ready, y, s)
  BY <1>1, Slots, TailOf DEF SeqInv, Rest
<1>4. CASE Usable
  <2>1. /\ calls' = Append(calls, s) /\ pc' = [pc EXCEPT ![s] = "calling"] /\ ready' = Rest
        /\ Smooth' => shown' = message[s]
    BY <1>2, <1>4 DEF Call, To, Usable
  <2>2. \A y, z : Behind(calls', y, z) <=> Behind(calls, y, z) \/ (Contains(calls, y) /\ z = s)
    BY <1>3, <2>1, Appended DEF SeqInv
  <2>3. pc'[s] = "calling" /\ \A t \in Slot : t # s => pc'[t] = pc[t]
    BY <1>3, <2>1, Slots
  <2>4. ASSUME Smooth'  PROVE connected /\ \A t \in Slot : pc[t] # "waiting"
    <3>1. connected
      BY <1>1, <1>2, <1>4, <2>4, Slots DEF WayInv, Held
    <3> QED  BY <1>2, <2>4, <3>1, Slots DEF WayInv
  <2>5. ASSUME Smooth', NEW t \in Slot, NEW u \in Slot, t # u, Active(t), Active(u), After(u, t)
        PROVE  After(u, t)'
    <3>1. CASE t = s
      BY <1>1, <2>2, <2>3, <2>5, <3>1, Slots DEF After, Held
    <3>2. CASE u = s
      BY <1>1, <1>2, <1>3, <2>2, <2>3, <2>4, <2>5, <3>2, Slots DEF After, Held
    <3>3. CASE t # s /\ u # s
      BY <1>1, <1>3, <2>1, <2>2, <2>3, <2>5, <3>3 DEF After
    <3> QED  BY <3>1, <3>2, <3>3
  <2>6. ASSUME Smooth', NEW t \in Slot, LastCall(t)'  PROVE shown' = message[t]
    BY <2>1, <2>2, <2>3, <2>6, Slots DEF LastCall
  <2>7. \A t \in Slot : Active(t)' <=> Active(t)
    BY <1>1, <2>3 DEF Active
  <2>8. Active(s)
    BY <1>1 DEF Active
  <2> QED  BY <1>1, <1>2, <2>5, <2>6, <2>7, <2>8, Keeps
<1>5. CASE ~Usable
  <2>1. ready' = <<s>> \o Rest /\ pc' = [pc EXCEPT ![s] = "failed"] /\ UNCHANGED <<calls, shown>>
    BY <1>5 DEF Call, To
  <2>2. \A y, z : Behind(ready', y, z) <=> Behind(ready, y, z)
    <3> DEFINE v == <<s>>
    <3>1. /\ v \in Seq(Runnable) /\ (\A y : Contains(v, y) <=> y = s) /\ ready' = v \o Rest
          /\ \A y, z : ~Behind(v, y, z)
      BY <1>3, <2>1, Single
    <3>2. \A y, z : Behind(ready, y, z) => Contains(ready, z) /\ Contains(ready, y)
      BY DEF Behind, Contains
    <3>3. \A y : Contains(ready, y) /\ y # s => Behind(ready, s, y)
      BY <1>1, <1>3, TailOf DEF SeqInv
    <3> HIDE DEF v
    <3> QED  BY <1>3, <3>1, <3>2, <3>3, Joined
  <2>3. pc'[s] = "failed" /\ \A t \in Slot : t # s => pc'[t] = pc[t]
    BY <1>3, <2>1, Slots
  <2>4. ASSUME Smooth', NEW t \in Slot, NEW u \in Slot, t # u, Active(t), Active(u), After(u, t)
        PROVE  After(u, t)'
    <3>1. CASE t = s
      BY <1>1, <2>1, <2>2, <2>3, <2>4, <3>1, Slots DEF After, Held
    <3>2. CASE u = s
      BY <1>1, <1>2, <1>3, <2>1, <2>2, <2>3, <2>4, <3>2, Slots DEF After, Held
    <3>3. CASE t # s /\ u # s
      BY <1>1, <2>1, <2>2, <2>3, <2>4, <3>3 DEF After
    <3> QED  BY <3>1, <3>2, <3>3
  <2>5. \A t \in Slot : LastCall(t)' => LastCall(t)
    BY <2>1, <2>3 DEF LastCall
  <2>6. \A t \in Slot : Active(t)' <=> Active(t)
    BY <1>1, <2>3 DEF Active
  <2>7. Active(s)
    BY <1>1 DEF Active
  <2>8. link # "new"
    BY <2>7 DEF OrderInv
  <2> QED  BY <1>1, <1>2, <2>1, <2>4, <2>5, <2>6, <2>8, Keeps DEF OrderInv
<1> QED  BY <1>4, <1>5

\* A slot that begins to wait, or waits again behind those that wait.
LEMMA AwaitOrder ==
  ASSUME Inv, QueueInv, WayInv, OrderInv, NEW s \in Slot, Smooth' => Smooth,
         ready # <<>>, Head(ready) = s, pc[s] \in {"created", "failed"},
         Smooth' /\ pc[s] = "created" => \A t \in Slot : pc[t] \notin Held,
         line' = Append(line, s), pc' = [pc EXCEPT ![s] = "waiting"],
         ready' = Rest \/ (ready' = Append(Rest, Connector) /\ ~Contains(ready, Connector)),
         UNCHANGED <<calls, link, backlog, message, shown>>
  PROVE  OrderInv'
<1>1. /\ SeqInv /\ pc \in [Task -> Places] /\ s \in Task
      /\ \A y, z : Behind(line', y, z) <=> Behind(line, y, z) \/ (Contains(line, y) /\ z = s)
  BY Slots, Appended DEF SeqInv
<1>2. /\ \A y, z : z # Connector => (Behind(ready', y, z) <=> Behind(ready, y, z) /\ y # s)
      /\ \A y : ~Behind(ready, y, s)
  <2>1. /\ \A y, z : Behind(Rest, y, z) <=> Behind(ready, y, z) /\ y # s
        /\ \A y : ~Behind(ready, y, s)
    BY <1>1, Running
  <2>2. CASE ready' = Rest
    BY <2>1, <2>2
  <2>3. CASE ready' = Append(Rest, Connector) /\ ~Contains(ready, Connector)
    BY <1>1, <2>1, <2>3, Scheduled
  <2> QED  BY <2>2, <2>3
<1>3. pc'[s] = "waiting" /\ \A t \in Slot : t # s => pc'[t] = pc[t]
  BY <1>1, Slots
<1>4. ASSUME Smooth', NEW t \in Slot, NEW u \in Slot, t # u, Active(t), Active(u), After(u, t)
      PROVE  After(u, t)'
  <2>1. CASE t = s
    <3>1. pc[u] \in Held \cup {"created"}
      BY <1>4, <2>1, Slots DEF After, Held
    <3> QED  BY <1>3, <1>4, <2>1, <3>1 DEF After
  <2>2. CASE u = s
    <3>1. pc[t] \in {"calling", "waiting"}
      BY <1>2, <1>4, <2>2, Slots DEF After, Held
    <3>2. pc[t] = "waiting" => Contains(line, t)
      BY Slots
    <3> QED  BY <1>1, <1>3, <1>4, <2>2, <3>1, <3>2 DEF After
  <2>3. CASE t # s /\ u # s
    BY <1>1, <1>2, <1>3, <1>4, <2>3, Slots DEF After
  <2> QED  BY <2>1, <2>2, <2>3
<1>5. \A t \in Slot : LastCall(t)' => LastCall(t)
  BY <1>3 DEF LastCall
<1>6. (\A t \in Slot : Active(t)' <=> Active(t)) /\ Active(s)
  BY <1>3 DEF Active
<1>7. link # "new"
  BY <1>6 DEF OrderInv
<1> QED  BY <1>4, <1>5, <1>6, <1>7, Keeps DEF OrderInv

LEMMA BeginOrder ==
  ASSUME Inv, QueueInv, WayInv, OrderInv, NEW s \in Slot, Begin(s) \/ Resume(s)  PROVE OrderInv'
<1>1. CASE Call(s, Rest)
  BY <1>1, CallOrder
<1>2. CASE Await(s, Rest) /\ Begin(s) /\ UNCHANGED <<calls, shown>>
  <2>1. /\ ready # <<>> /\ Head(ready) = s /\ pc[s] = "created" /\ UNCHANGED <<link, backlog, message>>
        /\ line' = Append(line, s) /\ pc' = [pc EXCEPT ![s] = "waiting"] /\ ready' = Rest
    BY <1>2 DEF Begin, Runs, Await, To, device
  <2>2. Smooth' => Smooth /\ \A t \in Slot : pc[t] \notin Held
    BY <1>2 DEF Begin, Mishaps, Smooth, Held, Runs
  <2> QED  BY <1>2, <2>1, <2>2, AwaitOrder
<1> QED  BY <1>1, <1>2 DEF Begin, Resume, AwaitAndCall

LEMMA ReconnectOrder ==
  ASSUME Inv, QueueInv, WayInv, OrderInv, NEW s \in Slot, Reconnect(s) \/ Recreate(s)
  PROVE  OrderInv'
<1>1. CASE Leave(s) \/ Recreate(s)
  <2>1. pc[s] \in {"failed", "left"} /\ Active(s) /\ link' = link
    BY <1>1 DEF Leave, Recreate, Runs, Active, device
  <2>2. ~Smooth'
    <3> SUFFICES ASSUME Smooth'  PROVE FALSE
      OBVIOUS
    <3>1. Smooth
      BY <1>1 DEF Leave, Recreate, Smooth
    <3> QED  BY <1>1, <3>1, Slots DEF Leave, Recreate, Runs, WayInv
  <2> QED  BY <2>1, <2>2 DEF OrderInv
<1>2. CASE AwaitOther(s) \/ LeaveLost(s)
  <2>1. /\ ready # <<>> /\ Head(ready) = s /\ pc[s] = "failed"
        /\ UNCHANGED <<calls, link, backlog, message, shown>>
        /\ line' = Append(line, s) /\ pc' = [pc EXCEPT ![s] = "waiting"]
        /\ Smooth' => Smooth
    BY <1>2 DEF AwaitOther, LeaveLost, Runs, Await, To, device, broker, Smooth
  <2>2. ready' = Rest \/ (ready' = Append(Rest, Connector) /\ ~Contains(ready, Connector))
    <3>1. LeaveLost(s) => ~Contains(ready, Connector)
      BY DEF LeaveLost, QueueInv, CallbackInv, Inv, SessionInv, Connecting
    <3> QED  BY <1>2, <3>1 DEF AwaitOther, LeaveLost, Await
  <2> QED  BY <2>1, <2>2, AwaitOrder
<1> QED  BY <1>1, <1>2 DEF Reconnect

\* Who has published was the first, and so is the last when nobody is left.
LEMMA PublishedOrder ==
  ASSUME Inv, QueueInv, WayInv, OrderInv, NEW s \in Slot, Published(s)  PROVE OrderInv'
<1>1. /\ pc[s] = "calling" /\ Head(RemoveFirst(calls, Receiver)) = s
      /\ pc' = [pc EXCEPT ![s] = "idle"] /\ calls' = RemoveFirst(calls, s)
      /\ UNCHANGED <<phase, trouble, line, ready, link, backlog, message, shown>>
  BY DEF Published, To, broker, device
<1>2. s \in Task /\ s # Receiver /\ SeqInv /\ pc \in [Task -> Places] /\ Contains(calls, s)
  BY <1>1, Slots
<1>3. /\ calls \in Seq(Task) /\ Distinct(calls)
      /\ \A y, z : Behind(calls', y, z) <=> Behind(calls, y, z) /\ y # s /\ z # s
  BY <1>1, <1>2, Removed DEF SeqInv
<1>4. \A t \in Slot : ~Behind(calls, t, s)
  <2> DEFINE r == RemoveFirst(calls, Receiver)
  <2>1. /\ r \in Seq(Task) /\ Distinct(r)
        /\ \A y : Contains(r, y) <=> Contains(calls, y) /\ y # Receiver
        /\ \A y, z : Behind(r, y, z) <=> Behind(calls, y, z) /\ y # Receiver /\ z # Receiver
    BY <1>3, Removed
  <2>2. r # <<>>
    BY <1>2, <2>1, Empty
  <2>3. Head(r) = s
    BY <1>1
  <2> HIDE DEF r
  <2>4. \A y : ~Behind(r, y, s)
    BY <2>1, <2>2, <2>3, TailOf
  <2> QED  BY <1>2, <2>1, <2>4, Slots
<1>5. pc'[s] = "idle" /\ \A t \in Slot : t # s => pc'[t] = pc[t]
  BY <1>1, <1>2, Slots
<1>6. link # "new" /\ (Smooth' => Smooth)
  BY <1>1 DEF OrderInv, Active, Smooth
<1> SUFFICES ASSUME Smooth
             PROVE  /\ backlog = <<>> => \A t \in Slot : LastOf(t)' => message[t] = link
                    /\ \A t \in Slot : LastCall(t)' => shown = message[t]
                    /\ backlog = <<>> /\ (\A t \in Slot : ~Active(t)') => shown = link
  BY <1>1, <1>6 DEF OrderInv
<1>7. \A t \in Slot : t # s => ~After(s, t)
  BY <1>1, <1>4, Slots DEF After, Held
<1>8. ASSUME NEW t \in Slot, LastOf(t)'  PROVE LastOf(t)
  <2>1. t # s /\ Active(t)
    BY <1>5, <1>8 DEF LastOf, Active
  <2> SUFFICES ASSUME NEW u \in Slot, Active(u), u # t, After(u, t)  PROVE FALSE
    BY <2>1 DEF LastOf
  <2>2. u # s
    BY <1>7, <2>1
  <2>3. Active(u)' /\ After(u, t)'
    BY <1>1, <1>3, <1>5, <2>1, <2>2 DEF After, Active
  <2> QED  BY <1>8, <2>3 DEF LastOf
<1>9. ASSUME NEW t \in Slot, LastCall(t)'  PROVE LastCall(t)
  <2>1. t # s
    BY <1>5, <1>9 DEF LastCall
  <2> QED  BY <1>3, <1>4, <1>5, <1>9, <2>1 DEF LastCall
<1>10. ASSUME backlog = <<>>, \A t \in Slot : ~Active(t)'  PROVE shown = link
  <2>1. \A t \in Slot : t # s => ~Active(t)
    BY <1>5, <1>10 DEF Active
  <2>2. LastOf(s)
    BY <1>1, <2>1 DEF LastOf, Active
  <2>3. LastCall(s)
    <3>1. \A u \in Slot : ~Behind(calls, s, u)
      <4> SUFFICES ASSUME NEW u \in Slot, Behind(calls, s, u)  PROVE FALSE
        OBVIOUS
      <4>1. Contains(calls, u)
        BY DEF Behind, Contains
      <4>2. u = s
        BY <2>1, <4>1, Slots DEF Active
      <4> QED  BY <1>4, <4>2
    <3> QED  BY <1>1, <3>1 DEF LastCall
  <2> QED  BY <1>6, <1>10, <2>2, <2>3 DEF OrderInv
<1> QED  BY <1>6, <1>8, <1>9, <1>10 DEF OrderInv

\* Who waits is woken in order: nobody was held up.
LEMMA ConnectedOrder ==
  ASSUME Inv, QueueInv, WayInv, OrderInv, Connected  PROVE OrderInv'
<1>1. /\ ready # <<>> /\ Head(ready) = Connector /\ connect = "entered"
      /\ ready' = Rest \o line
      /\ pc' = [t \in Task |-> IF pc[t] = "waiting" THEN "woken" ELSE pc[t]]
      /\ line' = <<>> /\ UNCHANGED <<calls, link, backlog, message, shown>>
      /\ Smooth' => Smooth
  BY DEF Connected, Smooth, device
<1>2. /\ SeqInv /\ line \in Seq(Runnable) /\ ~connected
      /\ Rest \in Seq(Runnable)
      /\ \A y, z : Behind(Rest, y, z) <=> Behind(ready, y, z) /\ y # Connector
  BY <1>1, AsRunnable, Running DEF QueueInv, SeqInv, Inv, SessionInv, Connecting
<1>3. \A y, z : Behind(ready', y, z) <=>
        Behind(Rest, y, z) \/ Behind(line, y, z) \/ (Contains(Rest, y) /\ Contains(line, z))
  BY <1>1, <1>2, Joined
<1>4. \A t \in Slot : pc'[t] = IF pc[t] = "waiting" THEN "woken" ELSE pc[t]
  BY <1>1, Slots
<1>5. ASSUME Smooth', NEW t \in Slot, NEW u \in Slot, t # u, Active(t), Active(u), After(u, t)
      PROVE  After(u, t)'
  <2>1. pc[t] \in {"created", "waiting"} /\ pc[u] \in {"created", "waiting"}
    BY <1>1, <1>2, <1>5, Slots DEF WayInv, Held, Active
  <2>2. \/ pc[t] = "waiting" /\ pc[u] = "created"
        \/ Behind(line, t, u) /\ pc[t] = "waiting" /\ pc[u] = "waiting"
        \/ Behind(ready, t, u) /\ pc[u] = "created"
    BY <1>5, <2>1, Slots DEF After, Held
  <2> QED  BY <1>2, <1>3, <1>4, <2>1, <2>2, Slots DEF After, Held
<1>6. \A t \in Slot : LastCall(t)' => LastCall(t)
  BY <1>1, <1>4 DEF LastCall
<1>7. \A t \in Slot : Active(t)' <=> Active(t)
  BY <1>4 DEF Active
<1>8. link = "new" => \A t \in Slot : ~LastCall(t)'
  BY <1>6 DEF OrderInv, Active, LastCall
<1> QED  BY <1>1, <1>5, <1>6, <1>7, <1>8, Keeps DEF OrderInv

\* The calls that raise go behind who was woken before the session ended, and
\* then there are none.
LEMMA DisconnectedOrder ==
  ASSUME Inv, QueueInv, WayInv, OrderInv, Disconnected  PROVE OrderInv'
<1>1. /\ calls' = <<>>
      /\ pc' = [t \in Task |-> CASE pc[t] = "calling" -> "failed"
                                  [] pc[t] = "leaving" -> "left"
                                  [] OTHER -> pc[t]]
      /\ UNCHANGED <<line, link, backlog, message, shown>>
      /\ Smooth' => Smooth
  BY DEF Disconnected, Ends, Smooth, device, broker
<1>2. \A t \in Slot : pc'[t] = CASE pc[t] = "calling" -> "failed"
                                 [] pc[t] = "leaving" -> "left"
                                 [] OTHER -> pc[t]
  BY <1>1, Slots
<1>3. /\ \A t, u \in Slot : Behind(ready, t, u) => Behind(ready', t, u)
      /\ \A t, u \in Slot : Behind(calls, t, u) => Behind(ready', t, u)
  BY Ended, Slots
<1>4. ASSUME Smooth, NEW u \in Slot, pc[u] \in Held  PROVE \A t \in Slot : pc[t] # "calling"
  <2>1. ready # <<>> /\ Head(ready) = Network /\ Contains(ready, u) /\ u # Network /\ SeqInv
    BY <1>4, Ended, Slots
  <2>2. Behind(ready, Network, u)
    BY <2>1, TailOf DEF SeqInv
  <2> QED  BY <1>4, <2>2 DEF WayInv
<1>5. ASSUME Smooth', NEW t \in Slot, NEW u \in Slot, t # u, Active(t), Active(u), After(u, t)
      PROVE  After(u, t)'
  <2>1. /\ Smooth
        /\ pc[t] \in Held \cup {"created", "waiting", "calling"}
        /\ pc[u] \in Held \cup {"created", "waiting", "calling"}
    BY <1>1, <1>5, Slots DEF Active
  <2>2. CASE pc[t] = "calling"
    <3>1. pc[u] \in {"created", "calling"}
      BY <1>4, <2>1, <2>2, Slots DEF WayInv
    <3>2. pc[u] = "calling" => Behind(calls, t, u)
      BY <1>5, <2>2, Slots DEF After, Held
    <3> QED  BY <1>2, <1>3, <2>2, <3>1, <3>2 DEF After, Held
  <2>3. CASE pc[t] # "calling"
    <3>1. pc[u] = "calling" => FALSE
      BY <1>4, <1>5, <2>1, <2>3, Slots DEF After, Held
    <3> QED  BY <1>1, <1>2, <1>3, <1>5, <2>1, <2>3, <3>1, Slots DEF After, Held
  <2> QED  BY <2>2, <2>3
<1>6. \A t \in Slot : ~LastCall(t)'
  BY <1>2 DEF LastCall
<1>7. \A t \in Slot : Active(t)' <=> Active(t)
  BY <1>2 DEF Active
<1> QED  BY <1>1, <1>5, <1>6, <1>7, Keeps

\* What the connect task, the network and the manager do leaves the slots.
LEMMA CallbackOrder ==
  ASSUME Inv, QueueInv, WayInv, OrderInv,
         Attempt \/ EnterFails \/ Enter \/ BirthPublished \/ Subscribed \/ ConnectRaises \/ Hear
  PROVE  OrderInv'
<1>1. /\ UNCHANGED <<phase, pc, line, calls, link, backlog, message, shown>>
      /\ Smooth' => Smooth
  BY DEF Attempt, EnterFails, Enter, BirthPublished, Subscribed, ConnectRaises, Hear, Smooth,
    broker, device
<1>2. \/ ready # <<>> /\ Head(ready) = Connector /\ ready' = Rest
      \/ ready' = Append(ready, Connector)
      \/ ready' = Append(ready, Network)
      \/ ready' = ready
  BY DEF Attempt, EnterFails, Enter, BirthPublished, Subscribed, ConnectRaises, Hear
<1>3. \A t, u \in Slot : Behind(ready', t, u) <=> Behind(ready, t, u)
  <2>1. SeqInv /\ ready \in Seq(Runnable) /\ \A t \in Slot : t # Connector /\ t # Network
    BY Slots DEF SeqInv
  <2>2. CASE ready # <<>> /\ Head(ready) = Connector /\ ready' = Rest
    BY <2>1, <2>2, Running
  <2>3. CASE ready' = Append(ready, Connector)
    BY <2>1, <2>3, Appended, Callbacks
  <2>4. CASE ready' = Append(ready, Network)
    BY <2>1, <2>4, Appended, Callbacks
  <2> QED  BY <1>2, <2>2, <2>3, <2>4
<1> QED  BY <1>1, <1>3, Stays

\* So does what the task that receives does.
LEMMA ReceiverOrder ==
  ASSUME Inv, QueueInv, WayInv, OrderInv,
         Begin(Receiver) \/ Resume(Receiver) \/ Reconnect(Receiver) \/ Recreate(Receiver)
  PROVE  OrderInv'
<1>1. /\ Receiver \notin Slot /\ Receiver \in Task /\ SeqInv /\ pc \in [Task -> Places]
      /\ ready # <<>> /\ Head(ready) = Receiver /\ Receiver \in Runnable
  BY Names, Slots, Publishers
    DEF Begin, Resume, Reconnect, Leave, LeaveLost, AwaitOther, Recreate, Runs, Publisher
<1>2. /\ UNCHANGED <<link, backlog, message, shown>>
      /\ Smooth' => Smooth
      /\ \E p \in Places : pc' = [pc EXCEPT ![Receiver] = p]
      /\ line' = line \/ line' = Append(line, Receiver)
      /\ calls' = calls \/ calls' = Append(calls, Receiver)
      /\ \/ ready' = Rest
         \/ ready' = <<Receiver>> \o Rest
         \/ ready' = Append(Rest, Connector)
  BY <1>1 DEF Begin, Resume, Reconnect, Leave, LeaveLost, AwaitOther, Recreate, Smooth, device, broker,
    AwaitAndCall, Call, Await, To, Places
<1>3. \A y, z : Behind(Rest, y, z) <=> Behind(ready, y, z) /\ y # Receiver
  BY <1>1, Running
<1>4. ASSUME NEW t \in Slot, NEW u \in Slot
      PROVE  Behind(ready', t, u) <=> Behind(ready, t, u)
  <2>1. t # Receiver /\ u # Receiver /\ u # Connector /\ Rest \in Seq(Runnable)
    BY <1>1, Slots, Running
  <2>2. CASE ready' = Rest
    BY <1>3, <2>1, <2>2
  <2>3. CASE ready' = Append(Rest, Connector)
    BY <1>3, <2>1, <2>3, Appended, Callbacks
  <2>4. CASE ready' = <<Receiver>> \o Rest
    <3> DEFINE v == <<Receiver>>
    <3>1. /\ v \in Seq(Runnable) /\ (\A y : Contains(v, y) <=> y = Receiver) /\ ready' = v \o Rest
          /\ \A y, z : ~Behind(v, y, z)
      BY <1>1, <2>4, Single
    <3> HIDE DEF v
    <3> QED  BY <1>3, <2>1, <3>1, Joined
  <2> QED  BY <1>2, <2>2, <2>3, <2>4
<1>5. \A t, u \in Slot : (Behind(line', t, u) <=> Behind(line, t, u))
                         /\ (Behind(calls', t, u) <=> Behind(calls, t, u))
  <2>1. /\ line \in Seq(Task) /\ calls \in Seq(Task)
        /\ \A t \in Slot : t # Receiver
    BY <1>1 DEF SeqInv
  <2>2. /\ \A t, u \in Slot : Behind(Append(line, Receiver), t, u) <=> Behind(line, t, u)
        /\ \A t, u \in Slot : Behind(Append(calls, Receiver), t, u) <=> Behind(calls, t, u)
    BY <1>1, <2>1, JoinedByOther
  <2> QED  BY <1>2, <2>2
<1>6. \A s \in Slot : pc'[s] = pc[s]
  BY <1>1, <1>2, Slots
<1> QED  BY <1>2, <1>4, <1>5, <1>6, Stays

LEMMA ManagerOrder ==
  ASSUME Inv, QueueInv, WayInv, OrderInv, Open \/ Opened \/ Receive  PROVE OrderInv'
<1>1. /\ Main \notin Slot /\ Receiver \notin Slot /\ Main \in Task /\ Receiver \in Runnable
      /\ SeqInv /\ pc \in [Task -> Places]
  BY Names, Slots, Publishers DEF Publisher
<1>2. /\ UNCHANGED <<calls, link, backlog, message, shown>>
      /\ Smooth' => Smooth
      /\ \E t \in {Main, Receiver}, p \in Places : pc' = [pc EXCEPT ![t] = p]
      /\ line' = line \/ line' = Append(line, Main)
      /\ \/ ready # <<>> /\ Head(ready) = Main /\ ready' = Rest
         \/ \E y \in {Connector, Receiver} : ready' = Append(ready, y)
  BY DEF Open, Opened, Receive, Runs, Await, To, Smooth, broker, device, Places
<1>3. \A t, u \in Slot : Behind(ready', t, u) <=> Behind(ready, t, u)
  <2>1. ready \in Seq(Runnable) /\ \A t \in Slot : t # Main /\ t # Receiver /\ t # Connector
    BY <1>1, Slots DEF SeqInv
  <2>2. CASE ready # <<>> /\ Head(ready) = Main /\ ready' = Rest
    BY <1>1, <2>1, <2>2, Running
  <2>3. ASSUME NEW y \in {Connector, Receiver}, ready' = Append(ready, y)
        PROVE  \A t, u \in Slot : Behind(ready', t, u) <=> Behind(ready, t, u)
    BY <1>1, <2>1, <2>3, Appended, Callbacks
  <2> QED  BY <1>2, <2>2, <2>3
<1>4. \A t, u \in Slot : Behind(line', t, u) <=> Behind(line, t, u)
  <2>1. line \in Seq(Task)
    BY <1>1 DEF SeqInv
  <2>2. \A t, u \in Slot : Behind(Append(line, Main), t, u) <=> Behind(line, t, u)
    BY <1>1, <2>1, JoinedByOther
  <2> QED  BY <1>2, <2>2
<1>5. \A s \in Slot : pc'[s] = pc[s]
  BY <1>1, <1>2, Slots
<1> QED  BY <1>2, <1>3, <1>4, <1>5, Stays

\* The end of the manager.
LEMMA EndOrder ==
  ASSUME Inv, OrderInv, Shut \/ ShutPublished \/ Closed \/ Stop \/ Exit
  PROVE  OrderInv'
<1>1. CASE Shut \/ ShutPublished \/ Closed
  <2>1. phase' \notin {"new", "opening", "starting", "running"} /\ UNCHANGED <<link, backlog>>
    BY <1>1 DEF Shut, ShutPublished, Closed, device
  <2>2. \A s \in Slot : pc'[s] = pc[s]
    BY <1>1, Names DEF Shut, ShutPublished, Closed, To, Inv, Kinds
  <2> QED  BY <2>1, <2>2 DEF OrderInv, Smooth, Active
<1>2. CASE Stop
  BY <1>2 DEF Stop, OrderInv, Smooth
<1>3. CASE Exit
  BY <1>3, Names DEF Exit, OrderInv, Active
<1> QED  BY <1>1, <1>2, <1>3

\* A call that fails alone, or is cancelled.
LEMMA MishapOrder ==
  ASSUME Inv, OrderInv,
         \/ \E s \in Slot : Timeout(s)
         \/ \E t \in Slot \cup {Main} : FailAlone(t)
  PROVE  OrderInv'
<1>1. CASE \E s \in Slot : Timeout(s)
  BY <1>1, Names DEF Timeout, Cancelled, To, OrderInv, Smooth, Active, device, Inv, Kinds
<1>2. CASE \E t \in Slot \cup {Main} : FailAlone(t)
  <2>1. PICK t \in Slot \cup {Main} : FailAlone(t)
    BY <1>2
  <2>2. /\ ~Smooth' /\ UNCHANGED <<link, backlog>> /\ pc[t] # "idle"
        /\ pc' = [pc EXCEPT ![t] = "failed"]
    BY <2>1 DEF FailAlone, To, Smooth, device
  <2>3. link = "new" => \A s \in Slot : pc'[s] = pc[s]
    BY <2>2, Names DEF OrderInv, Active, Inv, Kinds
  <2> QED  BY <2>2, <2>3 DEF OrderInv, Active
<1> QED  BY <1>1, <1>2

LEMMA DeviceOrder ==
  ASSUME Inv, OrderInv, OtherKinds, LinkChanges \/ Die \/ PublishWill \/ UNCHANGED vars
  PROVE  OrderInv'
<1>1. UNCHANGED <<phase, trouble, pc, line, calls, ready, message, shown>>
  BY DEF LinkChanges, Die, PublishWill, vars, broker, device
<1>2. CASE LinkChanges
  <2>1. backlog' = Append(backlog, link') /\ backlog \in Seq(Available) /\ link' \in Available
    BY <1>2 DEF LinkChanges, OtherKinds, Available
  <2>2. backlog' # <<>> /\ Last(backlog') = link' /\ link' # "new"
    BY <2>1 DEF Last, Available
  <2>3. \A t \in Slot : LastCall(t)' => LastCall(t) /\ Active(t)
    BY <1>1 DEF LastCall, Active
  <2> QED  BY <1>1, <2>2, <2>3 DEF OrderInv, Smooth
<1>3. CASE UNCHANGED <<link, backlog>>
  BY <1>1, <1>3 DEF OrderInv, Smooth, LastOf, LastCall, Active, After
<1> QED  BY <1>2, <1>3 DEF LinkChanges, Die, PublishWill, vars, device

LEMMA StepOrder ==
  Inv /\ QueueInv /\ WayInv /\ OrderInv /\ OtherKinds /\ [Next]_vars => OrderInv'
<1> SUFFICES ASSUME Inv, QueueInv, WayInv, OrderInv, OtherKinds, [Next]_vars PROVE OrderInv'
  OBVIOUS
<1>1. CASE LoopStep
  <2>1. ASSUME NEW t \in Publisher, Begin(t) \/ Resume(t) \/ Reconnect(t) \/ Recreate(t)
        PROVE  OrderInv'
    BY <2>1, BeginOrder, ReconnectOrder, ReceiverOrder DEF Publisher
  <2> QED
    BY <1>1, <2>1, CallbackOrder, ConnectedOrder, DisconnectedOrder, ManagerOrder, EndOrder
      DEF LoopStep, Publisher
<1>2. CASE EnterFails \/ Enter \/ BirthPublished \/ Subscribed \/ ConnectRaises
  BY <1>2, CallbackOrder
<1>3. ASSUME NEW s \in Slot, Take(s) \/ Published(s) \/ Timeout(s) PROVE OrderInv'
  BY <1>3, TakeOrder, PublishedOrder, MishapOrder
<1>4. ASSUME NEW t \in Slot \cup {Main}, FailAlone(t) PROVE OrderInv'
  BY <1>4, MishapOrder
<1>5. CASE Open \/ Receive \/ Stop \/ Shut \/ ShutPublished \/ Exit
  BY <1>5, ManagerOrder, EndOrder
<1>6. CASE LinkChanges \/ Die \/ Hear \/ PublishWill \/ UNCHANGED vars
  BY <1>6, DeviceOrder, CallbackOrder
<1> QED BY <1>1, <1>2, <1>3, <1>4, <1>5, <1>6 DEF Next

\* Without a failed call, what is shown of the device in the end is what was
\* last said of it, with any number of slots: device.py line 106 gives every
\* availability a task, and each tries again at client.py lines 182 to 195.
THEOREM AvailabilityShown == Spec => []AvailabilityInOrder
<1>1. Inv /\ OrderInv => AvailabilityInOrder
  BY DEF OrderInv, AvailabilityInOrder, Smooth, Active
<1> QED
  BY <1>1, InitOtherKinds, InitOrder, InitWay, StepOrder, StepWay, StepOtherKinds, Invariance, Queues, PTL
    DEF Spec
=============================================================================
