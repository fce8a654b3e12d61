----------------------------- MODULE Connection -----------------------------
(***************************************************************************)
(* The connection to a device: the stream and the receive loop             *)
(* (tuya/transport.py), the heartbeat (tuya/heartbeat.py) and the keeper   *)
(* of the device's state (tuya/state.py), which the events of the          *)
(* connection start and stop.                                              *)
(*                                                                         *)
(* An event is emitted to listeners that do not suspend: the handler of a  *)
(* message, or of a change of the connection, is one action with all it    *)
(* makes the listeners do.  Messages are read whole or not at all.  Time   *)
(* is counted in intervals of the heartbeat.                               *)
(***************************************************************************)
EXTENDS DataPoints, Naturals, Sequences, SequencesExt

CONSTANTS
  LastWait,  \* the last index of the sequence of connection_backoff
  MaxQueue   \* bounds the messages in flight in each direction

ASSUME LastWaitAssumption == LastWait \in Nat
ASSUME MaxQueueAssumption == MaxQueue \in Nat \ {0}

Keepalive == 2  \* the watchdog's delay
Off == Keepalive + 1  \* the watchdog is not running

VARIABLES
  link,      \* the stream: "new", "connecting", "up", "dropped" or "closed"
  alive,     \* what is sent on the link arrives; false: it hangs, unnoticed
  outbox,    \* the commands on their way to the device
  inbox,     \* the messages that were received or are on their way
  device,    \* the values of the device
  keeper,    \* State._state; NoValues until the first response (None)
  watchdog,  \* the intervals since _reconnect_task was created, or Off
  periodic,  \* whether the heartbeat and the refresh are running
  errors,    \* _msg_errors
  wait,      \* the index of the backoff
  unheard,   \* the connection attempts since data was read, up to LastWait
  synced     \* keeper comes from a response of this link

vars == <<link, alive, outbox, inbox, device, keeper, watchdog, periodic, errors,
          wait, unheard, synced>>

Complete == {v \in Values : Keys(v) = DataPoint}

\* A message is one of the device's, or the empty read of a reconnection.
\* "other" stands for the responses to heartbeats and updates, for those that
\* carry an error, and for those without values.
Plain(kind) == [kind |-> kind, values |-> NoValues]
Message ==
  [kind : {"state"}, values : Complete] \cup [kind : {"status"}, values : Values]
    \cup {Plain(kind) : kind \in {"other", "garbled", "reset"}}

TypeOK ==
  /\ link \in {"new", "connecting", "up", "dropped", "closed"}
  /\ alive \in BOOLEAN /\ periodic \in BOOLEAN /\ synced \in BOOLEAN
  /\ outbox \in Seq({"heartbeat", "state"})
  /\ inbox \in Seq(Message)
  /\ device \in Complete /\ keeper \in Values
  /\ watchdog \in 0..Off
  /\ errors \in 0..3
  /\ wait \in 0..LastWait /\ unheard \in 0..LastWait

Init ==
  /\ link = "new" /\ alive = FALSE
  /\ outbox = <<>> /\ inbox = <<>>
  /\ device \in Complete /\ keeper = NoValues
  /\ watchdog = Off /\ periodic = FALSE
  /\ errors = 0 /\ wait = 0 /\ unheard = 0
  /\ synced = FALSE

-----------------------------------------------------------------------------
(* The stream.                                                              *)

\* TuyaConnectionClosed: the periodic tasks and the watchdog are cancelled.
Closed == watchdog' = Off /\ periodic' = FALSE

\* The transport closes or is lost: what was not delivered is lost.
Lost ==
  /\ link' = IF link = "up" THEN "dropped" ELSE link
  /\ outbox' = IF link = "up" THEN <<>> ELSE outbox
  /\ synced' = FALSE

\* SequenceBackoff.wait: the last delay of the sequence is repeated.
WaitPastEnd == wait + 1  \* seeded fault: the index leaves the sequence
NextWait == IF wait < LastWait THEN wait + 1 ELSE wait
Unheard == IF unheard < LastWait THEN unheard + 1 ELSE unheard

\* Transport.__aenter__.
Start ==
  /\ link = "new"
  /\ link' = "connecting"
  /\ UNCHANGED <<alive, outbox, inbox, device, keeper, watchdog, periodic, errors,
                 wait, unheard, synced>>

FailToConnect ==
  /\ link = "connecting"
  /\ wait' = NextWait
  /\ unheard' = Unheard
  /\ UNCHANGED <<link, alive, outbox, inbox, device, keeper, watchdog, periodic,
                 errors, synced>>

\* The link is up, and nothing is in flight but an empty read, behind what
\* may be left to read of the link before.
Connected ==
  /\ link = "connecting"
  /\ link' = "up" /\ alive' = TRUE
  /\ outbox' = <<>>
  /\ \E left \in {<<>>, inbox} :
       Len(left) <= MaxQueue /\ inbox' = Append(left, Plain("reset"))

\* Seeded fault: the watchdog starts with the first data.
ConnectUnwatched ==
  /\ Connected
  /\ watchdog' = Off /\ periodic' = TRUE
  /\ wait' = NextWait /\ unheard' = Unheard
  /\ UNCHANGED <<device, keeper, errors, synced>>

\* Seeded fault: to be connected resets the backoff.
ConnectHealthy ==
  /\ Connected
  /\ watchdog' = 0 /\ periodic' = TRUE
  /\ wait' = 0 /\ unheard' = Unheard
  /\ UNCHANGED <<device, keeper, errors, synced>>

\* TuyaConnectionEstablished: the periodic tasks and the watchdog are created.
Connect ==
  /\ Connected
  /\ watchdog' = 0 /\ periodic' = TRUE
  /\ wait' = NextWait /\ unheard' = Unheard
  /\ UNCHANGED <<device, keeper, errors, synced>>

\* TuyaStream._connect, called again after a loss.
Reconnect ==
  /\ link = "dropped"
  /\ link' = "connecting"
  /\ Closed
  /\ UNCHANGED <<alive, outbox, inbox, device, keeper, errors, wait, unheard, synced>>

\* Transport.__aexit__: the receive loop ends, then the stream.
Close ==
  /\ link \in {"connecting", "up", "dropped"}
  /\ link' = "closed"
  /\ Closed
  /\ outbox' = <<>> /\ inbox' = <<>>
  /\ synced' = FALSE
  /\ UNCHANGED <<alive, device, keeper, errors, wait, unheard>>

-----------------------------------------------------------------------------
(* Timers.                                                                  *)

\* A heartbeat is sent at each interval, in time to be answered before the
\* watchdog ends.
Sent == IF periodic /\ link = "up" /\ alive THEN Append(outbox, "heartbeat") ELSE outbox

\* Seeded fault: what is sent restarts the watchdog.
TickRestarting ==
  /\ watchdog \in 0..(Keepalive - 1)
  /\ watchdog' = IF periodic THEN 0 ELSE watchdog + 1
  /\ Len(outbox) < MaxQueue
  /\ outbox' = Sent
  /\ UNCHANGED <<link, alive, inbox, device, keeper, periodic, errors, wait, unheard,
                 synced>>

Tick ==
  /\ watchdog \in 0..(Keepalive - 1)
  /\ watchdog' = watchdog + 1
  /\ Len(outbox) < MaxQueue
  /\ outbox' = Sent
  /\ UNCHANGED <<link, alive, inbox, device, keeper, periodic, errors, wait, unheard,
                 synced>>

\* Transport._reconnect: nothing was read for the whole delay.
WatchdogFires ==
  /\ watchdog = Keepalive
  /\ watchdog' = Off
  /\ Lost
  /\ UNCHANGED <<alive, inbox, device, keeper, periodic, errors, wait, unheard>>

\* State._refresh, as soon as the link is up and then now and again.
Refresh ==
  /\ periodic /\ link = "up" /\ alive
  /\ Len(outbox) < MaxQueue
  /\ outbox' = Append(outbox, "state")
  /\ UNCHANGED <<link, alive, inbox, device, keeper, watchdog, periodic, errors, wait,
                 unheard, synced>>

-----------------------------------------------------------------------------
(* The receive loop.                                                        *)

Receives(kind) == link \notin {"new", "closed"} /\ inbox # <<>> /\ Head(inbox).kind = kind

\* Transport._read: the link is healthy.
Read ==
  /\ inbox' = Tail(inbox)
  /\ watchdog' = 0
  /\ wait' = 0 /\ unheard' = 0
  /\ UNCHANGED <<alive, device, periodic>>

\* ConnectionResetError.
ReceiveReset ==
  /\ Receives("reset")
  /\ inbox' = Tail(inbox)
  /\ errors' = 0
  /\ UNCHANGED <<link, alive, outbox, device, keeper, watchdog, periodic, wait,
                 unheard, synced>>

\* The message cannot be decoded.
ReceiveGarbled ==
  /\ Receives("garbled")
  /\ Read
  /\ \/ errors > 2 /\ errors' = 0 /\ Lost
     \/ errors <= 2 /\ errors' = errors + 1 /\ synced' = FALSE /\ UNCHANGED <<link, outbox>>
  /\ UNCHANGED keeper

ReceiveOther ==
  /\ Receives("other")
  /\ Read
  /\ errors' = 0
  /\ UNCHANGED <<link, outbox, keeper, synced>>

\* State._update, of a StateResponse.
ReceiveState ==
  /\ Receives("state")
  /\ Read
  /\ errors' = 0
  /\ keeper' = Head(inbox).values
  /\ synced' = (link = "up" /\ Plain("reset") \notin ToSet(inbox))
  /\ UNCHANGED <<link, outbox>>

\* Seeded fault: a status is taken for the initial state.
MergeAlways == Merge(keeper, Head(inbox).values)
\* Seeded fault: a status replaces the state.
Replaced == IF keeper = NoValues THEN keeper ELSE Head(inbox).values

\* State._update, of a StatusResponse: discarded before the initial state.
Updated == IF keeper = NoValues THEN keeper ELSE Merge(keeper, Head(inbox).values)
ReceiveStatus ==
  /\ Receives("status")
  /\ Read
  /\ errors' = 0
  /\ keeper' = Updated
  /\ UNCHANGED <<link, outbox, synced>>

Receive ==
  ReceiveReset \/ ReceiveGarbled \/ ReceiveOther \/ ReceiveState \/ ReceiveStatus

-----------------------------------------------------------------------------
(* The device and the network.                                              *)

Network == UNCHANGED <<keeper, watchdog, periodic, errors, wait, unheard>>

\* The device answers.  An answer may be an error, or arrive garbled.
Answer ==
  /\ link = "up" /\ alive
  /\ outbox # <<>> /\ Len(inbox) < MaxQueue
  /\ outbox' = Tail(outbox)
  /\ \E m \in {Plain("other"), Plain("garbled")} \cup
             (IF Head(outbox) = "state" THEN {[kind |-> "state", values |-> device]} ELSE {}) :
       inbox' = Append(inbox, m)
  /\ UNCHANGED <<link, alive, device, synced>>
  /\ Network

\* A value of the device changes, by a command or by its remote, and the
\* device says so if it can.
Change ==
  /\ \E d \in DataPoint, x \in Value :
       /\ device[d] # x
       /\ device' = [device EXCEPT ![d] = x]
       /\ IF link = "up" /\ alive
          THEN /\ Len(inbox) < MaxQueue
               /\ \E m \in {Plain("garbled"),
                           [kind |-> "status", values |-> [NoValues EXCEPT ![d] = x]]} :
                    inbox' = Append(inbox, m)
          ELSE UNCHANGED inbox
  /\ UNCHANGED <<link, alive, outbox, synced>>
  /\ Network

Drop ==
  /\ link = "up"
  /\ Lost
  /\ UNCHANGED <<alive, inbox, device>>
  /\ Network

\* Nothing arrives any more, and nobody is told.
Hang ==
  /\ link = "up" /\ alive
  /\ alive' = FALSE
  /\ outbox' = <<>>
  /\ UNCHANGED <<link, inbox, device, synced>>
  /\ Network

Next ==
  \/ Start \/ FailToConnect \/ Connect \/ Reconnect \/ Close
  \/ Tick \/ WatchdogFires \/ Refresh \/ Receive
  \/ Answer \/ Change \/ Drop \/ Hang

Spec == Init /\ [][Next]_vars

-----------------------------------------------------------------------------
(* Properties.                                                              *)

(* A link that is up is always watched, even while nothing was read from    *)
(* it yet, and nothing runs for a link that is closed.                      *)
Watched ==
  /\ link = "up" => watchdog # Off /\ periodic
  /\ link = "closed" => watchdog = Off /\ ~periodic

(* The state that is reported is never a part of the device's: the buffer   *)
(* looks its data points up there without a default (buffer.py:114, 140).   *)
FullReports == keeper # NoValues => Keys(keeper) = DataPoint

\* The last message about d that is still to be read says what d has now.
Announced(d) ==
  \E i \in DOMAIN inbox :
    /\ inbox[i].values[d] = device[d]
    /\ \A j \in DOMAIN inbox : j > i => inbox[j].values[d] = Absent
Unmentioned(d) == \A i \in DOMAIN inbox : inbox[i].values[d] = Absent

(* Once a response to a refresh was read on the link, the state that is     *)
(* kept is the device's, but for the messages that are still to be read,    *)
(* whatever was changed while the link was down.                            *)
KeptStateIsCurrent ==
  synced /\ alive /\ Plain("garbled") \notin ToSet(inbox) =>
    \A d \in DataPoint : Announced(d) \/ (Unmentioned(d) /\ keeper[d] = device[d])

(* transport.py:134: as long as no data is read, each connection attempt    *)
(* moves on in the backoff, also the attempts that succeed.                 *)
UnhealthyBacksOff == wait = unheard

Fairness ==
  /\ WF_vars(Receive)
  /\ WF_vars(Tick)
  /\ WF_vars(WatchdogFires)

FairSpec == Spec /\ Fairness

(* A link that hangs is given up, although heartbeats are still written to  *)
(* it and nobody reports the loss.                                          *)
HangEnds == link = "up" /\ ~alive ~> link # "up"
=============================================================================
