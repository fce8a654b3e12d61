# Verification of local-tuya

`local_tuya` is a driver that connects Tuya devices on a local network to an
MQTT broker. It is one Python process with one asyncio event loop. This
directory holds TLA+ models of its logic, the TLC configurations that check
them, and proofs that TLAPS checks. File names below are relative to
`local_tuya/`.

## 1. The system

    MQTT broker <-> mqtt/client.py <-> manager.py <-> device/device.py
                                                        |  pools of tasks
                                                        v
                                     device/buffer.py, device/constraints.py
                                        |  update()            ^ TuyaStateUpdated
                                        v                      |
                     tuya/protocol.py                       tuya/state.py
                                        |  TuyaCommandSent     ^ TuyaResponseReceived
                                        v                      |
                     tuya/transport.py  <--- tuya/heartbeat.py (keepalive)
                                        |  bytes, tuya/message/
                                        v
                                      device

Inside a device the parts do not call each other: they emit events through
`events.py`, whose `emit` awaits each listener in the order of registration and
swallows their errors.

| Component | State | Operations | What makes it correct |
|---|---|---|---|
| Update buffer (`device/buffer.py`) | values to send, last state, the event "no call in flight", a future shared by the commands that wait, an update task, a retry task | `update`, the debounced `_update`, `_check_and_retry`, `close`, reports | one call at a time; no value lost; whoever waits is answered; commands and retries end |
| Constraints (`device/constraints.py`) | none | `filter_values` | drops what a rule excludes, and only that |
| Device (`device/device.py`) | two pools of two tasks, each with a timeout | start, `update`, discovery, state and availability messages | a timeout of one command does not harm the others; the hub shows what the device has |
| Devices of `contrib/` | none | conversions between the device and MQTT, tables of constraints | a command that is offered converts, and its result is shown as it was asked |
| Value processors (`device/value_processors.py`) | history, last value let through | moving average, debounce | what is published is a recent mean |
| Stream and transport (`tuya/transport.py`) | link, reader, count of errors, watchdog, sequence number | connect, reconnect, close, receive loop, write | a link that is up is watched, one that hangs is given up, backoff while unhealthy |
| Message handler (`tuya/message/`) | cipher | pack, unpack | what is accepted is one whole message; the reader finds the start of a message again |
| Heartbeat (`tuya/heartbeat.py`) | periodic task | started and stopped by the connection | an idle healthy link is not given up |
| State keeper (`tuya/state.py`) | last state, periodic refresh | refresh, response, status | a report is the whole state of the device, and current |
| Backoff (`backoff.py`) | index | `wait`, `reset` | grows to the end of its sequence, and stays there |
| MQTT client (`mqtt/client.py`) | session, `_connected`, connect task | connect, reconnect, publish, receive, close | one session at a time; reconnects for ever; the retained statuses are true in the end |
| Discovery (`mqtt/discovery.py`, `device/config.py`) | the components included | the discovery messages and their topics | a command comes back to the device and component it was announced for |
| Manager, wiring, configuration (`manager.py`, `config.py`) | contexts | start, stop, dispatch | order of start and stop |

What is hard here:

* **Interleaving on one loop.** Between two `await`s nothing interleaves, but
  what was checked before an `await` is used after it: the event of
  `buffer.py:62`, the constraints of `buffer.py:118`, the state of
  `buffer.py:139`.
* **Cancellation.** Each command cancels the update task of the one before; the
  pool's timeout cancels a command, and through it the future it shares.
* **Timers.** Debounce, retry, backoff, heartbeat, watchdog and timeouts race
  with each other and with what the device says.
* **Partial knowledge.** No state before the first response, data points that
  were never reported, changes missed while the link was down, links and
  sessions that die without an error, messages that arrive in pieces.
* **Several tasks recover at once.** Every task that publishes or receives
  notices the end of a session, and one of them has to reconnect.

`PROJECT.json` lists each hazard at its line, with the properties that cover it.

## 2. The modules

| Module | Models | Kind |
|---|---|---|
| `DataPoints` | dictionaries from data points to values | operators |
| `Constraints` | `device/constraints.py` | operators |
| `Contrib` | the air conditioner and the fan of `contrib/`: components, enumerations, rules, conversions | operators |
| `ConstraintCheck` | `filter_values` on enumerated tables, commands and states | specification |
| `UpdateBuffer` | `device/buffer.py` and the pool of commands of `device/device.py` | specification |
| `UpdateChannel` | what the buffer promises, without tasks or timers | abstract specification |
| `Connection` | `tuya/transport.py`, `heartbeat.py`, `state.py`, `backoff.py` | specification |
| `Framing` | `unpack` of `tuya/message/handlers/v33.py` and the reads of `tuya/transport.py` | specification |
| `MqttClient` | `mqtt/client.py`, start and stop of `manager.py`, the pool of messages of `device/device.py` | specification |
| `Bridge` | discovery, commands and states from the hub to the device and back: `mqtt/discovery.py`, the topics of `mqtt/client.py`, `manager.py`, `device/device.py`, `device/value_processors.py`, `contrib/` | specification, composes the promises of the others |
| `MC*` | instances for TLC | |
| `ConstraintLemmas`, `ConstraintProofs`, `UpdateBufferProofs`, `ChannelProofs`, `ConnectionProofs`, `FramingProofs`, `MqttProofs`, `BridgeProofs` | lemmas and theorems | proofs |

`UpdateBuffer`, `Connection` and `MqttClient` each show that one part keeps a
promise. `Bridge` takes them in fewer steps (a call of the buffer with its
debounce is one; what a link or a session loses is lost at once) and composes the
parts into what a user sees. It keeps what decides whether a value arrives: the
retries and where they end, the timeouts and the futures they cancel, and the pool
of two publications that retry.

### Dictionaries

A dictionary of values (`Values`, and `_buffer`, `_state`) is a function from
all data points to values or `Absent`. `NoValues` stands for the empty
dictionary and for a state that is `None`: both are falsy, and the program
distinguishes them nowhere else.

### UpdateBuffer

The module follows the event loop at the grain of its suspensions: a coroutine
runs from one `await` that suspends to the next without interruption, and that
is one action. `pc` records where each coroutine is suspended; `ready` is the
loop's FIFO queue of those whose event has happened; `thrown` holds those that
will be resumed with a `CancelledError`.

| Variable | Code |
|---|---|
| `state`, `buffer` | `_state` (and `_state_updated`: set by the first report, which is never empty), `_buffer` |
| `finished` | `_update_finished.is_set()` |
| `waiter` | `_update_waiter`: none, pending, or a future that was cancelled |
| `pc[c]`, `command[c]` | a command of the pool in `update()`, at line 59, 62 or 69, and the values it has not stored |
| `pc[Updater]`, `payload` | `_update_task`, in its delay or in the call, and the values of the call |
| `pc[Retrier]`, `attempt` | the retry task and its counter |
| `pc[Unwinder]` | a cancelled `_update` whose `finally` clause is still to run |

Each handler is one action: `Store` is the whole of `update()` from the filter
to the first suspension, with the cancelled and re-created update task.
`Complete` is the end of a call: the future is resolved, the retry task is
started, and the event is set. When several tasks wait for one event the model
wakes them in any order, which covers the order in which asyncio does. The
library's `BackgroundTask` and the semantics of `Task.cancel` are modelled from
how the code uses them: to cancel a task that awaits the shared future cancels
the future, hence all its waiters.

The promises of `UpdateChannel` are stated over `state`, `buffer`,
`payload` and what each client has been told. `Outcome` in `UpdateBuffer` is the
refinement mapping.

### Connection

The events of a connection are emitted to listeners that do not suspend, so a
message or a change of the link is one action with all that the listeners do:
`Connect` creates the watchdog and both periodic tasks, `Read` restarts the
watchdog and resets the backoff, `ReceiveState` and `ReceiveStatus` are
`State._update`. `Connected`, `Drop`, `Answer`, `Change` and `Hang` are the
library's stream, the network and the device, modelled from how `transport.py`
uses them: a stream reconnects for ever, and ends what was being read with an
empty read. A link that hangs stays up and delivers nothing. `watchdog` counts
intervals of the heartbeat; the delay is two of them
(`tuya/dependencies.py:43`).

Abstractions: a message is read whole or not at all (`Framing` refines that); a
response to a refresh holds every data point of the device; the responses that
change nothing are one kind, `other`. The sequence numbers and the encoding are
left out.

Three variables are not in the code. `alive` belongs to the network (whether
the link hangs); `unheard` (connection attempts since data was read) and
`synced` (a response was read on this link, and nothing garbled since) record
history, and no action is guarded by them.

### Framing

`ReadHeader` and `ReadPayload` are the two halves of `unpack`, which reads the
header, then the payload of the announced length, and then refuses or accepts.
`Data(n)` is `Transport._read`: what is there, at most `n`. `Fail` is the count
of errors of the receive loop, `ReadReset` the empty read that ends a link.

The units stand for some bytes: what matters is where a message starts, where
its header ends, and where the network cuts. Whether type, hash, suffix and
decryption are sound is one flag, `sound`: each of them only decides between
accepting and refusing, after the same reads. A message that announces a payload of
no bytes makes the second read empty, which the receive loop takes for the end of a
link, without counting an error (`Expect`). The first unit of a message holds
the prefix, and the model assumes that no other unit looks like it. A link that
delivers nothing is the subject of the watchdog, in `Connection`. `misled`
records history.

### MqttClient

| Variable | Code |
|---|---|
| `phase` | the manager: before, in and after `__aenter__` and `__aexit__` of the client and of the devices |
| `connected`, `connect` | `_connected.is_set()`, `_connect_task` and where `_connect` is suspended |
| `pc`, `line`, `calls` | the tasks that publish or receive: those that await `_connected` (line 88, 185), and those with a call to the session |
| `session`, `subscribed` | aiomqtt's client: up, dead without anybody having noticed, lost (noticed), or being left |
| `will`, `status`, `shown` | what the broker holds: the session's will, the retained status of the driver and of the device |
| `backlog`, `message` | the pool of `device.py:58`, with its timeout |

`Reconnect` is `_reconnect()` up to its suspension: `Leave` when the session
must be left, which takes time and can be cancelled, `LeaveLost` when to leave
raises at once, `AwaitOther` when another task has done so. `Recreate` is line
80 afterwards. `Ends` is aiomqtt's callback: every call of the session raises,
in order. `Exit` is the end of the process, by a crash or after a stop, and
`Open` its restart. `trouble` records history, and no action is guarded by it.

Abstractions: of the messages that the pool publishes only the availability is
kept (the states are in `Bridge`); the backoff between two attempts takes no
time; to leave a session always ends; what is handed over to a live session
(QoS 0) reaches the broker, in order. The checks of `_closed` in the loops are
left out: the manager stops the receiver and the pools before the client closes.

### Bridge

| Variable | Code |
|---|---|
| `included` | `included_components` of each device of the configuration |
| `announcing`, `discovered` | `send_discovery` in the pool, and the retained discovery messages |
| `tasks` | commands in the pool that have not been stored |
| `listening` | whether `receive_commands` still runs |
| `known`, `buffer`, `due` | `_state`, `_buffer`, and whether the update task is to send |
| `awaited` | `_update_waiter`: awaited by a command, cancelled with one, or neither |
| `retry` | `_retry_task`: none, in its backoff or waiting for the call it asked for, and its counter `i` |
| `processor`, `now` | what the closures of `moving_average` and `debounce` keep, and the clock |
| `states`, `overtaken`, `shown` | the payloads of `send_state` in the pool (two of which run) and its queue, whether the first has been overtaken, and what the hub shows by its templates |
| `sent`, `device`, `reports` | calls and reports on their way, and the device's data points |

`Receive` is a message from the topic to `Device.update`; a payload that cannot be
decoded raises out of `_process_message` (`client.py:124`) and ends the generator of
the commands. `Learn` is a report with its listeners: the buffer, then
`Device._update_state`, whose conversion can fail, which `emit` swallows.

`Store` is `update()`; `CutShort` is the pool's timeout at line 62, with the values
already in the buffer, and `Cancel` at line 69, which cancels the future that all
commands and the retry task share. (When a command is cut short while another waits
at line 62 too, the other sends the values of both: that is `Store`.) `Send` is the
update task with its call: it resolves the future and starts the retry task, unless
one runs or `retries` is 0 (line 121), or the future was cancelled, so that lines 94
and 99 raise. `Check` is one turn of the retry task: it ends when nothing is left,
after the last retry (line 150), or when it awaits a cancelled future.

`Publish` is `_publish` for one of the two states that run in the pool: in order, or
the second first when the call of the first fails alone, is caught, and is made again
after the reconnection. `DropState` is the pool's timeout. `Respond` after the first
time is a reconnection of the device, which loses what was under way. `Restart` loses
what was in memory. `asked`, `undone`, `unconfirmed`, `missed` and `readings` record
history, and no action is guarded by them.

Abstractions: a device takes every value that is sent to it and reports it; the first
report is complete, as every later one then is (`FullReports` of `Connection`), so that
the `KeyError` of lines 114 and 140, which `UpdateBuffer` has, does not arise; a
message takes no time from the broker to the driver, so that it is pressed and
received in one action; the driver's prefix has one level, like the default.

## 3. What TLC checks

| Run | Shows |
|---|---|
| `constraint_tables` | for every table of at most two rules on two data points, every command and state: `filter_values` drops only what a rule excludes, and keeps nothing excluded if the table does not mix `None` with sets; without chained rules the resulting state respects the table |
| `buffer_safety` | one call at a time, none abandoned before `close()`; no command is lost; who waits is served; the shared future is pending exactly while somebody awaits it; the inductive invariant; and `UpdateBuffer` implements `UpdateChannel`: in particular nobody is told "sent" by a call that began before its values were stored |
| `buffer_liveness` | commands and retries end |
| `connection` | a link that is up is watched; the kept state is full and current; the backoff grows while nothing is read; a link that hangs is given up |
| `framing` | whatever the network cuts and loses: what is accepted is a whole message; only a cut misleads the reader; an uncut message is accepted; a misled reader finds the start of a message again |
| `mqtt` | a session is entered once, by one task, and after the one before was left; a client without a session is about to connect; a retained "online" that is not true is withdrawn; the availability shown last is the last one; a connected client receives commands |
| `mqtt_liveness` | a driver that runs has a session again; a driver that stops ends, session or not |
| `bridge` | a command given as it was announced is understood; once nothing is on its way the hub shows what the device has, unless it missed the last state, and the device has what was asked last, unless the driver has given up on it; the temperature published is a recent mean |
| `constraint_airton`, `buffer_stranded`, `mqtt_abandoned`, `bridge_undone` | violations: disagreements between the code and what is said of it, below |

Each property of a passing run has a mutant in `PROJECT.json`: a definition next
to the one it replaces, marked "seeded fault", with which TLC finds the property
violated under the same configuration.

### Bounds

* **Slots of a pool**: two, which is the real size (`device/device.py:58`); a
  slot takes any number of commands or messages one after the other. In
  `buffer_safety` and `mqtt` the slots are interchangeable (`SYMMETRY`), which is
  sound because no property and no definition singles out a slot. The liveness
  runs do not use symmetry, and `mqtt_liveness` has one slot: with two its graph
  is too large, and the second one only adds a task that can reconnect.
* **Data points and values** of the buffer: two and two, so that commands can
  conflict, be confirmed, be undone and be excluded by the constraint of the
  ceiling fan (`contrib/ceiling_fan.py`). One report leaves out a data point, for
  the `KeyError` of lines 114 and 140.
* **Retries**: two in `buffer_safety`, one elsewhere; the default is in
  `device/config.py`. One is enough to exhaust, two to retry again.
* **Impatient** says which slots can reach the pool's timeout: both for safety.
  For liveness one of them, so that the other has to end by itself.
* **Debounced**: `TRUE`, the default of the program. The proofs hold for both.
* **MaxQueue** = 2 messages in flight in each direction, **LastWait** = 1: two
  entries of backoff, one that advances and one that repeats.
* **Framing**: a header of two units, a payload of two that is accepted, one
  of one unit that is not, and one of none, so that a cut can fall in the header, behind it and in
  the payload; **MaxFlight** = 7 units hold two messages or several with the
  marks of reconnections, enough for four errors in a row.
* **MaxBacklog** = 1 availability that waits while both slots are busy: three in
  all, one more than can run.
* **Bridge**: six configurations (`MCBounds`), each with the components whose
  interplay it is about (a component of two data points; a rounded and clamped
  number; a constraint; a value that does not convert next to the processed
  temperature; a light with two losses, so that a state can be overtaken and a timeout
  can meet a retry that ends; two devices), each with its limits on the commands and changes,
  the measures, the losses (timeouts, reconnections, restarts) and the ticks.
  Once its limits are used up a configuration stops, hence `CHECK_DEADLOCK
  FALSE`. **Retries** = 1: the first check can ask for a call, the second gives up.
  Two commands at most are on their way with it. **Window** = 2 values and **Period** = 2 ticks stand for the 4 values
  and 30 s of the air conditioner: three measures overflow the window, two ticks
  the period. `OfferedIsUnderstood` goes through every option and every degree.

### Fairness

* `UpdateBuffer.FairSpec`: the loop runs what is ready, the timers of the
  debounce and of the backoff fire, the device reports a first state, and a
  write ends. The last is what the stream gives: it reconnects without limit and
  the write waits for it. No fairness on commands, timeouts or close. Without
  the report a command waits for its timeout, which is what line 111 does.
* `Connection.FairSpec`: the receive loop runs, time passes, and the watchdog
  fires. Nothing is assumed of the device, of the network or of connections.
* `Framing.FairSpec`: what was sent arrives or is lost, what arrived is read, and
  the stream connects again (it does so for ever). Nothing is assumed of where
  the network cuts.
* `MqttClient.FairSpec`: the loop runs what is ready; the keepalive notices a dead
  session (`Hear`); the pool starts its tasks and its timeout ends them; a
  manager that has begun to start or to stop goes on. `Enter` is strongly fair:
  a connection that is tried again and again succeeds in the end. This is the
  one assumption on the world outside, and line 63 tries for ever because of it.

### Where the code and what is said of it differ

| Run | Found |
|---|---|
| `constraint_airton` | `constraints.py:38`: `None` (all values) is lost in a union with a set. With the table of the air conditioner, a fan speed is sent in mode dry with eco on |
| `buffer_stranded` | `buffer.py:87`: when the retry task empties the buffer during the debounce, those who wait are never answered, but for the pool's timeout |
| `mqtt_abandoned` | `client.py:77`: a task that is cancelled by the pool's timeout while it leaves the session has cleared `_connected` and not created the connect task. Nobody connects again |
| `bridge_undone` | `buffer.py:114`: a command is compared with the last report. One that takes back a command whose report is still on its way is dropped, and the device keeps the value of the first |

`CommandEnds`, `Recovers` and `ComesBack` exclude these cases and no others, so that
they still say that there is no other way to fail. Four properties exclude more,
which the code does by design or without a word about it:

* `AskedPrevails` excludes the values of `bridge_undone`, and those that the driver
  has given up on: the last call was not checked (a cancelled future, line 94 or 99;
  `retries` of 0, line 121), or was the last retry (line 150), or the command was cut
  short (line 62). Then it says what is left of the promise: the value is still in the
  buffer, and the next command sends it.
* `ShownIsTheDevices` excludes the components whose last state the hub missed: one
  announced after it, one that does not convert, one dropped by the pool's timeout,
  and one that an older state followed, published again after a failure of its own.
* `AvailabilityInOrder` excludes an availability whose call failed alone, that the
  timeout dropped or that was overtaken: the retained one is then wrong until the link
  changes.
* `Listens` excludes a subscription that fails while the session stays up: the client
  then counts as connected and hears no command.

Other disagreements that the models have, without a run of their own:

* `buffer.py:58` says that values are stored first in case of a timeout; before
  the first report they are not (line 111 waits).
* A timeout cancels the shared future; when the call then ends, `set_result` and
  `set_exception` both raise, and the call is never checked (`buffer.py:132`). Both
  `UpdateBuffer` and `Bridge` have it; `AskedPrevails` names it.
* A value that was confirmed stays in the buffer until the next check
  (`buffer.py:139`), and is sent again with the next command, over what the device was
  changed to in the meantime.
* A payload that is neither JSON nor text ends the dispatch of the commands
  (`client.py:124`).
* Constraints are checked when a command is stored and not when it is sent
  (`buffer.py:118`), and evaluated on values that are then dropped
  (`constraints.py:45`).
* `transport.py:160` says "reconnect on the 3rd"; the code does on the fourth.
* `tuya/config.py:25` says that the timeout excludes the wait for a connection;
  the pool's timeout includes it.
* `message/handler.py:24` speaks of the unused remaining bytes; `unpack` returns
  none.
* `client.py:54`: a session that is left in order to be entered again has its
  will discarded, so that the driver stays "online" until it is back, or for ever
  if it dies then. `StatusIsTold` names the case `torn`.
* A `driver_prefix` that contains a slash makes `client.py:108` ignore every
  command, since it counts the levels of the topic.
* `contrib/config.py:20` builds a `ValueError` and does not raise it.
* `value_processors.py:31`: with a window of one, the slice keeps everything. The air
  conditioner, the only caller, uses four.

## 4. What is proved

TLAPS proves these for every value of the constants, under the assumptions that
the modules name (`CallerAssumption`, `CommandsAssumption`, `ReportsAssumption`,
`RulesAssumption`, `SettingsAssumption`, `LastWaitAssumption`,
`MaxQueueAssumption`, `SlotAssumption`, and those of `Framing`, `Bridge`,
`Constraints` and `DataPoints`). Those of `Bridge` say what the world is made of:
configurations of devices of the two models (`ConfigsAssumption`,
`ModelAssumption`, `DataPointAssumption`), the values that their data points take
(`TakesAssumption`), topics of words (`PrefixAssumption`), a window and a period
(`ProcessorAssumption`), and commands whose conversion, where it succeeds, is a
value of JSON (`PressesAssumption`, `OffersAssumption`), and any number of retries
(`RetriesAssumption`). Two theorems have a
hypothesis of their own, where the code needs it too: a window of more than one
value (`value_processors.py:31`), and a `driver_prefix` of one level
(`client.py:108`). The air conditioner uses 4, and the default prefix is
`local-tuya`.

* `ConstraintProofs`: `filter_values` drops only what is forbidden
  (`DropsOnlyForbiddenValues`), keeps nothing forbidden when no data point is
  excluded both wholly and by values (`KeepsNoForbiddenValue`), and then, if
  rules do not chain, leads to a state that respects the table
  (`OutcomeRespectsTheRules`). These three bound exactly the findings on
  constraints.
* `UpdateBufferProofs`: `TypeCorrect`, `InductiveInvariant`, and
  `SingleCallHolds`, for any number of commands, reports, rules and retries; and
  on top of that invariant `WaitersAreServed` and `WaitersHaveTheirFuture`.
* `ChannelProofs`: `BufferImplementsChannel`, the refinement of `UpdateChannel`,
  on top of those; and `NoCommandIsLost`, which rests on `DroppedIsForbidden` of
  `ConstraintLemmas`.
* `ConnectionProofs`: `ConnectionTypes`, `UpIsWatched`, `ReportsAreFull`,
  `UnhealthyConnectionsBackOff` and `KeeperIsCurrent`. Each follows from an
  invariant that is inductive together with the type invariant.
* `MqttProofs`: `ClientTypes`, `OneSessionHolds`, `ClientRecovers`, `StatusHolds`,
  `ClientListens` and `AvailabilityShown`, for any number of slots and any
  backlog.
* `FramingProofs`: `FramingTypes`, `AcceptedIsGenuine`, `CutsMislead` and
  `UncutMessagesAreAccepted`, for any length of the header and any messages.
* `BridgeProofs`: `BridgeTypes`, `CommandsAreUnderstood`, `CommandsPrevail`,
  `HubShowsDevices` and `TemperatureLags`, for any devices of the two models,
  components included, commands, changes and losses, queues of any length, window
  and period.

**Why there is one call at a time.** `update()` waits for the event "no call in
flight" (line 62) and then cancels the update task (line 64) without looking
again. `SingleCall` is not inductive: several tasks are woken by the event, and
one that restarts the update task could let it send before the next one runs and
cancels it. It does not, because the queue of the loop is FIFO. `LockInv` states
it: whoever was told that nothing is being sent stands in `ready` before an
update task that could send. It needs `QueueInv` (a task is in the queue once,
and only if it exists). Tasks that wake are appended, the update task is
appended behind them, and an action consumes the head only, so the order is
kept. This is the fact on which the correctness of line 64 rests, and which no
line of the code states. With the queue's order changed (the seeded fault
`RestartFirst`) the invariant fails.

**Why those who wait are served.** `WaitInv` says that the future is pending
exactly as long as a task awaits it and is not yet woken, and that there is then
an update task, or nothing to send. It is inductive given the invariant above: a
task begins to wait in the same step in which it creates the update task; the end
of a call, a timeout and `close()` resolve the future and wake everybody in one
step; and the update task goes away otherwise only when the buffer is empty, the
case of `buffer_stranded`.

**Why the buffer implements the channel.** `CallInv` adds what the mapping needs:
a call is in flight exactly while the event is clear, what is stored is a command,
and a task that was cancelled is ready to run, so that nobody who still waits is
about to be cancelled. Then each step is one of the channel's, or none: the tasks
that a step does not touch are told nothing (`Unmoved`), because nobody leaves
the loop's queue but the task that runs. The heart is `RearmImplements`: a task
that restarts the update task does so while no call is in flight, by `LockInv`, so
that it never waits for a call that began before (`Enter`). To be told "done" is
the end of a call (`CallReturns`), or an empty buffer (`Clear`), and `WaitInv` says
that then all who wait are told. A cancelled command cancels those that share
the future with it (`Cancel`).

**Why there is one session.** `_reconnect` asks for `_connected` and clears it
before it suspends, so that of all the tasks that failed one goes on.
`SessionInv` carries this through the suspension: the session belongs to the
tasks while `_connected` is set, to the one task that leaves it (`Leaving`), or
to the connect task, and these exclude each other. `Recovers` is the converse, a
part of the same induction: when `_connected` is clear there is such a task,
unless it was cancelled. `ManagerInv` is needed for the end: the client closes
only when no task of the others is left. `StatusInv` adds that an "online" was
said by a session that is up, or whose will is pending.

**Why a connected client listens.** The connect task subscribes to the session
that it has entered. `ListenInv` states it for every phase in which the client has
its tasks, not only `running`. What could spoil it is the callback of a connection
that ended, run when the client is already in the next session. `QueueInv` excludes
that: the callback is in the loop's queue only while the session it ends is still
the one there is (`CallbackInv`). To show it, `QueueInv` also says that a task
stands in the loop's queue, among those that wait for a session or among those that
call, exactly as its `pc` says (`PlaceInv`), and only once (`SeqInv`), so that one
that is taken out of the middle of a queue (`RemoveFirst`) is gone.

**Why the last availability is shown.** Availabilities are given in order to a
pool of tasks that wait for a session, call, fail and try again, each at its own
place in one of three queues. `After` is the order in which those places will
publish: who calls is before who waits, who waits before who was held up, who has
only started comes last, and in one queue its order counts. `OrderInv` says that
the last in this order has the last availability, and that what is shown is what
the last call says. It is kept because an ordered step moves a task from the end
of one class to the end of the next. `WayInv` excludes the moves that would not: a
task that was woken goes on before the client connects again, so that no new call
begins before it; and all calls fail before those behind the session's end run.
Both are stated under `Smooth`, without the three kinds of trouble that the
property excludes, and both need that the queues are FIFO.

**Why the kept state is current.** What the keeper will hold once everything on
its way has been read is stated per data point, by the last message that mentions
it, so that no induction over the queue is needed. `Fresh` is about a response on
its way on a link that lost nothing since: it and the messages behind it tell
what the device has now. `Synced` says that the keeper is believed only while the
link is up, when it is full and no reset waits in the queue. The step that reads
the response is where `Fresh` becomes the invariant itself.

**Why what is accepted is genuine.** A reader that was misled may start anywhere,
but it takes only the first unit of a message for a header. `StreamInv` is about
what is read next, the buffer followed by the wire: each unit is followed by those
of its message until a link ends (`Chained`); while the link is up all of them are
there (`Whole`); and behind a header that was read comes its payload (`Payload`,
`WholePayload`). It is stated for all pairs of positions, so that no induction
over the units is needed. Losing a message only ends the stream of a link earlier,
and a reconnection only puts its mark behind it.

**Why only cuts mislead.** `GuideInv` adds what follows what: another message
begins behind the end of one and behind the end of a link (`Follows`), and what
arrived ends, on this link and on those before, with the end of a message or
with a unit that was cut (`EndsCut`). A read that is short therefore takes the
unit that was cut (`ShortIsCut`), and one that is not ends where the header or
the payload ends. `UncutMessagesAreAccepted` is the same fact, seen from the
message: what is expected can be refused only for its contents, or when its
payload was cut.

**Why what is announced is understood.** The topic of a command has the levels
that `Ignored` and `Receive` count (`TopicRead`). `RoundTrip` goes through the
kinds of components: the values of an enumeration differ (`OptionsDiffer`), a
degree from 16 to 31 is neither rounded nor clamped (`DegreesKept`), and a state
of one component's data points is a state of that component alone.

**Why what was asked prevails.** `Prevails` is the invariant of one data point: its
value waits in the buffer, or the device has it and nothing else is on its way to
it. A value leaves the buffer when a newer command sets the data point, which is
then what is asked; when the rules exclude it, and then it is no longer asked; or
when it is the one the device reported. In the last case the device has it and
nothing else is on its way (`Dropping`), or the data point is in `undone`, the case
of the finding: `Moving` asks exactly what `Prevails` needs. From then on only a
command or the device itself can change the value, and both change what is asked.
`Armed` says what becomes of a buffer that is not empty: it is due, or will be checked
after the backoff, or the driver has given up on it (`unconfirmed`); and the retry task
waits for a call only when one is due and the future it awaits is not cancelled, so
that it does not wait when all is quiet. `unconfirmed` is set where the code stops
trying, and nowhere else: at the end of a call that starts no check, at the last
retry, and by a timeout that leaves values behind without a retry task. The next call
that is checked takes it back.

**Why the hub shows the device.** `StateInv` follows a state along its way by the
last element of each queue: the last report is what the device has, what is known
is the last report that was read, and the last state given to the pool is what is
known, converted. The pool publishes the first or the second of its queue, so that
the last one has reached the hub when the queue is empty or holds only one that was
overtaken (`Reached`); when that one is published after all, the hub has missed what
was newer, and `missed` says so. That a state carries every component is where the merge of the
keeper matters (`Conversion`: a report has all data points), and why one that is
lost is made up for by the next. A report that changes nothing gives no state, and
the invariant holds as what is known stays the same.

**Why the temperature is recent.** `ProcessorInv` says that the moving average
holds the last `Window` readings, and the debounce those at an instant whose time it
kept. `Windows` is the arithmetic of the slice `values[1 - n:]`.

**Only model-checked**: liveness under fairness (`CommandEnds`, `RetryEnds`,
`HangEnds`, `ComesBack`, `StopEnds`, `Realigns`), which is out of reach of the
prover. All other properties of the runs that pass are theorems. The findings are
counterexamples, which only TLC shows.

## 5. What is not modelled

* The encoding of messages: JSON, AES, checksums, `pack`. Pure conversions,
  abstracted to whether the contents are sound.
* Wiring, the parsing of the configuration, the command line and logging: they
  run once, before the event loop has anything to do, or do not affect the state.
* The sequence number of commands, which the program only logs.
* A write that fails: `emit` swallows the error (`events.py:34`), so that it looks
  like a write that succeeded and the device ignored, which `UpdateBuffer` has.
* `filter_data_points` of `device/device.py`, which nothing in the program
  calls.
* Real time: the lengths of delays are not compared, but for the watchdog with
  the heartbeat, and the debounce of the temperature with its clock.

## 6. Plan

Done: constraints, the update buffer with its abstract channel, the connection,
framing, the MQTT client, the bridge from the hub to the devices, and a theorem for
every property of theirs that does not rest on fairness. Left:

1. `UpdateBuffer` and `Connection` composed through the pool in one module:
   commands while the device is away, with the timeout that includes the wait.
2. The buffer of `Bridge` as an abstraction of `UpdateBuffer`, shown by a refinement:
   `Store`, `CutShort`, `Cancel`, `Send` and `Check` make in one step what takes the
   tasks of `UpdateBuffer` several.
