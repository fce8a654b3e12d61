------------------------------- MODULE Bridge -------------------------------
(***************************************************************************)
(* From the hub to the devices and back: what the client announces of the  *)
(* components (mqtt/discovery.py), a command from its topic to the device  *)
(* (mqtt/client.py, manager.py, device/device.py), and the state that the  *)
(* device reports from there to the hub, through the conversions of        *)
(* contrib/ and the processors of the temperature                          *)
(* (device/value_processors.py).                                           *)
(*                                                                         *)
(* The parts that have a module of their own are reduced to what they      *)
(* promise: the buffer (UpdateBuffer) merges, filters, sends, checks and    *)
(* gives up, with a call and its debounce as one step; the connections     *)
(* (Connection, MqttClient) deliver what they do not lose, in the order    *)
(* that the pool of two publications leaves.                               *)
(* Home Assistant and the devices are modelled from how the code uses      *)
(* them.                                                                   *)
(***************************************************************************)
EXTENDS Contrib, Sequences, SequencesExt, FiniteSetsExt

CONSTANTS
  Device,        \* the ids of the devices
  Model,         \* their models
  DriverPrefix,  \* the levels of driver_prefix
  Retries,       \* the retries of the buffer
  Window,        \* the values moving_average keeps
  Period,        \* the delay of debounce
  Takes,         \* the values that a device's data points take
  Presses,       \* the payloads of the hub's commands to each of its components
  Bounds,        \* the configurations considered (the included_components of the
                 \* devices they name), each with its bounds: on the commands and
                 \* the changes together (act), the changes of the temperature
                 \* (measure), the losses and the ticks of the clock
  MaxQueue       \* bounds what is on its way on each leg

Configs == DOMAIN Bounds
ASSUME ConfigsAssumption ==
  \A config \in Configs : \E D \in SUBSET Device : config \in [D -> SUBSET DataPoint]
ASSUME ModelAssumption == Model \in [Device -> {AC, Fan}]
ASSUME ProcessorAssumption == Window \in Nat \ {0} /\ Period \in Nat
ASSUME RetriesAssumption == Retries \in Nat
ASSUME PrefixAssumption == DriverPrefix \in Seq(STRING)

\* All the data points of a device.
PointsOfDevice(id) == PointsOfAll(DOMAIN Components(Model[id]))
ASSUME DataPointAssumption == \A id \in Device : PointsOfDevice(id) \subseteq DataPoint
ASSUME TakesAssumption ==
  \A id \in Device : \A d \in PointsOfDevice(id) :
    Takes[id][d] # {} /\ Takes[id][d] \subseteq Value

VARIABLES
  included,    \* included_components, all the names for None
  announcing,  \* the components send_discovery has yet to announce
  discovered,  \* the retained discovery messages
  listening,   \* receive_commands runs
  tasks,       \* the commands in the pool that are not stored yet
  known,       \* _state of the buffer; NoValues before the first report
  buffer,      \* _buffer
  due,         \* the update task is to send the buffer
  awaited,     \* who awaits _update_waiter: "nobody" but the retry task, a
               \* "command", or it was "cancelled" with one
  retry,       \* the retry task: "idle", in its "backoff", or "waiting" for
               \* the call it asked for, and the retries it made
  sent,        \* the calls on their way to the device
  device,      \* the data points of the device
  reports,     \* the states on their way from the device
  processor,   \* what the closures of _temperature_processor keep
  states,      \* the payloads of send_state in the pool and its queue
  overtaken,   \* the first of them was overtaken by a later one
  shown,       \* what the hub shows
  now,         \* time.monotonic()
  used         \* the commands, the changes and the losses so far

\* History, for the properties.
VARIABLES
  asked,       \* the values last asked of the device, while they should prevail
  undone,      \* the data points whose last value was dropped as the device's
               \* own while another was on its way to the device or from it
  unconfirmed, \* the driver has given up on the buffer: the last call was not
               \* checked, or was the last retry, or a command was cut short
  missed,      \* the components whose last state did not reach the hub
  readings     \* the temperatures that the processor was given

driver == <<announcing, listening, tasks, known, buffer, due, awaited, retry,
            processor, states, overtaken>>
world == <<discovered, sent, device, reports, shown, now, used>>
history == <<asked, undone, unconfirmed, missed, readings>>
vars == <<included, driver, world, history>>

Nothing == <<>>  \* an empty dictionary, and None
Idle == [step |-> "idle", tries |-> 0]
NoProcessor == [values |-> <<>>, last |-> <<>>, time |-> 0]
Devices == DOMAIN included  \* those of the configuration
Names(id) == included[id] \cap DOMAIN Components(Model[id])
Points(id) == PointsOfAll(Names(id))
Spend(kind) == used[kind] < Bounds[included][kind] /\ used' = [used EXCEPT ![kind] = @ + 1]
HasRoom(queue) == Len(queue) < MaxQueue

-----------------------------------------------------------------------------
(* Topics: sequences of levels.                                             *)

StateTopic(id) == DriverPrefix \o <<"get", id>>
CommandTopic(id, c) == DriverPrefix \o <<"set", id, c>>

\* DiscoveryMessage.get, as far as the hub uses it to command and to show.
Message(id, c) ==
  [unique_id |-> <<id, c>>, kind |-> Components(Model[id])[c],
   state_topic |-> StateTopic(id), template |-> c,
   command_topic |->
     IF Components(Model[id])[c] = "sensor" THEN Nothing ELSE CommandTopic(id, c)]

\* The subscription to driver_prefix/set/#.
Subscribed(topic) == IsPrefix(DriverPrefix \o <<"set">>, topic)

\* A payload that is neither JSON nor text.
Undecodable == [bytes |-> "undecodable"]

\* json.loads, or the text itself where it is not JSON.
Loads(text) ==
  CASE text = Word("true") -> On [] text = Word("false") -> Off [] OTHER -> text

\* The values that a command can give to a component, by what is announced of it.
Offers(id, c) ==
  CASE Components(Model[id])[c] = "switch" -> {On, Off}
    [] Components(Model[id])[c] = "select" -> {Word(n) : n \in DOMAIN Options(Model[id])[c]}
    [] OTHER -> {Number(10 * degrees) : degrees \in 16..31}

\* They convert to values of the device, and so does what the hub asks for, if it
\* converts.
ASSUME OffersAssumption ==
  \A id \in Device : \A c \in DOMAIN Components(Model[id]) :
    Components(Model[id])[c] # "sensor" =>
      \A v \in Offers(id, c) : \A d \in PointsOf(c) :
        ToTuyaPayload(Model[id], {c}, c, v)[d] \in Value
ASSUME PressesAssumption ==
  \A id \in Device : \A c \in DOMAIN Components(Model[id]) :
    Components(Model[id])[c] # "sensor" =>
      \A text \in Presses[id][c] :
        \/ Inconvertible(Model[id], {c}, c, Loads(text))
        \/ ToTuyaPayload(Model[id], {c}, c, Loads(text)) \in Values

\* _process_message drops it.
Ignored(topic) ==
  Len(topic) # 4 \/ <<topic[1]>> # DriverPrefix \/ topic[2] # "set"

-----------------------------------------------------------------------------

Init ==
  /\ included \in Configs
  /\ announcing = [id \in Devices |-> Names(id)]
  /\ discovered = {}
  /\ listening = TRUE
  /\ tasks = [id \in Devices |-> <<>>]
  /\ known = [id \in Devices |-> NoValues]
  /\ buffer = [id \in Devices |-> NoValues]
  /\ due = [id \in Devices |-> FALSE]
  /\ awaited = [id \in Devices |-> "nobody"]
  /\ retry = [id \in Devices |-> Idle]
  /\ sent = [id \in Devices |-> <<>>]
  /\ device = [id \in Devices |-> [d \in DataPoint |->
                 IF d \in PointsOfDevice(id)
                 THEN CHOOSE x \in Takes[id][d] : TRUE ELSE Absent]]
  /\ reports = [id \in Devices |-> <<>>]
  /\ processor = [id \in Devices |-> NoProcessor]
  /\ states = [id \in Devices |-> <<>>]
  /\ overtaken = [id \in Devices |-> FALSE]
  /\ shown = [id \in Devices |-> Nothing]
  /\ now = 0
  /\ used = [kind \in DOMAIN Bounds[included] |-> 0]
  /\ asked = [id \in Devices |-> NoValues]
  /\ undone = [id \in Devices |-> {}]
  /\ unconfirmed = [id \in Devices |-> FALSE]
  /\ missed = [id \in Devices |-> Names(id)]
  /\ readings = [id \in Devices |-> <<>>]

-----------------------------------------------------------------------------
(* The announcement of the components, a task of the pool.                  *)

Announce(id) ==
  /\ \E c \in announcing[id] :
       /\ announcing' = [announcing EXCEPT ![id] = @ \ {c}]
       /\ discovered' = discovered \cup {Message(id, c)}
  /\ UNCHANGED <<included, listening, tasks, known, buffer, due, awaited, retry,
                 processor, states, overtaken, sent, device, reports, shown, now, used, history>>

\* The pool's timeout: what is left is not announced.
AbandonAnnouncement(id) ==
  /\ announcing[id] # {}
  /\ Spend("loss")
  /\ announcing' = [announcing EXCEPT ![id] = {}]
  /\ UNCHANGED <<included, listening, tasks, known, buffer, due, awaited, retry,
                 processor, states, overtaken, discovered, sent, device, reports, shown, now, history>>

-----------------------------------------------------------------------------
(* Commands.                                                                *)

\* A message arrives: receive_commands, _receive_commands and Device.update.  The
\* command becomes a task of the pool, unless its topic, its device or its value
\* is not known.  A payload that cannot be decoded ends receive_commands: the
\* driver goes on deaf, or the exception handler of its loop stops it.
Receive(topic, text) ==
  /\ listening /\ Subscribed(topic)
  /\ Spend("act")
  /\ listening' = (Ignored(topic) \/ text # Undecodable)
  /\ LET id == topic[3]
         value == Loads(text)
     IN  tasks' =
           IF \/ Ignored(topic) \/ text = Undecodable \/ id \notin Devices
              \/ Inconvertible(Model[id], included[id], topic[4], value)
           THEN tasks
           ELSE [tasks EXCEPT ![id] =
                   Append(@, ToTuyaPayload(Model[id], included[id], topic[4], value))]
  /\ UNCHANGED <<included, announcing, known, buffer, due, awaited, retry,
                 processor, states, overtaken, discovered, sent, device, reports, shown, now, history>>

\* The hub commands a component it discovered.
Press ==
  \E m \in discovered :
    /\ m.command_topic # Nothing
    /\ \E text \in Presses[m.unique_id[1]][m.template] : Receive(m.command_topic, text)

\* Someone else publishes on a topic of another length, or on another's, or what
\* cannot be decoded.
Stray ==
  \E id \in Device :
    \/ Receive(DriverPrefix \o <<"set", id>>, Word("true"))
    \/ Receive(CommandTopic(id, "power"), Undecodable)
    \/ id \notin Devices /\ Receive(CommandTopic(id, "power"), Word("true"))

\* Before the first report a command waits for it, and reaches the timeout.
Forget(id) ==
  /\ tasks[id] # <<>> /\ known[id] = NoValues
  /\ tasks' = [tasks EXCEPT ![id] = Tail(@)]
  /\ UNCHANGED <<included, announcing, listening, known, buffer, due, awaited, retry,
                 processor, states, overtaken, world, history>>

\* The device has, or is about to have, another value than the one it reported.
Moving(id, d) ==
  \/ device[id][d] # known[id][d]
  \/ \E i \in DOMAIN sent[id] : sent[id][i][d] \notin {known[id][d], Absent}

\* The data points whose wanted value is dropped as the one the device reported.
Settled(id, wanted) == {d \in Keys(wanted) : wanted[d] = known[id][d]}

WantedAlone(id, values) == values  \* seeded fault: the buffer is replaced
Wanted(id, values) == Merge(buffer[id], values)

\* The values of a command are stored, without those the device has and those the
\* constraints exclude.
Stored(id) ==
  /\ tasks[id] # <<>> /\ known[id] # NoValues
  /\ LET values == Head(tasks[id])
         wanted == Wanted(id, values)
         differing == Differing(wanted, known[id])
         kept == FilterValues(Rules(Model[id]), differing, known[id])
         forbidden == Keys(differing) \ Keys(kept)
     IN  IF values = NoValues
         THEN UNCHANGED <<buffer, asked, undone>>
         ELSE /\ buffer' = [buffer EXCEPT ![id] = kept]
              /\ asked' = [asked EXCEPT ![id] = [d \in DataPoint |->
                             IF d \in forbidden THEN Absent ELSE Merge(@, values)[d]]]
              /\ undone' = [undone EXCEPT ![id] =
                              (@ \ Keys(values))
                                \cup {d \in Settled(id, wanted) : Moving(id, d)}]
  /\ tasks' = [tasks EXCEPT ![id] = Tail(@)]
  /\ UNCHANGED <<included, announcing, listening, known, processor, states, overtaken,
                 missed, readings>>

\* What becomes of the retry task when the future it may be waiting for is set.
Answered(r) == IF r.step = "waiting" THEN [step |-> "backoff", tries |-> r.tries + 1] ELSE r

\* The rest of update: the update task starts anew and the future is awaited; when
\* nothing is left to send it is stopped and the future is set, which raises when it
\* was cancelled.
Store(id) ==
  /\ Stored(id)
  /\ LET sending == buffer'[id] # NoValues
     IN  /\ due' = [due EXCEPT ![id] = sending]
         /\ awaited' = [awaited EXCEPT ![id] =
              IF @ = "cancelled" THEN @ ELSE IF sending THEN "command" ELSE "nobody"]
         /\ retry' = [retry EXCEPT ![id] =
              IF sending \/ awaited[id] = "cancelled" THEN @ ELSE Answered(@)]
  /\ UNCHANGED <<world, unconfirmed>>

\* The pool's timeout, once the values are stored and before the call that is on its
\* way has ended.  Where another waits for its end too, that one sends the values, as
\* in Store.
CutShort(id) ==
  /\ Stored(id)
  /\ sent[id] # <<>> /\ ~due[id]
  /\ Spend("loss")
  /\ unconfirmed' = [unconfirmed EXCEPT ![id] =
       @ \/ (buffer'[id] # NoValues /\ retry[id].step = "idle")]
  /\ UNCHANGED <<due, awaited, retry, discovered, sent, device, reports, shown, now>>

\* The pool's timeout, while the future is awaited: it is cancelled, and with it the
\* retry task if that awaits it too.
Cancel(id) ==
  /\ awaited[id] = "command"
  /\ Spend("loss")
  /\ awaited' = [awaited EXCEPT ![id] = "cancelled"]
  /\ retry' = [retry EXCEPT ![id] = IF @.step = "waiting" THEN Idle ELSE @]
  /\ UNCHANGED <<included, announcing, listening, tasks, known, buffer, due, processor,
                 states, overtaken, discovered, sent, device, reports, shown, now, history>>

\* The retry task after a call: a new one, unless one runs or none is to; it is not
\* reached when the future was cancelled, as setting it raises.
AfterCall(r, future) ==
  IF future = "cancelled" THEN r
  ELSE IF r.step = "idle" /\ Retries > 0 THEN [step |-> "backoff", tries |-> 0]
  ELSE Answered(r)

\* The update task: the call, unless the buffer was emptied during the debounce,
\* which leaves the future as it is.
Send(id) ==
  /\ due[id] /\ HasRoom(sent[id])
  /\ due' = [due EXCEPT ![id] = FALSE]
  /\ IF buffer[id] = NoValues
     THEN UNCHANGED <<sent, awaited, retry, unconfirmed>>
     ELSE /\ sent' = [sent EXCEPT ![id] = Append(@, buffer[id])]
          /\ awaited' = [awaited EXCEPT ![id] = "nobody"]
          /\ retry' = [retry EXCEPT ![id] = AfterCall(@, awaited[id])]
          /\ unconfirmed' = [unconfirmed EXCEPT ![id] = retry'[id].step = "idle"]
  /\ UNCHANGED <<included, announcing, listening, tasks, known, buffer, processor, states,
                 overtaken, discovered, device, reports, shown, now, used, asked, undone,
                 missed, readings>>

\* The retry task, after its backoff: it ends when nothing is left, or after the last
\* retry, or as it awaits a future that was cancelled.  A report has all the data
\* points of the device (TypeOK), so that none is missing from it.
Check(id) ==
  /\ retry[id].step = "backoff"
  /\ LET left == Differing(buffer[id], known[id])
         again == left # NoValues /\ retry[id].tries # Retries
     IN  /\ buffer' = [buffer EXCEPT ![id] = left]
         /\ undone' = [undone EXCEPT ![id] = @ \cup
                         {d \in Settled(id, buffer[id]) : Moving(id, d)}]
         /\ due' = [due EXCEPT ![id] = @ \/ again]
         /\ retry' = [retry EXCEPT ![id] =
              IF again /\ awaited[id] # "cancelled" THEN [@ EXCEPT !.step = "waiting"] ELSE Idle]
         /\ unconfirmed' = [unconfirmed EXCEPT ![id] = left # NoValues /\ ~again]
  /\ UNCHANGED <<included, announcing, listening, tasks, known, awaited, processor, states,
                 overtaken, world, asked, missed, readings>>

-----------------------------------------------------------------------------
(* The devices.  A report is the state that the keeper holds once it has    *)
(* it; before its first response, which is complete, changes are not kept.  *)

Told(id, values) ==
  IF known[id] = NoValues /\ reports[id] = <<>> THEN reports[id]
  ELSE Append(reports[id], values)

\* The first response, or the one that follows a reconnection, which loses the
\* calls and the reports on their way.
Respond(id) ==
  /\ \/ known[id] = NoValues /\ reports[id] = <<>> /\ UNCHANGED used
     \/ known[id] # NoValues /\ Spend("loss")
  /\ sent' = [sent EXCEPT ![id] = <<>>]
  /\ reports' = [reports EXCEPT ![id] = <<device[id]>>]
  /\ UNCHANGED <<included, driver, discovered, device, shown, now, history>>

Apply(id) ==
  /\ sent[id] # <<>> /\ HasRoom(reports[id])
  /\ LET values == Merge(device[id], Head(sent[id]))
     IN  /\ device' = [device EXCEPT ![id] = values]
         /\ reports' = [reports EXCEPT ![id] = Told(id, values)]
  /\ sent' = [sent EXCEPT ![id] = Tail(@)]
  /\ UNCHANGED <<included, driver, discovered, shown, now, used, history>>

\* By its remote, or by what it measures.
Change(id) ==
  \E d \in Points(id) : \E x \in Takes[id][d] \ {device[id][d]} :
    /\ HasRoom(reports[id])
    /\ Spend(IF d = "temperature" THEN "measure" ELSE "act")
    /\ device' = [device EXCEPT ![id][d] = x]
    /\ reports' = [reports EXCEPT ![id] = Told(id, device'[id])]
    /\ asked' = [asked EXCEPT ![id][d] = Absent]
    /\ UNCHANGED <<included, driver, discovered, sent, shown, now, undone, unconfirmed,
                   missed, readings>>

-----------------------------------------------------------------------------
(* The state, from the device's report to the hub.                          *)

\* Seeded fault: values[-n:].
KeptOneMore(values) ==
  IF Len(values) <= Window THEN values
  ELSE SubSeq(values, Len(values) - Window + 1, Len(values))

\* values[1 - n:], with n = Window: everything when n is 1.
Kept(values) ==
  IF Window = 1 \/ Len(values) < Window THEN values
  ELSE SubSeq(values, Len(values) - Window + 2, Len(values))

\* Seeded fault: the period begins anew with every value.
ProcessedTrailing(p, value) ==
  LET values == Append(Kept(p.values), value)
  IN  IF p.last = <<>> \/ now >= p.time + Period
      THEN [values |-> values, last |-> values, time |-> now]
      ELSE [p EXCEPT !.values = values, !.time = now]

\* moving_average, then debounce, which keeps the values whose mean it returns.
Processed(p, value) ==
  LET values == Append(Kept(p.values), value)
  IN  IF p.last = <<>> \/ now >= p.time + Period
      THEN [values |-> values, last |-> values, time |-> now]
      ELSE [p EXCEPT !.values = values]

\* The mean, rounded by round_(1).
Mean(values) ==
  Number(RoundedDiv(FoldSeq(LAMBDA v, sum : sum + v.tenths, 0, values), Len(values)))

\* Seeded fault: TuyaStateUpdated carries what changed.
UpdatedAlone(id, values) == Differing(values, known[id])
\* The values of TuyaStateUpdated: all that is known.
Updated(id, values) == values

\* State._update, then the listeners of TuyaStateUpdated: the buffer and
\* Device._update_state, whose errors emit swallows.
Learn(id) ==
  /\ reports[id] # <<>> /\ HasRoom(states[id])
  /\ LET values == Head(reports[id])
         measured == "temperature" \in Reported(Model[id], included[id], values)
         updated == values # known[id]
     IN  /\ known' = [known EXCEPT ![id] = values]
         /\ IF updated /\ measured
            THEN /\ processor' = [processor EXCEPT ![id] =
                                    Processed(@, values["temperature"])]
                 /\ readings' = [readings EXCEPT ![id] =
                                   Append(@, [time |-> now, value |-> values["temperature"]])]
            ELSE UNCHANGED <<processor, readings>>
         /\ IF ~updated THEN UNCHANGED <<states, missed>>
            ELSE IF Unknown(Model[id], included[id], values)
            THEN missed' = [missed EXCEPT ![id] = Names(id)] /\ UNCHANGED states
            ELSE /\ states' = [states EXCEPT ![id] = Append(@,
                      FromTuyaPayload(Model[id], included[id], Updated(id, values),
                        IF measured THEN Mean(processor'[id].last) ELSE Nothing))]
                 /\ missed' = [missed EXCEPT ![id] = {}]
  /\ reports' = [reports EXCEPT ![id] = Tail(@)]
  /\ UNCHANGED <<included, announcing, listening, tasks, buffer, due, awaited, retry,
                 overtaken, discovered, sent, device, shown, now, used, asked, undone,
                 unconfirmed>>

\* The calls of send_state that the pool runs.
InPool(id) == DOMAIN states[id] \cap 1..2

\* Nothing newer is to be published after the i-th, nor was.
Newest(id, i) == i = Len(states[id]) /\ ~(overtaken[id] /\ i = 1)

Remaining(queue, i) == SubSeq(queue, 1, i - 1) \o SubSeq(queue, i + 1, Len(queue))

\* send_state, which is not retained: the hub takes it for the components it
\* discovered, each by its template.  The second of the pool comes before the first
\* when the call of the first failed, which publishes again once reconnected.
Publish(id) ==
  \E i \in InPool(id) :
    /\ states' = [states EXCEPT ![id] = Remaining(@, i)]
    /\ overtaken' = [overtaken EXCEPT ![id] = i = 2]
    /\ IF i = 1 \/ overtaken[id] THEN UNCHANGED used ELSE Spend("loss")
    /\ LET heard == {m \in discovered : m.state_topic = StateTopic(id)}
           values == states[id][i]
       IN  /\ shown' = [shown EXCEPT ![id] =
                [c \in DOMAIN @ \cup {m.template : m \in heard} |->
                   IF c \notin {m.template : m \in heard} THEN @[c]
                   ELSE IF c \in DOMAIN values THEN values[c] ELSE Nothing]]
           /\ missed' = [missed EXCEPT ![id] =
                IF Newest(id, i) THEN @ \cup (Names(id) \ {m.template : m \in heard})
                ELSE IF Len(states[id]) = 1 THEN Names(id) ELSE @]
    /\ UNCHANGED <<included, announcing, listening, tasks, known, buffer, due, awaited, retry,
                   processor, discovered, sent, device, reports, now, asked, undone,
                   unconfirmed, readings>>

\* The pool's timeout, while the broker is away.
DropState(id) ==
  \E i \in InPool(id) :
    /\ Spend("loss")
    /\ states' = [states EXCEPT ![id] = Remaining(@, i)]
    /\ overtaken' = [overtaken EXCEPT ![id] = @ /\ i = 2]
    /\ missed' = [missed EXCEPT ![id] = IF Newest(id, i) THEN Names(id) ELSE @]
    /\ UNCHANGED <<included, announcing, listening, tasks, known, buffer, due, awaited, retry,
                   processor, discovered, sent, device, reports, shown, now, asked, undone,
                   unconfirmed, readings>>

Tick ==
  /\ Spend("tick")
  /\ \E id \in Devices : "temperature" \in Names(id)
  /\ now' = now + 1
  /\ UNCHANGED <<included, driver, discovered, sent, device, reports, shown, history>>

\* The driver stops, or crashes, and starts again: what is in memory is lost.
Restart ==
  /\ Spend("loss")
  /\ announcing' = [id \in Devices |-> Names(id)]
  /\ listening' = TRUE
  /\ tasks' = [id \in Devices |-> <<>>]
  /\ known' = [id \in Devices |-> NoValues]
  /\ buffer' = [id \in Devices |-> NoValues]
  /\ due' = [id \in Devices |-> FALSE]
  /\ awaited' = [id \in Devices |-> "nobody"]
  /\ retry' = [id \in Devices |-> Idle]
  /\ processor' = [id \in Devices |-> NoProcessor]
  /\ states' = [id \in Devices |-> <<>>]
  /\ overtaken' = [id \in Devices |-> FALSE]
  /\ reports' = [id \in Devices |-> <<>>]
  /\ asked' = [id \in Devices |-> NoValues]
  /\ undone' = [id \in Devices |-> {}]
  /\ unconfirmed' = [id \in Devices |-> FALSE]
  /\ readings' = [id \in Devices |-> <<>>]
  /\ UNCHANGED <<included, discovered, sent, device, shown, now, missed>>

Next ==
  \/ Press \/ Stray \/ Tick \/ Restart
  \/ \E id \in Devices :
       \/ Announce(id) \/ AbandonAnnouncement(id)
       \/ Forget(id) \/ Store(id) \/ CutShort(id) \/ Cancel(id)
       \/ Send(id) \/ Check(id)
       \/ Respond(id) \/ Apply(id) \/ Change(id)
       \/ Learn(id) \/ Publish(id) \/ DropState(id)

Spec == Init /\ [][Next]_vars

-----------------------------------------------------------------------------
(* Properties.                                                              *)

TypeOK ==
  /\ included \in Configs
  /\ \A id \in Devices :
       /\ announcing[id] \subseteq Names(id)
       /\ {known[id], buffer[id], device[id], asked[id]} \subseteq Values
       /\ Keys(known[id]) \in {{}, PointsOfDevice(id)}
       /\ Keys(device[id]) = PointsOfDevice(id)
       /\ Keys(buffer[id]) \subseteq Points(id)
       /\ awaited[id] \in {"nobody", "command", "cancelled"}
       /\ retry[id] \in [step : {"idle", "backoff", "waiting"}, tries : 0..Retries]
       /\ \A i \in DOMAIN states[id] : DOMAIN states[id][i] = Names(id)
       /\ DOMAIN shown[id] \subseteq Names(id)
       /\ Window > 1 => Len(processor[id].values) <= Window
       /\ missed[id] \subseteq Names(id) /\ undone[id] \subseteq DataPoint

(* A command that the hub gives as it was announced is understood: it       *)
(* reaches its device and no other, it converts, and once the device has    *)
(* taken it the state shows the value that was asked, for every value       *)
(* offered.                                                                 *)
OfferedIsUnderstood ==
  [][\A m \in discovered' \ discovered : m.command_topic # Nothing =>
       LET id == m.unique_id[1]
           c == m.command_topic[4]
       IN  /\ Subscribed(m.command_topic) /\ ~Ignored(m.command_topic)
           /\ m.command_topic[3] = id
           /\ \A v \in Offers(id, m.template) :
                LET values == ToTuyaPayload(Model[id], included[id], c, v)
                IN  /\ ~Inconvertible(Model[id], included[id], c, v)
                    /\ ~Unknown(Model[id], included[id], values)
                    /\ FromTuyaPayload(Model[id], included[id], values, Nothing)
                         = [x \in {m.template} |-> v]]_vars

\* Nothing is on its way between the hub and the device.
Quiet(id) ==
  /\ known[id] # NoValues
  /\ tasks[id] = <<>> /\ ~due[id] /\ retry[id].step # "backoff"
  /\ sent[id] = <<>> /\ reports[id] = <<>> /\ states[id] = <<>>

(* Once nothing is on its way the hub shows what the device has, after any  *)
(* commands, changes, reconnections and restarts, but for the components    *)
(* whose last state it missed: one announced after it, one that the code    *)
(* could not convert, one dropped by the pool's timeout, or one that an     *)
(* older state followed, published again after a failure of its own         *)
(* (client.py 182-195, in a pool of two).  A state carries every            *)
(* component, so the next one repairs what was missed.                      *)
ShownIsTheDevices ==
  \A id \in Devices : Quiet(id) =>
    \A c \in Names(id) \ (missed[id] \cup {"temperature"}) :
      c \in DOMAIN shown[id]
        /\ shown[id][c] = FromTuyaPayload(Model[id], included[id], device[id], Nothing)[c]

\* The device has the value last asked; or the driver has given up on it, and keeps
\* it in the buffer, with which the next command sends it.
Obeyed(id, d) ==
  \/ device[id][d] = asked[id][d]
  \/ unconfirmed[id] /\ buffer[id][d] = asked[id][d]

(* Once nothing is on its way the device has the values last asked of it,   *)
(* although commands are merged, filtered, lost and sent again, unless the  *)
(* constraints excluded them or the device was changed since.  A value that *)
(* it lacks all the same the driver has given up on: the last call was not  *)
(* checked (buffer.py 94, 99, 121), or was the last retry (150-156), or the *)
(* command was cut short (62); and that value is not lost, the buffer has   *)
(* it.  The values of `undone` are the subject of LastCommandPrevails.      *)
AskedPrevails ==
  \A id \in Devices : Quiet(id) =>
    \A d \in Keys(asked[id]) \ undone[id] : Obeyed(id, d)

(* A temperature that is published is the rounded mean of the last values   *)
(* reported (at most Window of them) at an instant of the last Period,      *)
(* whatever failed to convert or was repeated meanwhile.                    *)
TemperatureIsRecent ==
  [][\A id \in Devices :
       Len(states'[id]) > Len(states[id]) /\ "temperature" \in Names(id) =>
         \E k \in DOMAIN readings'[id] :
           LET first == IF k < Window THEN 1 ELSE k - Window + 1
               window == SubSeq(readings'[id], first, k)
           IN  /\ readings'[id][k].time > now - Period \/ k = Len(readings'[id])
               /\ Last(states'[id])["temperature"]
                    = Mean([i \in DOMAIN window |-> window[i].value])]_vars

(* README.md of the device, line 25: "If 2 commands cancel each other       *)
(* nothing will be sent to the device."  A command that takes back one      *)
(* that was sent prevails too.                                              *)
LastCommandPrevails ==
  \A id \in Devices : Quiet(id) => \A d \in Keys(asked[id]) : Obeyed(id, d)
=============================================================================
