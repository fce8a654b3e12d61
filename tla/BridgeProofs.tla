---------------------------- MODULE BridgeProofs ----------------------------
(***************************************************************************)
(* Theorems on Bridge for any devices of the two models, commands, changes *)
(* and losses: what is announced is understood, once nothing is on its way *)
(* the device has what was asked of it and the hub shows what the device   *)
(* has, and a temperature that is published is the mean of the last ones.  *)
(***************************************************************************)
EXTENDS Bridge, SequenceTheorems, TLAPS

\* The dictionaries that hold no other data points than those of P, and all.
Within(P) == {v \in Values : Keys(v) \subseteq P}
Complete(P) == {v \in Values : Keys(v) = P}

\* A sequence of anything.
IsQueue(s) == s \in Seq({s[i] : i \in DOMAIN s})

Reading == [time : Nat, value : Value]
Processor == [values : Seq(Value), last : Seq(Value), time : Nat]

-----------------------------------------------------------------------------
(* The types.                                                               *)

\* There is one of everything for each device of the configuration.
MapDomains ==
  /\ DOMAIN announcing = Devices /\ DOMAIN tasks = Devices /\ DOMAIN known = Devices
  /\ DOMAIN buffer = Devices /\ DOMAIN due = Devices /\ DOMAIN awaited = Devices
  /\ DOMAIN retry = Devices /\ DOMAIN overtaken = Devices /\ DOMAIN unconfirmed = Devices
  /\ DOMAIN sent = Devices /\ DOMAIN device = Devices /\ DOMAIN reports = Devices
  /\ DOMAIN processor = Devices /\ DOMAIN states = Devices /\ DOMAIN shown = Devices
  /\ DOMAIN asked = Devices /\ DOMAIN undone = Devices /\ DOMAIN missed = Devices
  /\ DOMAIN readings = Devices

\* Commands hold data points of the components that are included, reports all.
DeviceKinds(id) ==
  /\ announcing[id] \subseteq Names(id)
  /\ tasks[id] \in Seq(Within(Points(id)))
  /\ buffer[id] \in Within(Points(id))
  /\ sent[id] \in Seq(Within(Points(id)))
  /\ known[id] \in Complete(PointsOfDevice(id)) \cup {NoValues}
  /\ device[id] \in Complete(PointsOfDevice(id))
  /\ reports[id] \in Seq(Complete(PointsOfDevice(id)))
  /\ asked[id] \in Values
  /\ undone[id] \subseteq DataPoint
  /\ missed[id] \subseteq Names(id)
  /\ IsQueue(states[id])
  /\ \A i \in DOMAIN states[id] : DOMAIN states[id][i] = Names(id)
  /\ DOMAIN shown[id] \subseteq Names(id)
  /\ processor[id] \in Processor
  /\ Window > 1 => Len(processor[id].values) <= Window
  /\ readings[id] \in Seq(Reading)

\* What the buffer awaits, and what its retry task does.
RetryKind(id) ==
  /\ awaited[id] \in {"nobody", "command", "cancelled"}
  /\ retry[id] \in [step : {"idle", "backoff", "waiting"}, tries : 0..Retries]
  /\ retry[id].step = "waiting" => retry[id].tries # Retries

Discoveries == \A m \in discovered : \E id \in Devices : \E c \in Names(id) : m = Message(id, c)

Kinds ==
  /\ included \in Configs
  /\ now \in Nat
  /\ Discoveries
  /\ MapDomains
  /\ \A id \in Devices : DeviceKinds(id)
  /\ \A id \in Devices : RetryKind(id)

-----------------------------------------------------------------------------
(* Commands.                                                                *)

\* What was asked of a data point waits in the buffer; or the device has it,
\* and nothing else is on its way to it.
Prevails(id, d) ==
  \/ buffer[id][d] = asked[id][d]
  \/ /\ buffer[id][d] = Absent
     /\ device[id][d] = asked[id][d]
     /\ \A i \in DOMAIN sent[id] : sent[id][i][d] \in {asked[id][d], Absent}

\* What is in the buffer is to be sent or checked, or the driver has given up on it;
\* and the retry task waits for a call that comes.
Armed(id) ==
  /\ buffer[id] # NoValues => due[id] \/ retry[id].step = "backoff" \/ unconfirmed[id]
  /\ retry[id].step = "waiting" =>
       due[id] /\ buffer[id] # NoValues /\ awaited[id] # "cancelled"

CommandInv(id) ==
  /\ Armed(id)
  /\ \A d \in Keys(asked[id]) \ undone[id] : Prevails(id, d)

-----------------------------------------------------------------------------
(* States.                                                                  *)

\* The newest state has reached the hub: nothing is on its way to it, but an older
\* one that it overtook.
Reached(id) == states[id] = <<>> \/ (overtaken[id] /\ Len(states[id]) = 1)

\* The last report is the device's state, and the last state that is on its
\* way to the hub or that it shows is the one that is known.
StateInv(id) ==
  /\ reports[id] = <<>> => known[id] \in {NoValues, device[id]}
  /\ reports[id] # <<>> => Last(reports[id]) = device[id]
  /\ known[id] = NoValues => states[id] = <<>>
  /\ overtaken[id] => states[id] # <<>>
  /\ known[id] # NoValues =>
       \A c \in Names(id) \ (missed[id] \cup {"temperature"}) :
         LET value == FromTuyaPayload(Model[id], included[id], known[id], Nothing)[c]
         IN  /\ Reached(id) => c \in DOMAIN shown[id] /\ shown[id][c] = value
             /\ ~Reached(id) => Last(states[id])[c] = value

-----------------------------------------------------------------------------
(* Temperatures.                                                            *)

\* The values of the last readings up to the k-th.
First(k) == IF k < Window THEN 1 ELSE k - Window + 1
Recent(r, k) == [i \in 1..(k - First(k) + 1) |-> r[First(k) + i - 1].value]

\* The processors keep the last readings, and those at the instant of the last
\* value they gave.
ProcessorInv(id) ==
  Window > 1 =>
    /\ processor[id].values = Recent(readings[id], Len(readings[id]))
    /\ processor[id].last # <<>> =>
         \E k \in DOMAIN readings[id] :
           /\ processor[id].last = Recent(readings[id], k)
           /\ processor[id].time = readings[id][k].time

-----------------------------------------------------------------------------
(* Sequences.                                                               *)

LEMMA Appending ==
  ASSUME NEW S, NEW s \in Seq(S), NEW x \in S
  PROVE  /\ Append(s, x) \in Seq(S) /\ Append(s, x) # <<>> /\ Last(Append(s, x)) = x
         /\ Len(Append(s, x)) = Len(s) + 1
         /\ \A i \in 1..Len(s) : Append(s, x)[i] = s[i]
         /\ Append(s, x)[Len(s) + 1] = x
BY DEF Last

LEMMA Advancing ==
  ASSUME NEW S, NEW s \in Seq(S), s # <<>>
  PROVE  /\ Tail(s) \in Seq(S) /\ Head(s) \in S /\ Last(s) \in S
         /\ Len(Tail(s)) = Len(s) - 1 /\ Len(s) \in Nat \ {0}
         /\ Head(s) = s[1] /\ \A i \in 1..(Len(s) - 1) : Tail(s)[i] = s[i + 1]
         /\ Tail(s) = <<>> => Last(s) = Head(s)
         /\ Tail(s) # <<>> => Last(Tail(s)) = Last(s)
<1>1. /\ Tail(s) \in Seq(S) /\ Len(Tail(s)) = Len(s) - 1 /\ Len(s) \in Nat \ {0}
      /\ Head(s) = s[1] /\ Head(s) \in S /\ \A i \in 1..(Len(s) - 1) : Tail(s)[i] = s[i + 1]
      /\ s[Len(s)] \in S
  OBVIOUS
<1>2. Tail(s) = <<>> => Len(s) = 1
  <2>1. Tail(s) = <<>> => Len(Tail(s)) = 0
    BY EmptySeq
  <2> QED  BY <1>1, <2>1
<1>3. Tail(s) # <<>> => Len(s) - 1 \in 1..(Len(s) - 1)
  <2>1. Tail(s) # <<>> => Len(Tail(s)) # 0
    BY <1>1, EmptySeq
  <2> QED  BY <1>1, <2>1
<1>4. Tail(s) # <<>> => Tail(s)[Len(s) - 1] = s[Len(s)]
  BY <1>1, <1>3
<1> QED  BY <1>1, <1>2, <1>4 DEF Last

LEMMA Queued ==
  ASSUME NEW s, IsQueue(s)
  PROVE  /\ \A x : /\ IsQueue(Append(s, x)) /\ Append(s, x) # <<>> /\ Last(Append(s, x)) = x
                   /\ DOMAIN Append(s, x) = DOMAIN s \cup {Len(s) + 1}
                   /\ Append(s, x)[Len(s) + 1] = x
                   /\ \A i \in DOMAIN s : Append(s, x)[i] = s[i]
         /\ s # <<>> =>
              /\ IsQueue(Tail(s))
              /\ 1 \in DOMAIN s /\ Head(s) = s[1]
              /\ \A i \in DOMAIN Tail(s) : i + 1 \in DOMAIN s /\ Tail(s)[i] = s[i + 1]
              /\ Tail(s) = <<>> => Last(s) = Head(s)
              /\ Tail(s) # <<>> => Last(Tail(s)) = Last(s)
         /\ Len(s) \in Nat /\ DOMAIN s = 1..Len(s)
<1> DEFINE R == {s[i] : i \in DOMAIN s}
<1>1. s \in Seq(R) /\ DOMAIN s = 1..Len(s) /\ Len(s) \in Nat
  BY DEF IsQueue
<1> HIDE DEF R
<1>2. ASSUME NEW x
      PROVE  /\ IsQueue(Append(s, x)) /\ Append(s, x) # <<>> /\ Last(Append(s, x)) = x
             /\ DOMAIN Append(s, x) = DOMAIN s \cup {Len(s) + 1}
             /\ Append(s, x)[Len(s) + 1] = x
             /\ \A i \in DOMAIN s : Append(s, x)[i] = s[i]
  <2> DEFINE t == Append(s, x)
  <2>1. s \in Seq(R \cup {x}) /\ x \in R \cup {x}
    BY <1>1
  <2>2. /\ t \in Seq(R \cup {x}) /\ t # <<>> /\ Last(t) = x /\ Len(t) = Len(s) + 1
        /\ \A i \in 1..Len(s) : t[i] = s[i]
        /\ t[Len(s) + 1] = x
    BY <2>1, Appending
  <2> HIDE DEF t
  <2>3. DOMAIN t = 1..Len(t) /\ Len(t) \in Nat
    BY <2>2
  <2>4. t \in Seq({t[i] : i \in DOMAIN t})
    BY <2>2, <2>3
  <2> QED  BY <1>1, <2>2, <2>3, <2>4, SMTT(40) DEF IsQueue, t
<1>3. ASSUME s # <<>>
      PROVE  /\ IsQueue(Tail(s))
             /\ 1 \in DOMAIN s /\ Head(s) = s[1]
             /\ \A i \in DOMAIN Tail(s) : i + 1 \in DOMAIN s /\ Tail(s)[i] = s[i + 1]
             /\ Tail(s) = <<>> => Last(s) = Head(s)
             /\ Tail(s) # <<>> => Last(Tail(s)) = Last(s)
  <2> DEFINE t == Tail(s)
  <2>1. /\ t \in Seq(R) /\ Len(t) = Len(s) - 1 /\ Len(s) \in Nat \ {0} /\ Head(s) = s[1]
        /\ \A i \in 1..(Len(s) - 1) : t[i] = s[i + 1]
        /\ t = <<>> => Last(s) = Head(s)
        /\ t # <<>> => Last(t) = Last(s)
    BY <1>1, <1>3, Advancing
  <2> HIDE DEF t
  <2>2. DOMAIN t = 1..(Len(s) - 1)
    BY <2>1
  <2>3. t \in Seq({t[i] : i \in DOMAIN t})
    BY <2>1, <2>2
  <2>4. 1 \in DOMAIN s /\ \A i \in DOMAIN t : i + 1 \in DOMAIN s /\ t[i] = s[i + 1]
    BY <1>1, <2>1, <2>2
  <2> QED  BY <2>1, <2>3, <2>4 DEF IsQueue, t
<1> QED  BY <1>1, <1>2, <1>3

\* One leaves the queue.
LEMMA Removing ==
  ASSUME NEW s, IsQueue(s), NEW i \in DOMAIN s
  PROVE  /\ IsQueue(Remaining(s, i)) /\ Len(Remaining(s, i)) = Len(s) - 1
         /\ \A j \in DOMAIN Remaining(s, i) :
              \E k \in DOMAIN s : Remaining(s, i)[j] = s[k]
         /\ i < Len(s) => Last(Remaining(s, i)) = Last(s)
<1> DEFINE R == {s[j] : j \in DOMAIN s}
           n == Len(s)
           a == SubSeq(s, 1, i - 1)
           b == SubSeq(s, i + 1, n)
           t == a \o b
<1>1. s \in Seq(R) /\ n \in Nat /\ DOMAIN s = 1..n /\ i \in 1..n
  BY DEF IsQueue
<1>2. a \in Seq(R) /\ Len(a) = i - 1 /\ \A j \in 1..(i - 1) : a[j] = s[j]
  <2>1. \A j \in 1..(i - 1) : s[j] \in R
    BY <1>1
  <2> HIDE DEF R, n
  <2> QED  BY <1>1, <2>1, SubSeqProperties
<1>3. b \in Seq(R) /\ Len(b) = n - i /\ \A j \in 1..(n - i) : b[j] = s[i + j]
  <2>1. \A j \in (i + 1)..n : s[j] \in R
    BY <1>1
  <2> HIDE DEF R, n
  <2> QED  BY <1>1, <2>1, SubSeqProperties
<1> HIDE DEF R, a, b
<1>4. /\ t \in Seq(R) /\ Len(t) = n - 1
      /\ \A j \in 1..(n - 1) : t[j] = IF j <= i - 1 THEN a[j] ELSE b[j - (i - 1)]
  <2>1. Len(a) + Len(b) = n - 1
    <3> HIDE DEF n
    <3> QED  BY <1>1, <1>2, <1>3
  <2>2. /\ t \in Seq(R) /\ Len(t) = Len(a) + Len(b)
        /\ \A j \in 1..(Len(a) + Len(b)) :
             t[j] = IF j <= Len(a) THEN a[j] ELSE b[j - Len(a)]
    BY <1>2, <1>3, ConcatProperties
  <2> HIDE DEF n, t
  <2> QED  BY <1>2, <2>1, <2>2
<1> HIDE DEF t, n
<1>5. DOMAIN t = 1..(n - 1)
  BY <1>4
<1>6. ASSUME NEW j \in 1..(n - 1)
      PROVE  t[j] = IF j <= i - 1 THEN s[j] ELSE s[j + 1]
  <2>1. CASE j <= i - 1
    BY <1>1, <1>2, <1>4, <2>1
  <2>2. CASE ~(j <= i - 1)
    <3>1. j - (i - 1) \in 1..(n - i) /\ i + (j - (i - 1)) = j + 1
      BY <1>1, <2>2
    <3> QED  BY <1>3, <1>4, <2>2, <3>1
  <2> QED  BY <2>1, <2>2
<1>7. \A j \in DOMAIN t : \E k \in DOMAIN s : t[j] = s[k]
  <2> SUFFICES ASSUME NEW j \in 1..(n - 1)  PROVE \E k \in DOMAIN s : t[j] = s[k]
    BY <1>5
  <2>1. j \in 1..n /\ j + 1 \in 1..n
    BY <1>1
  <2> QED  BY <1>1, <1>6, <2>1
<1>8. IsQueue(t)
  <2>1. t \in Seq({t[j] : j \in DOMAIN t})
    BY <1>4, <1>5
  <2> QED  BY <2>1 DEF IsQueue
<1>9. i < n => Last(t) = Last(s)
  <2> SUFFICES ASSUME i < n  PROVE t[n - 1] = s[n]
    BY <1>4 DEF Last, n
  <2>1. n - 1 \in 1..(n - 1) /\ ~(n - 1 <= i - 1) /\ (n - 1) + 1 = n
    BY <1>1
  <2> QED  BY <1>6, <2>1
<1> QED  BY <1>4, <1>7, <1>8, <1>9 DEF Remaining, t, a, b, n

-----------------------------------------------------------------------------
(* Dictionaries.                                                            *)

LEMMA Dictionaries ==
  /\ NoValues \in Values /\ Keys(NoValues) = {}
  /\ \A P : NoValues \in Within(P)
  /\ \A v \in Values : v # NoValues => Keys(v) # {}
<1>1. NoValues \in Values /\ Keys(NoValues) = {}
  BY DEF NoValues, Values, Keys
<1>2. ASSUME NEW v \in Values, Keys(v) = {}  PROVE v = NoValues
  BY <1>2 DEF NoValues, Values, Keys
<1> QED  BY <1>1, <1>2 DEF Within

LEMMA Merged ==
  ASSUME NEW v \in Values, NEW w \in Values
  PROVE  /\ Merge(v, w) \in Values /\ Differing(v, w) \in Values
         /\ \A T : FilterValues(T, v, w) \in Values
         /\ \A d \in DataPoint :
              /\ Merge(v, w)[d] = IF w[d] # Absent THEN w[d] ELSE v[d]
              /\ Differing(v, w)[d] = IF v[d] = w[d] THEN Absent ELSE v[d]
         /\ \A T : \A d \in DataPoint : FilterValues(T, v, w)[d] \in {v[d], Absent}
<1>1. Merge(v, w) \in Values /\ Differing(v, w) \in Values
  BY DEF Values, Merge, Differing
<1>2. \A T : \A d \in DataPoint : FilterValues(T, v, w)[d] \in {v[d], Absent}
  BY DEF FilterValues
<1>3. \A T : FilterValues(T, v, w) \in Values
  <2> TAKE T
  <2> DEFINE b == Blacklist(T, Merge(w, v))
  <2>1. FilterValues(T, v, w) =
          [d \in DataPoint |->
             IF d \in DOMAIN b /\ (b[d] = {} \/ v[d] \in b[d]) THEN Absent ELSE v[d]]
    BY DEF FilterValues
  <2> HIDE DEF b
  <2> QED  BY <2>1 DEF Values
<1>4. \A d \in DataPoint :
              /\ Merge(v, w)[d] = IF w[d] # Absent THEN w[d] ELSE v[d]
              /\ Differing(v, w)[d] = IF v[d] = w[d] THEN Absent ELSE v[d]
  BY DEF Merge, Differing
<1> QED  BY <1>1, <1>2, <1>3, <1>4

LEMMA Merging ==
  ASSUME NEW P, NEW v \in Values, NEW w \in Values
  PROVE  /\ v \in Within(P) /\ w \in Within(P) => Merge(v, w) \in Within(P)
         /\ v \in Within(P) =>
              Differing(v, w) \in Within(P) /\ \A T : FilterValues(T, v, w) \in Within(P)
         /\ v \in Complete(P) /\ w \in Within(P) => Merge(v, w) \in Complete(P)
BY Merged DEF Within, Complete, Keys

-----------------------------------------------------------------------------
(* Devices.                                                                 *)

LEMMA Configured ==
  ASSUME included \in Configs, NEW id \in Devices
  PROVE  /\ id \in Device /\ Model[id] \in {AC, Fan}
         /\ included[id] \subseteq DataPoint
         /\ Names(id) \subseteq DOMAIN Components(Model[id])
         /\ Names(id) \subseteq included[id]
         /\ Points(id) \subseteq PointsOfDevice(id)
         /\ PointsOfDevice(id) \subseteq DataPoint
         /\ "power" \in PointsOfDevice(id)
<1>1. PICK D \in SUBSET Device : included \in [D -> SUBSET DataPoint]
  BY ConfigsAssumption
<1>2. id \in Device /\ included[id] \subseteq DataPoint
  BY <1>1 DEF Devices
<1>3. Model[id] \in {AC, Fan}
  BY <1>2, ModelAssumption
<1>4. Names(id) \subseteq DOMAIN Components(Model[id]) /\ Names(id) \subseteq included[id]
  BY DEF Names
<1>5. Points(id) \subseteq PointsOfDevice(id)
  BY <1>4 DEF Points, PointsOfDevice, PointsOfAll
<1>6. "power" \in PointsOfDevice(id)
  <2>1. "power" \in DOMAIN Components(Model[id])
    BY DEF Components, AirtonComponents, FanComponents
  <2>2. "power" \in PointsOf("power")
    BY DEF PointsOf
  <2> QED  BY <2>1, <2>2 DEF PointsOfDevice, PointsOfAll
<1> QED  BY <1>2, <1>3, <1>4, <1>5, <1>6, DataPointAssumption

LEMMA SameNames ==
  ASSUME included' = included
  PROVE  Devices' = Devices /\ \A id : Names(id)' = Names(id) /\ Points(id)' = Points(id)
BY DEF Devices, Names, Points

\* What there is of a device.
Of(id) ==
  <<announcing[id], tasks[id], known[id], buffer[id], due[id], awaited[id], retry[id],
    sent[id], device[id], reports[id], processor[id], states[id], overtaken[id], shown[id],
    asked[id], undone[id], unconfirmed[id], missed[id], readings[id]>>

DeviceStep(id) ==
  \/ Announce(id) \/ AbandonAnnouncement(id)
  \/ Forget(id) \/ Store(id) \/ CutShort(id) \/ Cancel(id)
  \/ Send(id) \/ Check(id)
  \/ Respond(id) \/ Apply(id) \/ Change(id)
  \/ Learn(id) \/ Publish(id) \/ DropState(id)

\* A step of a device leaves the others as they are.
LEMMA Alone ==
  ASSUME MapDomains, NEW id \in Devices, DeviceStep(id)
  PROVE  included' = included /\ MapDomains' /\ \A j \in Devices : j # id => Of(j)' = Of(j)
<1> USE DEF MapDomains, Of, Devices
<1>1. CASE Announce(id)
  BY <1>1 DEF Announce, history
<1>2. CASE AbandonAnnouncement(id)
  BY <1>2 DEF AbandonAnnouncement, history
<1>3. CASE Forget(id)
  BY <1>3 DEF Forget, world, history
<1>4. CASE Store(id) \/ CutShort(id)
  <2>1. /\ UNCHANGED <<included, announcing, known, processor, states, overtaken,
                 sent, device, reports, shown, missed, readings>>
        /\ tasks' = [tasks EXCEPT ![id] = Tail(@)]
        /\ buffer' = buffer \/ \E x : buffer' = [buffer EXCEPT ![id] = x]
        /\ asked' = asked \/ \E x : asked' = [asked EXCEPT ![id] = x]
        /\ undone' = undone \/ \E x : undone' = [undone EXCEPT ![id] = x]
    BY <1>4 DEF Store, CutShort, Stored, world
  <2>2. /\ due' = due \/ \E x : due' = [due EXCEPT ![id] = x]
        /\ awaited' = awaited \/ \E x : awaited' = [awaited EXCEPT ![id] = x]
        /\ retry' = retry \/ \E x : retry' = [retry EXCEPT ![id] = x]
        /\ unconfirmed' = unconfirmed \/ \E x : unconfirmed' = [unconfirmed EXCEPT ![id] = x]
    BY <1>4 DEF Store, CutShort
  <2> QED  BY <2>1, <2>2
<1>5. CASE Send(id) \/ Cancel(id)
  <2>1. /\ UNCHANGED <<included, announcing, tasks, known, buffer, processor, states, overtaken,
                       device, reports, shown, asked, undone, missed, readings>>
        /\ due' = due \/ \E x : due' = [due EXCEPT ![id] = x]
        /\ sent' = sent \/ \E x : sent' = [sent EXCEPT ![id] = x]
        /\ awaited' = awaited \/ \E x : awaited' = [awaited EXCEPT ![id] = x]
        /\ retry' = retry \/ \E x : retry' = [retry EXCEPT ![id] = x]
        /\ unconfirmed' = unconfirmed \/ \E x : unconfirmed' = [unconfirmed EXCEPT ![id] = x]
    BY <1>5 DEF Send, Cancel, history
  <2> QED  BY <2>1
<1>6. CASE Check(id)
  <2>1. /\ UNCHANGED <<included, announcing, tasks, known, awaited, processor, states, overtaken,
                       sent, device, reports, shown, asked, missed, readings>>
        /\ \E x : buffer' = [buffer EXCEPT ![id] = x]
        /\ \E x : undone' = [undone EXCEPT ![id] = x]
        /\ \E x : due' = [due EXCEPT ![id] = x]
        /\ \E x : retry' = [retry EXCEPT ![id] = x]
        /\ \E x : unconfirmed' = [unconfirmed EXCEPT ![id] = x]
    BY <1>6 DEF Check, world
  <2> QED  BY <2>1
<1>7. CASE Respond(id)
  BY <1>7 DEF Respond, driver, history
<1>8. CASE Apply(id)
  BY <1>8 DEF Apply, driver, history
<1>9. CASE Change(id)
  BY <1>9 DEF Change, driver
<1>10. CASE Learn(id)
  <2>1. /\ UNCHANGED <<included, announcing, tasks, buffer, due, awaited, retry, overtaken,
                 sent, device, shown, asked, undone, unconfirmed>>
        /\ reports' = [reports EXCEPT ![id] = Tail(@)]
        /\ \E x : known' = [known EXCEPT ![id] = x]
        /\ processor' = processor \/ \E x : processor' = [processor EXCEPT ![id] = x]
        /\ readings' = readings \/ \E x : readings' = [readings EXCEPT ![id] = x]
        /\ states' = states \/ \E x : states' = [states EXCEPT ![id] = x]
        /\ missed' = missed \/ \E x : missed' = [missed EXCEPT ![id] = x]
    BY <1>10 DEF Learn
  <2> QED  BY <2>1
<1>11. CASE Publish(id) \/ DropState(id)
  <2>1. /\ UNCHANGED <<included, announcing, tasks, known, buffer, due, awaited, retry,
                 processor, sent, device, reports, asked, undone, unconfirmed, readings>>
        /\ \E x : states' = [states EXCEPT ![id] = x]
        /\ \E x : overtaken' = [overtaken EXCEPT ![id] = x]
        /\ shown' = shown \/ \E x : shown' = [shown EXCEPT ![id] = x]
        /\ \E x : missed' = [missed EXCEPT ![id] = x]
    BY <1>11 DEF Publish, DropState
  <2> QED  BY <2>1
<1> QED
  BY <1>1, <1>2, <1>3, <1>4, <1>5, <1>6, <1>7, <1>8, <1>9, <1>10, <1>11 DEF DeviceStep

LEMMA Same ==
  ASSUME included' = included, NEW id, Of(id)' = Of(id)
  PROVE  /\ DeviceKinds(id) => DeviceKinds(id)'
         /\ RetryKind(id) => RetryKind(id)'
         /\ CommandInv(id) => CommandInv(id)'
         /\ StateInv(id) => StateInv(id)'
         /\ ProcessorInv(id) => ProcessorInv(id)'
<1>1. /\ UNCHANGED <<announcing[id], tasks[id], known[id], buffer[id], due[id], awaited[id],
           retry[id], sent[id], device[id], reports[id], processor[id], states[id],
           overtaken[id], shown[id], asked[id], undone[id], unconfirmed[id], missed[id],
           readings[id], included[id]>>
      /\ Names(id)' = Names(id) /\ Points(id)' = Points(id)
  BY SameNames DEF Of
<1>2. DeviceKinds(id) => DeviceKinds(id)'
  BY <1>1 DEF DeviceKinds
<1>3. CommandInv(id) => CommandInv(id)'
  BY <1>1 DEF CommandInv, Armed, Prevails
<1>4. StateInv(id) => StateInv(id)'
  BY <1>1 DEF StateInv, Reached
<1>5. ProcessorInv(id) => ProcessorInv(id)'
  BY <1>1 DEF ProcessorInv
<1>6. RetryKind(id) => RetryKind(id)'
  BY <1>1 DEF RetryKind
<1> QED  BY <1>2, <1>3, <1>4, <1>5, <1>6

-----------------------------------------------------------------------------
(* The types are kept.                                                      *)

\* A report has what every component needs.
LEMMA Conversion ==
  ASSUME included \in Configs, NEW id \in Devices, NEW v \in Complete(PointsOfDevice(id))
  PROVE  /\ Reported(Model[id], included[id], v) = Names(id)
         /\ \A t : DOMAIN FromTuyaPayload(Model[id], included[id], v, t) = Names(id)
         /\ \A t : \A c \in Names(id) \ {"temperature"} :
              FromTuyaPayload(Model[id], included[id], v, t)[c]
                = FromTuyaPayload(Model[id], included[id], v, Nothing)[c]
<1>1. Names(id) \subseteq DOMAIN Components(Model[id])
  BY Configured
<1>2. \A c \in Names(id) : PointsOf(c) \subseteq Keys(v)
  BY <1>1 DEF PointsOfDevice, PointsOfAll, Complete
<1>3. Reported(Model[id], included[id], v) = Names(id)
  BY <1>2 DEF Reported, Names
<1> QED  BY <1>3 DEF FromTuyaPayload

\* A topic ends with its last two levels.
LEMMA Levels ==
  ASSUME NEW S, NEW p \in Seq(S), NEW a \in S, NEW b \in S
  PROVE  (p \o <<a, b>>)[Len(p) + 2] = b
<1> DEFINE t == <<a, b>>
<1>1. t \in Seq(S) /\ Len(t) = 2 /\ t[2] = b
  OBVIOUS
<1> HIDE DEF t
<1>2. Len(p) \in Nat /\ 2 \in 1..Len(t)
  BY <1>1
<1>3. (p \o t)[Len(p) + 2] = t[2]
  BY <1>1, <1>2, ConcatProperties
<1> QED  BY <1>1, <1>3 DEF t

\* The topics tell the devices apart.
LEMMA Topics ==
  ASSUME NEW id, NEW j, StateTopic(id) = StateTopic(j)  PROVE id = j
<1> DEFINE S == STRING \cup {"get", id, j}
<1>1. DriverPrefix \in Seq(S) /\ "get" \in S /\ id \in S /\ j \in S
  <2>1. STRING \subseteq S /\ "get" \in S /\ id \in S /\ j \in S
    OBVIOUS
  <2> HIDE DEF S
  <2>2. DriverPrefix \in Seq(S)
    BY <2>1, PrefixAssumption, SeqMonotonic
  <2> QED  BY <2>1, <2>2
<1> HIDE DEF S
<1>2. (DriverPrefix \o <<"get", id>>)[Len(DriverPrefix) + 2] = id
  BY <1>1, Levels
<1>3. (DriverPrefix \o <<"get", j>>)[Len(DriverPrefix) + 2] = j
  BY <1>1, Levels
<1> QED  BY <1>2, <1>3 DEF StateTopic

\* The hub hears the states of the components that were announced of a device.
LEMMA Heard ==
  ASSUME Discoveries, NEW id \in Devices, NEW m \in discovered, m.state_topic = StateTopic(id)
  PROVE  m.template \in Names(id)
<1>1. PICK j \in Devices : \E c \in Names(j) : m = Message(j, c)
  BY DEF Discoveries
<1>2. PICK c \in Names(j) : m = Message(j, c)
  BY <1>1
<1>3. m.state_topic = StateTopic(j) /\ m.template = c
  BY <1>2 DEF Message
<1> QED  BY <1>3, Topics

LEMMA InitKinds == Init => Kinds
<1> SUFFICES ASSUME Init  PROVE Kinds
  OBVIOUS
<1>1. included \in Configs /\ now \in Nat /\ Discoveries /\ MapDomains
  BY DEF Init, Discoveries, MapDomains
<1>2. ASSUME NEW id \in Devices  PROVE DeviceKinds(id)
  <2>1. /\ announcing[id] = Names(id) /\ tasks[id] = <<>> /\ known[id] = NoValues
        /\ buffer[id] = NoValues /\ sent[id] = <<>> /\ reports[id] = <<>>
        /\ processor[id] = NoProcessor /\ states[id] = <<>> /\ shown[id] = <<>>
        /\ asked[id] = NoValues /\ undone[id] = {} /\ missed[id] = Names(id)
        /\ readings[id] = <<>>
    BY DEF Init, Nothing
  <2>2. device[id] = [d \in DataPoint |->
                        IF d \in PointsOfDevice(id) THEN CHOOSE x \in Takes[id][d] : TRUE ELSE Absent]
    BY DEF Init
  <2>3. \A d \in PointsOfDevice(id) : (CHOOSE x \in Takes[id][d] : TRUE) \in Value
    BY <1>1, Configured, TakesAssumption
  <2>4. device[id] \in Complete(PointsOfDevice(id))
    <3> DEFINE v == device[id]
               P == PointsOfDevice(id)
               x(d) == CHOOSE x \in Takes[id][d] : TRUE
    <3>1. P \subseteq DataPoint
      BY <1>1, Configured
    <3>2. v = [d \in DataPoint |-> IF d \in P THEN x(d) ELSE Absent]
      BY <2>2
    <3>3. \A d \in P : x(d) \in Value
      BY <2>3
    <3> HIDE DEF v, P, x
    <3>4. v \in Values /\ Keys(v) = P
      BY <3>1, <3>2, <3>3, AbsentAssumption DEF Values, Keys
    <3> QED  BY <3>4 DEF Complete, v, P
  <2>5. /\ \A S : <<>> \in Seq(S)
        /\ IsQueue(<<>>) /\ DOMAIN <<>> = {} /\ Len(<<>>) = 0
    BY DEF IsQueue
  <2>6. NoProcessor \in Processor /\ NoProcessor.values = <<>>
    BY DEF NoProcessor, Processor
  <2> QED
    BY <2>1, <2>4, <2>5, <2>6, Dictionaries, ProcessorAssumption DEF DeviceKinds
<1>3. \A id \in Devices : RetryKind(id)
  BY RetriesAssumption DEF Init, RetryKind, Idle
<1> QED  BY <1>1, <1>2, <1>3 DEF Kinds

\* What the processors keep of the last values.
LEMMA Processing ==
  ASSUME NEW p \in Processor, NEW value \in Value, now \in Nat,
         Window > 1 => Len(p.values) <= Window
  PROVE  /\ Processed(p, value) \in Processor
         /\ Window > 1 => Len(Processed(p, value).values) <= Window
<1> DEFINE v == p.values
           k == Kept(p.values)
<1>1. v \in Seq(Value) /\ Len(v) \in Nat /\ p.last \in Seq(Value) /\ p.time \in Nat
  BY DEF Processor
<1>2. k \in Seq(Value) /\ (Window > 1 => Len(k) < Window)
  <2>1. CASE Window = 1 \/ Len(v) < Window
    BY <1>1, <2>1 DEF Kept
  <2>2. CASE Window > 1 /\ Len(v) >= Window
    <3>1. k = SubSeq(v, Len(v) - Window + 2, Len(v))
      BY <1>1, <2>2, ProcessorAssumption DEF Kept
    <3>2. Len(v) - Window + 2 \in 1..Len(v) + 1
      BY <1>1, <2>2, ProcessorAssumption
    <3> QED  BY <1>1, <2>2, <3>1, <3>2, ProcessorAssumption
  <2> QED  BY <1>1, <2>1, <2>2, ProcessorAssumption
<1> HIDE DEF k, v
<1>3. Append(k, value) \in Seq(Value) /\ (Window > 1 => Len(Append(k, value)) <= Window)
  BY <1>2, ProcessorAssumption
<1> DEFINE l == Append(k, value)
<1>4. \/ Processed(p, value) = [values |-> l, last |-> l, time |-> now]
      \/ Processed(p, value) = [p EXCEPT !.values = l]
  BY DEF Processed, k
<1>5. l \in Seq(Value) /\ (Window > 1 => Len(l) <= Window)
  BY <1>3
<1> HIDE DEF l
<1>6. CASE Processed(p, value) = [values |-> l, last |-> l, time |-> now]
  BY <1>5, <1>6 DEF Processor
<1>7. CASE Processed(p, value) = [p EXCEPT !.values = l]
  BY <1>5, <1>7 DEF Processor
<1> QED  BY <1>4, <1>6, <1>7

\* What a component is asked is about its own data points.
LEMMA Asking ==
  ASSUME included \in Configs, NEW id \in Devices, NEW c \in Names(id),
         Components(Model[id])[c] # "sensor", NEW text \in Presses[id][c],
         ~Inconvertible(Model[id], included[id], c, Loads(text))
  PROVE  ToTuyaPayload(Model[id], included[id], c, Loads(text)) \in Within(Points(id))
<1> DEFINE v == Loads(text)
           m == Model[id]
<1>1. c \in DOMAIN Components(m) /\ c \in included[id] /\ id \in Device
  BY Configured
<1>2. Commandable(m, included[id], c) /\ Commandable(m, {c}, c)
  BY <1>1 DEF Commandable
<1>3. /\ Inconvertible(m, {c}, c, v) <=> Inconvertible(m, included[id], c, v)
      /\ ToTuyaPayload(m, {c}, c, v) = ToTuyaPayload(m, included[id], c, v)
  BY <1>2 DEF Inconvertible, ToTuyaPayload
<1>4. ToTuyaPayload(m, included[id], c, v) \in Values
  BY <1>1, <1>3, PressesAssumption
<1>5. DOMAIN Converted(m, c, v) \subseteq PointsOf(c)
  BY DEF Converted, Swing, PointsOf
<1>6. Keys(ToTuyaPayload(m, included[id], c, v)) \subseteq PointsOf(c)
  BY <1>2, <1>5 DEF Keys, ToTuyaPayload
<1>7. PointsOf(c) \subseteq Points(id)
  BY DEF Points, PointsOfAll
<1> QED  BY <1>4, <1>6, <1>7 DEF Within

\* The topics of the commands.
LEMMA CommandLevels ==
  ASSUME NEW id, NEW c
  PROVE  /\ DriverPrefix \in Seq(STRING) /\ Len(DriverPrefix) \in Nat
         /\ Len(CommandTopic(id, c)) = Len(DriverPrefix) + 3
         /\ CommandTopic(id, c)[Len(DriverPrefix) + 2] = id
         /\ CommandTopic(id, c)[Len(DriverPrefix) + 3] = c
         /\ Len(DriverPrefix \o <<"set", id>>) = Len(DriverPrefix) + 2
<1> DEFINE S == STRING \cup {"set", id, c}
           t == <<"set", id, c>>
           u == <<"set", id>>
<1>1. STRING \subseteq S
  OBVIOUS
<1>2. t \in Seq(S) /\ Len(t) = 3 /\ t[2] = id /\ t[3] = c /\ u \in Seq(S) /\ Len(u) = 2
  OBVIOUS
<1> HIDE DEF S, t, u
<1>3. DriverPrefix \in Seq(STRING)
  BY PrefixAssumption
<1>4. DriverPrefix \in Seq(S)
  BY <1>1, <1>3, SeqMonotonic
<1> DEFINE p == DriverPrefix
<1> HIDE DEF p
<1>5. p \in Seq(S) /\ Len(p) \in Nat
  BY <1>4 DEF p
<1>6. /\ Len(p \o t) = Len(p) + Len(t) /\ Len(p \o u) = Len(p) + Len(u)
      /\ \A i \in 1..(Len(p) + Len(t)) : (p \o t)[i] = IF i <= Len(p) THEN p[i] ELSE t[i - Len(p)]
  BY <1>2, <1>5, ConcatProperties
<1>7. (p \o t)[Len(p) + 2] = t[2] /\ (p \o t)[Len(p) + 3] = t[3]
  BY <1>2, <1>5, <1>6
<1> QED  BY <1>2, <1>3, <1>5, <1>6, <1>7 DEF p, t, u, CommandTopic

\* A command reaches the pool of the device it is for, or nothing happens.
LEMMA Receiving ==
  ASSUME Kinds, Press \/ Stray
  PROVE  /\ UNCHANGED <<included, announcing, known, buffer, due, awaited, retry, processor,
                        states, overtaken, discovered, sent, device, reports, shown, now, history>>
         /\ tasks' = tasks
            \/ \E id \in Devices : \E v \in Within(Points(id)) :
                 tasks' = [tasks EXCEPT ![id] = Append(@, v)]
<1>1. CASE Stray
  <2>1. ASSUME NEW id, Receive(DriverPrefix \o <<"set", id>>, Word("true"))  PROVE tasks' = tasks
    <3> DEFINE topic == DriverPrefix \o <<"set", id>>
    <3>1. Len(topic) = Len(DriverPrefix) + 2
      BY CommandLevels
    <3>2. Ignored(topic)
      <4>1. \A x : Len(<<x>>) = 1
        OBVIOUS
      <4> HIDE DEF topic
      <4> QED  BY <3>1, <4>1 DEF Ignored
    <3> QED  BY <2>1, <3>2 DEF Receive
  <2>2. ASSUME NEW id, id \notin Devices, Receive(CommandTopic(id, "power"), Word("true"))
        PROVE  tasks' = tasks
    <3> DEFINE topic == CommandTopic(id, "power")
    <3>1. Len(topic) = Len(DriverPrefix) + 3 /\ topic[Len(DriverPrefix) + 2] = id
          /\ Len(DriverPrefix) \in Nat
      BY CommandLevels
    <3> HIDE DEF topic
    <3>2. Ignored(topic) \/ topic[3] = id
      BY <3>1 DEF Ignored
    <3> QED  BY <2>2, <3>2 DEF Receive, topic
  <2>3. ASSUME NEW id, Receive(CommandTopic(id, "power"), Undecodable)  PROVE tasks' = tasks
    BY <2>3 DEF Receive
  <2> QED  BY <1>1, <2>1, <2>2, <2>3 DEF Stray, Receive
<1>2. CASE Press
  <2>1. PICK m \in discovered :
          m.command_topic # Nothing
          /\ \E text \in Presses[m.unique_id[1]][m.template] : Receive(m.command_topic, text)
    BY <1>2 DEF Press
  <2>2. PICK text \in Presses[m.unique_id[1]][m.template] : Receive(m.command_topic, text)
    BY <2>1
  <2>3. PICK id \in Devices : \E c \in Names(id) : m = Message(id, c)
    BY DEF Kinds, Discoveries
  <2>4. PICK c \in Names(id) : m = Message(id, c)
    BY <2>3
  <2> DEFINE topic == CommandTopic(id, c)
             value == ToTuyaPayload(Model[id], included[id], c, Loads(text))
  <2>5. m.unique_id[1] = id /\ m.template = c
        /\ m.command_topic = topic /\ Components(Model[id])[c] # "sensor"
    BY <2>1, <2>4 DEF Message
  <2>6. Receive(topic, text) /\ text \in Presses[id][c]
    BY <2>2, <2>5
  <2>7. Ignored(topic) \/ (topic[3] = id /\ topic[4] = c)
    <3>1. Len(topic) = Len(DriverPrefix) + 3 /\ topic[Len(DriverPrefix) + 2] = id
          /\ topic[Len(DriverPrefix) + 3] = c /\ Len(DriverPrefix) \in Nat
      BY CommandLevels
    <3> HIDE DEF topic
    <3> QED  BY <3>1 DEF Ignored
  <2> HIDE DEF topic
  <2>8. CASE \/ Ignored(topic) \/ text = Undecodable
             \/ Inconvertible(Model[id], included[id], c, Loads(text))
    BY <2>6, <2>7, <2>8 DEF Receive
  <2>9. CASE /\ ~Ignored(topic) /\ text # Undecodable
             /\ ~Inconvertible(Model[id], included[id], c, Loads(text))
    <3>1. value \in Within(Points(id))
      BY <2>5, <2>6, <2>9, Asking DEF Kinds
    <3>2. tasks' = [tasks EXCEPT ![id] = Append(@, value)]
      BY <2>6, <2>7, <2>9 DEF Receive
    <3> QED  BY <2>6, <3>1, <3>2 DEF Receive
  <2> QED  BY <2>8, <2>9
<1> QED  BY <1>1, <1>2, SMTT(40)

LEMMA Wide ==
  ASSUME included \in Configs, NEW id \in Devices
  PROVE  /\ Within(Points(id)) \subseteq Within(PointsOfDevice(id))
         /\ Within(PointsOfDevice(id)) \subseteq Values
         /\ Within(Points(id)) \subseteq Values
         /\ Complete(PointsOfDevice(id)) \subseteq Within(PointsOfDevice(id))
         /\ Complete(PointsOfDevice(id)) \subseteq Values
BY Configured DEF Within, Complete

\* The device takes a value of its own.
LEMMA Changing ==
  ASSUME included \in Configs, NEW id \in Devices, NEW v \in Complete(PointsOfDevice(id)),
         NEW d \in Points(id), NEW x \in Takes[id][d]
  PROVE  [v EXCEPT ![d] = x] \in Complete(PointsOfDevice(id))
<1> DEFINE P == PointsOfDevice(id)
           w == [v EXCEPT ![d] = x]
<1>1. d \in P /\ P \subseteq DataPoint /\ x \in Value
  BY Configured, TakesAssumption
<1>2. v \in Values /\ Keys(v) = P
  BY DEF Complete
<1> HIDE DEF P
<1>3. w \in Values /\ Keys(w) = P
  BY <1>1, <1>2, AbsentAssumption DEF Values, Keys
<1> QED  BY <1>3 DEF Complete, P

LEMMA CommandKinds ==
  ASSUME Kinds, NEW id \in Devices,
         \/ Announce(id) \/ AbandonAnnouncement(id) \/ Forget(id) \/ Store(id) \/ CutShort(id)
         \/ Cancel(id) \/ Send(id) \/ Check(id)
  PROVE  DeviceKinds(id)'
<1>1. /\ included \in Configs /\ MapDomains /\ DeviceKinds(id)
      /\ Names(id)' = Names(id) /\ Points(id)' = Points(id)
  <2>1. included' = included
    BY Alone DEF Kinds, DeviceStep
  <2> QED  BY <2>1, SameNames DEF Kinds
<1> DEFINE W == Within(Points(id))
<1>2. tasks[id] \in Seq(W) /\ buffer[id] \in W /\ sent[id] \in Seq(W) /\ known[id] \in Values
      /\ W \subseteq Values /\ asked[id] \in Values
  BY <1>1, Wide, Dictionaries DEF DeviceKinds
<1>3. CASE Announce(id) \/ AbandonAnnouncement(id)
  <2>1. /\ announcing'[id] \subseteq announcing[id]
        /\ UNCHANGED <<tasks[id], known[id], buffer[id], sent[id], device[id], reports[id],
             processor[id], states[id], shown[id], asked[id], undone[id], missed[id], readings[id]>>
    BY <1>1, <1>3 DEF Announce, AbandonAnnouncement, history, MapDomains
  <2> QED  BY <1>1, <2>1 DEF DeviceKinds
<1>4. CASE Forget(id)
  <2>1. /\ tasks[id] # <<>> /\ tasks'[id] = Tail(tasks[id])
        /\ UNCHANGED <<announcing[id], known[id], buffer[id], sent[id], device[id], reports[id],
             processor[id], states[id], shown[id], asked[id], undone[id], missed[id], readings[id]>>
    BY <1>1, <1>4 DEF Forget, world, history, MapDomains
  <2>2. tasks'[id] \in Seq(W)
    BY <1>2, <2>1, Advancing
  <2> QED  BY <1>1, <2>1, <2>2 DEF DeviceKinds
<1>5. CASE Stored(id) /\ UNCHANGED <<sent, device, reports, shown>>
  <2> DEFINE values == Head(tasks[id])
             wanted == Wanted(id, values)
             differing == Differing(wanted, known[id])
             kept == FilterValues(Rules(Model[id]), differing, known[id])
             forbidden == Keys(differing) \ Keys(kept)
             merged == Merge(asked[id], values)
             given == [d \in DataPoint |-> IF d \in forbidden THEN Absent ELSE merged[d]]
             new == {d \in Settled(id, wanted) : Moving(id, d)}
  <2>1. tasks[id] # <<>>
        /\ UNCHANGED <<announcing[id], known[id], sent[id], device[id], reports[id],
             processor[id], states[id], shown[id], missed[id], readings[id]>>
    BY <1>1, <1>5 DEF Stored, MapDomains
  <2>2. tasks'[id] = Tail(tasks[id])
    BY <1>1, <1>5 DEF Stored, MapDomains
  <2>3. \/ UNCHANGED <<buffer[id], asked[id], undone[id]>>
        \/ /\ buffer'[id] = kept
           /\ asked'[id] = given
           /\ undone'[id] = (undone[id] \ Keys(values)) \cup new
    <3>1. /\ asked' = [asked EXCEPT ![id] = given]
             <=> asked' = [asked EXCEPT ![id] = [d \in DataPoint |->
                             IF d \in forbidden THEN Absent ELSE Merge(@, values)[d]]]
      OBVIOUS
    <3>2. \/ UNCHANGED <<buffer, asked, undone>>
          \/ /\ buffer' = [buffer EXCEPT ![id] = kept]
             /\ asked' = [asked EXCEPT ![id] = given]
             /\ undone' = [undone EXCEPT ![id] = (@ \ Keys(values)) \cup new]
      BY <1>5, <3>1 DEF Stored
    <3> HIDE DEF kept, given, new, values
    <3> QED  BY <1>1, <3>2 DEF MapDomains
  <2>4. tasks'[id] \in Seq(W) /\ values \in W
    BY <1>2, <2>1, <2>2, Advancing
  <2>5. wanted \in W /\ merged \in Values
    BY <1>2, <2>4, Merged, Merging DEF Wanted
  <2>6. differing \in W
    BY <1>2, <2>5, Merging
  <2>7. kept \in W
    BY <1>2, <2>6, Merging
  <2>8. given \in Values
    BY <2>5 DEF Values
  <2>9. new \subseteq DataPoint
    BY DEF Settled, Keys
  <2> HIDE DEF kept, given, new, values
  <2>10. /\ buffer'[id] \in W /\ asked'[id] \in Values
         /\ undone[id] \subseteq DataPoint => undone'[id] \subseteq DataPoint
    BY <1>2, <2>3, <2>7, <2>8, <2>9
  <2> QED  BY <1>1, <2>1, <2>4, <2>10 DEF DeviceKinds
<1>6. CASE Send(id)
  <2>1. /\ sent'[id] = sent[id] \/ sent'[id] = Append(sent[id], buffer[id])
        /\ UNCHANGED <<announcing[id], tasks[id], known[id], buffer[id], device[id], reports[id],
             processor[id], states[id], shown[id], asked[id], undone[id], missed[id], readings[id]>>
    BY <1>1, <1>6 DEF Send, history, MapDomains
  <2>2. sent'[id] \in Seq(W)
    BY <1>2, <2>1, Appending
  <2> QED  BY <1>1, <2>1, <2>2 DEF DeviceKinds
<1>7. CASE Check(id)
  <2> DEFINE new == {d \in Settled(id, buffer[id]) : Moving(id, d)}
  <2>1. /\ buffer'[id] = Differing(buffer[id], known[id])
        /\ undone'[id] = undone[id] \cup new
        /\ UNCHANGED <<announcing[id], tasks[id], known[id], sent[id], device[id], reports[id],
             processor[id], states[id], shown[id], asked[id], missed[id], readings[id]>>
    BY <1>1, <1>7 DEF Check, world, MapDomains
  <2>2. buffer'[id] \in W
    BY <1>2, <2>1, Merging
  <2>3. new \subseteq DataPoint
    BY DEF Settled, Keys
  <2> HIDE DEF new
  <2> QED  BY <1>1, <2>1, <2>2, <2>3 DEF DeviceKinds
<1>8. CASE Cancel(id)
  <2>1. UNCHANGED <<announcing[id], tasks[id], known[id], buffer[id], sent[id], device[id],
          reports[id], processor[id], states[id], shown[id], asked[id], undone[id], missed[id],
          readings[id]>>
    BY <1>8 DEF Cancel, history
  <2> QED  BY <1>1, <2>1 DEF DeviceKinds
<1>9. Store(id) \/ CutShort(id) => Stored(id) /\ UNCHANGED <<sent, device, reports, shown>>
  BY DEF Store, CutShort, world
<1> QED  BY <1>3, <1>4, <1>5, <1>6, <1>7, <1>8, <1>9

\* The retry task waits for one call at a time.
LEMMA Answering ==
  ASSUME NEW id, RetryKind(id)
  PROVE  LET r == retry[id]
             Tries == [step : {"idle", "backoff", "waiting"}, tries : 0..Retries]
         IN  /\ r \in Tries /\ Idle \in Tries /\ Idle.step = "idle"
             /\ Answered(r) \in Tries /\ Answered(r).step \in {"idle", "backoff"}
             /\ \A future : AfterCall(r, future) \in Tries
             /\ \A future : \/ AfterCall(r, future) = r /\ future = "cancelled"
                           \/ AfterCall(r, future).step \in {"idle", "backoff"}
<1> DEFINE r == retry[id]
           Tries == [step : {"idle", "backoff", "waiting"}, tries : 0..Retries]
           Fresh == [step |-> "backoff", tries |-> 0]
<1>1. r \in Tries /\ Retries \in Nat /\ (r.step = "waiting" => r.tries # Retries)
  BY RetriesAssumption DEF RetryKind
<1>2. /\ Idle \in Tries /\ Idle.step = "idle"
      /\ Fresh \in Tries /\ Fresh.step = "backoff"
  BY <1>1 DEF Idle
<1>3. Answered(r) \in Tries /\ Answered(r).step \in {"idle", "backoff"}
  <2>1. CASE r.step = "waiting"
    <3>1. r.tries + 1 \in 0..Retries
      BY <1>1, <2>1
    <3> QED  BY <2>1, <3>1 DEF Answered
  <2>2. CASE r.step # "waiting"
    BY <1>1, <2>2 DEF Answered
  <2> QED  BY <2>1, <2>2
<1> HIDE DEF r, Tries
<1>4. \A future : \/ AfterCall(r, future) = r /\ future = "cancelled"
                 \/ AfterCall(r, future) \in {Fresh, Answered(r)}
  BY DEF AfterCall
<1> HIDE DEF Fresh
<1> QED  BY <1>1, <1>2, <1>3, <1>4 DEF r, Tries

LEMMA RetryKinds ==
  ASSUME Kinds, NEW id \in Devices, DeviceStep(id)  PROVE RetryKind(id)'
<1> DEFINE r == retry[id]
           Tries == [step : {"idle", "backoff", "waiting"}, tries : 0..Retries]
           Futures == {"nobody", "command", "cancelled"}
<1>1. MapDomains /\ RetryKind(id) /\ awaited[id] \in Futures
      /\ (r.step = "waiting" => r.tries # Retries)
  BY DEF Kinds, RetryKind
<1>2. /\ r \in Tries /\ Idle \in Tries /\ Idle.step = "idle"
      /\ Answered(r) \in Tries /\ Answered(r).step \in {"idle", "backoff"}
      /\ \A future : AfterCall(r, future) \in Tries
      /\ \A future : \/ AfterCall(r, future) = r /\ future = "cancelled"
                    \/ AfterCall(r, future).step \in {"idle", "backoff"}
  BY <1>1, Answering
<1>3. CASE Store(id)
  <2>1. awaited'[id] \in Futures /\ retry'[id] \in {r, Answered(r)}
    BY <1>1, <1>3 DEF Store, MapDomains
  <2> QED  BY <1>1, <1>2, <2>1 DEF RetryKind
<1>4. CASE Cancel(id)
  <2>1. awaited'[id] \in Futures /\ retry'[id] \in {r, Idle}
    BY <1>1, <1>4 DEF Cancel, MapDomains
  <2> QED  BY <1>1, <1>2, <2>1 DEF RetryKind
<1>5. CASE Send(id)
  <2>1. awaited'[id] \in Futures /\ retry'[id] \in {r, AfterCall(r, awaited[id])}
    BY <1>1, <1>5 DEF Send, MapDomains
  <2> QED  BY <1>1, <1>2, <2>1 DEF RetryKind
<1>6. CASE Check(id)
  <2>1. /\ awaited'[id] \in Futures
        /\ \/ retry'[id] = Idle
           \/ retry'[id] = [r EXCEPT !.step = "waiting"] /\ r.tries # Retries
    BY <1>1, <1>6 DEF Check, MapDomains
  <2>2. [r EXCEPT !.step = "waiting"] \in Tries /\ [r EXCEPT !.step = "waiting"].tries = r.tries
    BY <1>2
  <2> QED  BY <1>2, <2>1, <2>2 DEF RetryKind
<1>7. CASE DeviceStep(id) /\ ~(Store(id) \/ Cancel(id) \/ Send(id) \/ Check(id))
  <2>1. UNCHANGED <<awaited, retry>>
    BY <1>7 DEF DeviceStep, Announce, AbandonAnnouncement, Forget, CutShort, Respond, Apply,
      Change, Learn, Publish, DropState, driver
  <2> QED  BY <1>1, <2>1 DEF RetryKind
<1> QED  BY <1>3, <1>4, <1>5, <1>6, <1>7

LEMMA ReportKinds ==
  ASSUME Kinds, NEW id \in Devices, Respond(id) \/ Apply(id) \/ Change(id)
  PROVE  DeviceKinds(id)'
<1>1. /\ included \in Configs /\ MapDomains /\ DeviceKinds(id)
      /\ Names(id)' = Names(id) /\ Points(id)' = Points(id)
  <2>1. included' = included
    BY Alone DEF Kinds, DeviceStep
  <2> QED  BY <2>1, SameNames DEF Kinds
<1> DEFINE W == Within(Points(id))
           C == Complete(PointsOfDevice(id))
<1>2. /\ sent[id] \in Seq(W) /\ device[id] \in C /\ reports[id] \in Seq(C)
      /\ W \subseteq Values /\ C \subseteq Values /\ asked[id] \in Values
  BY <1>1, Wide DEF DeviceKinds
<1>3. \A v \in C : Told(id, v) \in Seq(C)
  BY <1>2, Appending DEF Told
<1>4. CASE Respond(id)
  <2>1. /\ sent'[id] = <<>> /\ reports'[id] = <<device[id]>>
        /\ UNCHANGED <<announcing[id], tasks[id], known[id], buffer[id], device[id],
             processor[id], states[id], shown[id], asked[id], undone[id], missed[id], readings[id]>>
    BY <1>1, <1>4 DEF Respond, driver, history, MapDomains
  <2>2. <<>> \in Seq(W)
    OBVIOUS
  <2>3. <<device[id]>> \in Seq(C)
    BY <1>2
  <2> QED  BY <1>1, <2>1, <2>2, <2>3 DEF DeviceKinds
<1>5. CASE Apply(id)
  <2> DEFINE values == Merge(device[id], Head(sent[id]))
  <2>1. /\ sent[id] # <<>> /\ sent'[id] = Tail(sent[id])
        /\ device'[id] = values /\ reports'[id] = Told(id, values)
        /\ UNCHANGED <<announcing[id], tasks[id], known[id], buffer[id],
             processor[id], states[id], shown[id], asked[id], undone[id], missed[id], readings[id]>>
    BY <1>1, <1>5 DEF Apply, driver, history, MapDomains
  <2>2. sent'[id] \in Seq(W) /\ Head(sent[id]) \in W
    BY <1>2, <2>1, Advancing
  <2>3. values \in C
    <3>1. Head(sent[id]) \in Values /\ Head(sent[id]) \in Within(PointsOfDevice(id))
          /\ device[id] \in Values
      BY <1>1, <1>2, <2>2, Wide
    <3> QED  BY <1>2, <3>1, Merging
  <2> HIDE DEF values
  <2> QED  BY <1>1, <1>3, <2>1, <2>2, <2>3 DEF DeviceKinds
<1>6. CASE Change(id)
  <2>1. PICK d \in Points(id) : \E x \in Takes[id][d] \ {device[id][d]} :
          /\ device' = [device EXCEPT ![id][d] = x]
          /\ reports' = [reports EXCEPT ![id] = Told(id, device'[id])]
          /\ asked' = [asked EXCEPT ![id][d] = Absent]
          /\ UNCHANGED <<included, driver, discovered, sent, shown, now, undone,
                   unconfirmed, missed, readings>>
    BY <1>6 DEF Change
  <2>2. PICK x \in Takes[id][d] :
          /\ device' = [device EXCEPT ![id][d] = x]
          /\ reports' = [reports EXCEPT ![id] = Told(id, device'[id])]
          /\ asked' = [asked EXCEPT ![id][d] = Absent]
          /\ UNCHANGED <<included, driver, discovered, sent, shown, now, undone,
                   unconfirmed, missed, readings>>
    BY <2>1
  <2>3. /\ device'[id] = [device[id] EXCEPT ![d] = x]
        /\ reports'[id] = Told(id, device'[id])
        /\ asked'[id] = [asked[id] EXCEPT ![d] = Absent]
        /\ UNCHANGED <<announcing[id], tasks[id], known[id], buffer[id], sent[id],
             processor[id], states[id], shown[id], undone[id], missed[id], readings[id]>>
    BY <1>1, <2>2 DEF driver, MapDomains
  <2>4. device'[id] \in C
    <3>1. [device[id] EXCEPT ![d] = x] \in C
      BY <1>1, <1>2, Changing
    <3> QED  BY <2>3, <3>1
  <2>5. asked'[id] \in Values
    <3>1. \A v \in Values : [v EXCEPT ![d] = Absent] \in Values
      BY DEF Values
    <3> QED  BY <1>2, <2>3, <3>1
  <2> QED  BY <1>1, <1>3, <2>3, <2>4, <2>5 DEF DeviceKinds
<1> QED  BY <1>4, <1>5, <1>6

\* What a report does to the rest.
LEMMA Learning ==
  ASSUME Kinds, NEW id \in Devices, Learn(id)
  PROVE  LET values == Head(reports[id])
             t == IF "temperature" \in Names(id) THEN Mean(processor'[id].last) ELSE Nothing
         IN  /\ reports[id] # <<>> /\ reports'[id] = Tail(reports[id])
             /\ values \in Complete(PointsOfDevice(id))
             /\ known'[id] = values
             /\ UNCHANGED <<announcing[id], tasks[id], buffer[id], overtaken[id],
                  sent[id], device[id], shown[id], asked[id], undone[id]>>
             /\ IF values # known[id] /\ "temperature" \in Names(id)
                THEN /\ values["temperature"] \in Value
                     /\ processor'[id] = Processed(processor[id], values["temperature"])
                     /\ readings'[id] = Append(readings[id],
                                          [time |-> now, value |-> values["temperature"]])
                ELSE UNCHANGED <<processor[id], readings[id]>>
             /\ \/ values = known[id] /\ UNCHANGED <<states[id], missed[id]>>
                \/ values # known[id] /\ missed'[id] = Names(id) /\ UNCHANGED states[id]
                \/ /\ values # known[id] /\ missed'[id] = {}
                   /\ states'[id] = Append(states[id],
                                      FromTuyaPayload(Model[id], included[id], values, t))
<1> DEFINE values == Head(reports[id])
           t == IF "temperature" \in Names(id) THEN Mean(processor'[id].last) ELSE Nothing
           state == FromTuyaPayload(Model[id], included[id], values, t)
<1>1. included \in Configs /\ MapDomains /\ DeviceKinds(id)
  BY DEF Kinds
<1>2. /\ reports[id] # <<>> /\ reports'[id] = Tail(reports[id]) /\ known'[id] = values
      /\ UNCHANGED <<announcing[id], tasks[id], buffer[id], overtaken[id],
                  sent[id], device[id], shown[id], asked[id], undone[id]>>
  BY <1>1 DEF Learn, MapDomains
<1>3. values \in Complete(PointsOfDevice(id))
  BY <1>1, <1>2, Advancing DEF DeviceKinds
<1>4. Reported(Model[id], included[id], values) = Names(id)
  BY <1>1, <1>3, Conversion
<1>5. "temperature" \in Names(id) => values["temperature"] \in Value
  <2>1. "temperature" \in Names(id) => "temperature" \in Keys(values)
    BY <1>4 DEF Reported, PointsOf
  <2>2. values \in Values
    BY <1>3 DEF Complete
  <2> QED  BY <2>1, <2>2 DEF Keys, Values
<1>6. IF values # known[id] /\ "temperature" \in Names(id)
      THEN /\ processor'[id] = Processed(processor[id], values["temperature"])
           /\ readings'[id] = Append(readings[id], [time |-> now, value |-> values["temperature"]])
      ELSE UNCHANGED <<processor[id], readings[id]>>
  <2>1. IF values # known[id] /\ "temperature" \in Names(id)
        THEN /\ processor' = [processor EXCEPT ![id] = Processed(@, values["temperature"])]
             /\ readings' = [readings EXCEPT ![id] =
                               Append(@, [time |-> now, value |-> values["temperature"]])]
        ELSE UNCHANGED <<processor, readings>>
    BY <1>4 DEF Learn
  <2> HIDE DEF values
  <2> QED  BY <1>1, <2>1 DEF MapDomains
<1>7. \/ values = known[id] /\ UNCHANGED <<states, missed>>
      \/ values # known[id] /\ missed' = [missed EXCEPT ![id] = Names(id)] /\ UNCHANGED states
      \/ /\ values # known[id] /\ missed' = [missed EXCEPT ![id] = {}]
         /\ states' = [states EXCEPT ![id] = Append(@, state)]
  BY <1>4 DEF Learn, Updated
<1> HIDE DEF state, values
<1>8. \/ values = known[id] /\ UNCHANGED <<states[id], missed[id]>>
      \/ values # known[id] /\ missed'[id] = Names(id) /\ UNCHANGED states[id]
      \/ values # known[id] /\ missed'[id] = {} /\ states'[id] = Append(states[id], state)
  BY <1>1, <1>7 DEF MapDomains
<1> QED  BY <1>2, <1>3, <1>5, <1>6, <1>8 DEF state, values

\* What a published state does.
LEMMA Publishing ==
  ASSUME Kinds, NEW id \in Devices, Publish(id)
  PROVE  LET heard == {m.template : m \in {n \in discovered : n.state_topic = StateTopic(id)}}
         IN  /\ heard \subseteq Names(id)
             /\ \E i \in InPool(id) :
                  /\ states'[id] = Remaining(states[id], i)
                  /\ overtaken'[id] <=> i = 2
                  /\ shown'[id] = [c \in DOMAIN shown[id] \cup heard |->
                                     IF c \notin heard THEN shown[id][c]
                                     ELSE IF c \in DOMAIN states[id][i] THEN states[id][i][c]
                                     ELSE Nothing]
                  /\ missed'[id] = IF Newest(id, i) THEN missed[id] \cup (Names(id) \ heard)
                                   ELSE IF Len(states[id]) = 1 THEN Names(id) ELSE missed[id]
             /\ UNCHANGED <<announcing[id], tasks[id], known[id], buffer[id], processor[id],
                  sent[id], device[id], reports[id], asked[id], undone[id], readings[id]>>
<1> DEFINE heard == {m.template : m \in {n \in discovered : n.state_topic = StateTopic(id)}}
           next(i) == [c \in DOMAIN shown[id] \cup heard |->
                         IF c \notin heard THEN shown[id][c]
                         ELSE IF c \in DOMAIN states[id][i] THEN states[id][i][c] ELSE Nothing]
           left(i) == IF Newest(id, i) THEN missed[id] \cup (Names(id) \ heard)
                      ELSE IF Len(states[id]) = 1 THEN Names(id) ELSE missed[id]
<1>1. MapDomains /\ Discoveries
  BY DEF Kinds
<1>2. heard \subseteq Names(id)
  BY <1>1, Heard
<1>3. UNCHANGED <<announcing, tasks, known, buffer, processor, sent, device, reports, asked,
                  undone, readings>>
  BY DEF Publish
<1>4. PICK i \in InPool(id) :
        /\ states' = [states EXCEPT ![id] = Remaining(@, i)]
        /\ overtaken' = [overtaken EXCEPT ![id] = i = 2]
        /\ shown' = [shown EXCEPT ![id] = next(i)]
        /\ missed' = [missed EXCEPT ![id] = left(i)]
  BY DEF Publish
<1> HIDE DEF next, heard, left
<1>5. /\ states'[id] = Remaining(states[id], i) /\ (overtaken'[id] <=> i = 2)
      /\ shown'[id] = next(i) /\ missed'[id] = left(i)
  BY <1>1, <1>4 DEF MapDomains
<1> QED  BY <1>2, <1>3, <1>5 DEF next, heard, left

\* What a state does that is not published.
LEMMA DroppingState ==
  ASSUME Kinds, NEW id \in Devices, DropState(id)
  PROVE  /\ \E i \in InPool(id) :
              /\ states'[id] = Remaining(states[id], i)
              /\ overtaken'[id] <=> overtaken[id] /\ i = 2
              /\ missed'[id] = IF Newest(id, i) THEN Names(id) ELSE missed[id]
         /\ UNCHANGED <<announcing[id], tasks[id], known[id], buffer[id], processor[id], sent[id],
              device[id], reports[id], shown[id], asked[id], undone[id], readings[id]>>
<1>1. MapDomains
  BY DEF Kinds
<1>2. UNCHANGED <<announcing, tasks, known, buffer, processor, sent, device, reports, shown,
                  asked, undone, readings>>
  BY DEF DropState
<1>3. PICK i \in InPool(id) :
        /\ states' = [states EXCEPT ![id] = Remaining(@, i)]
        /\ overtaken' = [overtaken EXCEPT ![id] = @ /\ i = 2]
        /\ missed' = [missed EXCEPT ![id] = IF Newest(id, i) THEN Names(id) ELSE @]
  BY DEF DropState
<1>4. /\ states'[id] = Remaining(states[id], i)
      /\ overtaken'[id] <=> overtaken[id] /\ i = 2
      /\ missed'[id] = IF Newest(id, i) THEN Names(id) ELSE missed[id]
  BY <1>1, <1>3 DEF MapDomains
<1> QED  BY <1>2, <1>4

LEMMA StateKinds ==
  ASSUME Kinds, NEW id \in Devices, Learn(id) \/ Publish(id) \/ DropState(id)
  PROVE  DeviceKinds(id)'
<1>1. /\ included \in Configs /\ MapDomains /\ DeviceKinds(id) /\ now \in Nat
      /\ Names(id)' = Names(id) /\ Points(id)' = Points(id)
  <2>1. included' = included
    BY Alone DEF Kinds, DeviceStep
  <2> QED  BY <2>1, SameNames DEF Kinds
<1> DEFINE C == Complete(PointsOfDevice(id))
           OfNames(q) == \A i \in DOMAIN q : DOMAIN q[i] = Names(id)
<1>2. reports[id] \in Seq(C) /\ IsQueue(states[id]) /\ OfNames(states[id])
  BY <1>1 DEF DeviceKinds
<1>3. \A i \in InPool(id) :
        IsQueue(Remaining(states[id], i)) /\ OfNames(Remaining(states[id], i))
  BY <1>2, Removing DEF InPool
<1>4. CASE Learn(id)
  <2> DEFINE values == Head(reports[id])
             t == IF "temperature" \in Names(id) THEN Mean(processor'[id].last) ELSE Nothing
             state == FromTuyaPayload(Model[id], included[id], values, t)
             reading == [time |-> now, value |-> values["temperature"]]
  <2>1. /\ reports[id] # <<>> /\ reports'[id] = Tail(reports[id]) /\ values \in C
        /\ known'[id] = values
        /\ UNCHANGED <<announcing[id], tasks[id], buffer[id], sent[id], device[id], shown[id],
             asked[id], undone[id]>>
        /\ \/ UNCHANGED <<processor[id], readings[id]>>
           \/ /\ values["temperature"] \in Value
              /\ processor'[id] = Processed(processor[id], values["temperature"])
              /\ readings'[id] = Append(readings[id], reading)
        /\ missed'[id] \in {missed[id], Names(id), {}}
        /\ states'[id] \in {states[id], Append(states[id], state)}
    BY <1>4, Learning
  <2>2. reports'[id] \in Seq(C)
    BY <1>2, <2>1, Advancing
  <2>3. DOMAIN state = Names(id)
    BY <1>1, <2>1, Conversion
  <2>4. /\ processor'[id] \in Processor
        /\ Window > 1 => Len(processor'[id].values) <= Window
        /\ readings'[id] \in Seq(Reading)
    <3>1. CASE UNCHANGED <<processor[id], readings[id]>>
      BY <1>1, <3>1 DEF DeviceKinds
    <3>2. CASE /\ values["temperature"] \in Value
               /\ processor'[id] = Processed(processor[id], values["temperature"])
               /\ readings'[id] = Append(readings[id], reading)
      <4>1. reading \in Reading
        BY <1>1, <3>2 DEF Reading
      <4>2. processor[id] \in Processor /\ (Window > 1 => Len(processor[id].values) <= Window)
            /\ readings[id] \in Seq(Reading)
        BY <1>1 DEF DeviceKinds
      <4> HIDE DEF reading
      <4>3. readings'[id] \in Seq(Reading)
        BY <3>2, <4>1, <4>2, Appending
      <4> HIDE DEF values
      <4> QED  BY <1>1, <3>2, <4>2, <4>3, Processing
    <3> QED  BY <2>1, <3>1, <3>2
  <2> HIDE DEF state, values
  <2>5. IsQueue(states'[id]) /\ OfNames(states'[id])
    <3>1. CASE states'[id] = states[id]
      BY <1>2, <3>1
    <3>2. CASE states'[id] = Append(states[id], state)
      <4>1. IsQueue(Append(states[id], state)) /\ OfNames(Append(states[id], state))
        BY <1>2, <2>3, Queued
      <4> QED  BY <3>2, <4>1
    <3> QED  BY <2>1, <3>1, <3>2
  <2> QED  BY <1>1, <2>1, <2>2, <2>4, <2>5 DEF DeviceKinds
<1>5. CASE Publish(id)
  <2>1. /\ \E i \in InPool(id) : states'[id] = Remaining(states[id], i)
        /\ DOMAIN shown'[id] \subseteq DOMAIN shown[id] \cup Names(id)
        /\ missed'[id] \subseteq missed[id] \cup Names(id)
        /\ UNCHANGED <<announcing[id], tasks[id], known[id], buffer[id],
                  processor[id], sent[id], device[id], reports[id], asked[id],
                  undone[id], readings[id]>>
    <3> DEFINE heard == {m.template : m \in {n \in discovered : n.state_topic = StateTopic(id)}}
               next(i) == [c \in DOMAIN shown[id] \cup heard |->
                             IF c \notin heard THEN shown[id][c]
                             ELSE IF c \in DOMAIN states[id][i] THEN states[id][i][c]
                             ELSE Nothing]
    <3>1. heard \subseteq Names(id)
      BY <1>5, Publishing
    <3>2. PICK i \in InPool(id) :
            /\ states'[id] = Remaining(states[id], i)
            /\ shown'[id] = next(i)
            /\ missed'[id] = IF Newest(id, i) THEN missed[id] \cup (Names(id) \ heard)
                             ELSE IF Len(states[id]) = 1 THEN Names(id) ELSE missed[id]
      BY <1>5, Publishing
    <3>3. DOMAIN shown'[id] = DOMAIN shown[id] \cup heard
      BY <3>2
    <3>4. UNCHANGED <<announcing[id], tasks[id], known[id], buffer[id], processor[id], sent[id],
                  device[id], reports[id], asked[id], undone[id], readings[id]>>
      BY <1>5, Publishing
    <3> HIDE DEF heard, next
    <3>5. missed'[id] \subseteq missed[id] \cup Names(id)
      BY <3>2
    <3> QED  BY <3>1, <3>2, <3>3, <3>4, <3>5
  <2> QED  BY <1>1, <1>3, <2>1 DEF DeviceKinds
<1>6. CASE DropState(id)
  <2>1. /\ \E i \in InPool(id) : states'[id] = Remaining(states[id], i)
        /\ missed'[id] \in {missed[id], Names(id)}
        /\ UNCHANGED <<announcing[id], tasks[id], known[id], buffer[id],
                  processor[id], sent[id], device[id], reports[id], shown[id], asked[id],
                  undone[id], readings[id]>>
    BY <1>6, DroppingState
  <2> QED  BY <1>1, <1>3, <2>1 DEF DeviceKinds
<1> QED  BY <1>4, <1>5, <1>6

LEMMA RestartKinds ==
  ASSUME Kinds, Restart
  PROVE  /\ included' = included /\ discovered' = discovered /\ now' = now /\ MapDomains'
         /\ \A id \in Devices : DeviceKinds(id)' /\ RetryKind(id)'
<1>1. /\ UNCHANGED <<included, discovered, sent, device, shown, now, missed>>
      /\ Devices' = Devices /\ MapDomains'
      /\ \A id : Names(id)' = Names(id) /\ Points(id)' = Points(id)
  BY SameNames DEF Kinds, Restart, MapDomains
<1>2. ASSUME NEW id \in Devices  PROVE DeviceKinds(id)'
  <2>1. /\ announcing'[id] = Names(id) /\ tasks'[id] = <<>> /\ known'[id] = NoValues
        /\ buffer'[id] = NoValues /\ reports'[id] = <<>>
        /\ processor'[id] = NoProcessor /\ states'[id] = <<>>
        /\ asked'[id] = NoValues /\ undone'[id] = {}
        /\ readings'[id] = <<>>
        /\ UNCHANGED <<sent[id], device[id], shown[id], missed[id]>>
    BY DEF Restart
  <2>2. /\ \A S : <<>> \in Seq(S)
        /\ IsQueue(<<>>) /\ DOMAIN <<>> = {} /\ Len(<<>>) = 0
    BY DEF IsQueue
  <2>3. NoProcessor \in Processor /\ NoProcessor.values = <<>>
    BY DEF NoProcessor, Processor
  <2>4. DeviceKinds(id)
    BY DEF Kinds
  <2> QED
    BY <1>1, <2>1, <2>2, <2>3, <2>4, Dictionaries, ProcessorAssumption DEF DeviceKinds
<1>3. \A id \in Devices : RetryKind(id)'
  BY RetriesAssumption DEF Restart, RetryKind, Idle
<1> QED  BY <1>1, <1>2, <1>3

LEMMA KindsStep == Kinds /\ [Next]_vars => Kinds'
<1> SUFFICES ASSUME Kinds, [Next]_vars  PROVE Kinds'
  OBVIOUS
<1>1. ASSUME NEW id \in Devices, DeviceStep(id)  PROVE Kinds'
  <2>1. included' = included /\ MapDomains' /\ \A j \in Devices : j # id => Of(j)' = Of(j)
    BY <1>1, Alone DEF Kinds
  <2>2. now' = now
    BY <1>1 DEF DeviceStep, Announce, AbandonAnnouncement, Forget, Store, CutShort, Stored,
      Cancel, Send, Check, Respond,
      Apply, Change, Learn, Publish, DropState, world
  <2>3. Discoveries'
    <3>1. \A j \in Devices : \A c \in Names(j) : Message(j, c)' = Message(j, c)
      BY <2>1 DEF Message
    <3>2. discovered' = discovered
          \/ \E c \in announcing[id] : discovered' = discovered \cup {Message(id, c)}
      BY <1>1 DEF DeviceStep, Announce, AbandonAnnouncement, Forget, Store, CutShort, Stored,
      Cancel, Send, Check, Respond,
        Apply, Change, Learn, Publish, DropState, world
    <3>3. announcing[id] \subseteq Names(id)
      BY DEF Kinds, DeviceKinds
    <3> QED  BY <2>1, <3>1, <3>2, <3>3, SameNames DEF Kinds, Discoveries
  <2>4. DeviceKinds(id)' /\ RetryKind(id)'
    BY <1>1, CommandKinds, ReportKinds, StateKinds, RetryKinds DEF DeviceStep
  <2>5. \A j \in Devices : j # id => DeviceKinds(j)' /\ RetryKind(j)'
    BY <2>1, Same DEF Kinds
  <2> QED  BY <2>1, <2>2, <2>3, <2>4, <2>5, SameNames DEF Kinds
<1>2. CASE Press \/ Stray
  <2>1. /\ UNCHANGED <<included, announcing, known, buffer, due, awaited, retry, processor, states,
                        overtaken, discovered, sent, device, reports, shown, now, asked, undone,
                        unconfirmed, missed, readings>>
        /\ tasks' = tasks
            \/ \E id \in Devices : \E v \in Within(Points(id)) :
                 tasks' = [tasks EXCEPT ![id] = Append(@, v)]
    BY <1>2, Receiving DEF history
  <2>2. Discoveries' /\ MapDomains' /\ now' \in Nat /\ included' \in Configs /\ Devices' = Devices
    BY <2>1 DEF Kinds, Discoveries, MapDomains, Devices, Names, Message
  <2>3. ASSUME NEW id \in Devices  PROVE DeviceKinds(id)'
    <3>1. DeviceKinds(id) /\ MapDomains /\ Names(id)' = Names(id) /\ Points(id)' = Points(id)
      BY <2>1, SameNames DEF Kinds
    <3> DEFINE W == Within(Points(id))
    <3>2. tasks[id] \in Seq(W)
      BY <3>1 DEF DeviceKinds
    <3>3. \A v \in W : Append(tasks[id], v) \in Seq(W)
      BY <3>2, Appending
    <3>4. tasks'[id] = tasks[id] \/ \E v \in W : tasks'[id] = Append(tasks[id], v)
      <4>1. ASSUME NEW j \in Devices, NEW v \in Within(Points(j)),
                   tasks' = [tasks EXCEPT ![j] = Append(@, v)]
            PROVE  tasks'[id] = tasks[id] \/ (j = id /\ tasks'[id] = Append(tasks[id], v))
        BY <3>1, <4>1 DEF MapDomains
      <4> QED  BY <2>1, <4>1
    <3>5. tasks'[id] \in Seq(W)
      BY <3>2, <3>3, <3>4
    <3> QED  BY <2>1, <3>1, <3>5 DEF DeviceKinds
  <2>4. \A id \in Devices : RetryKind(id)'
    BY <2>1, <2>2 DEF Kinds, RetryKind
  <2> QED  BY <2>2, <2>3, <2>4 DEF Kinds
<1>3. CASE Tick \/ UNCHANGED vars
  <2>1. /\ UNCHANGED <<included, announcing, tasks, known, buffer, due, awaited, retry,
                       processor, states, overtaken, discovered, sent, device, reports, shown,
                       asked, undone, unconfirmed, missed, readings>>
        /\ now' \in {now, now + 1}
    BY <1>3 DEF Tick, vars, driver, world, history
  <2>2. Discoveries' /\ MapDomains' /\ now' \in Nat /\ included' \in Configs /\ Devices' = Devices
    BY <2>1 DEF Kinds, Discoveries, MapDomains, Devices, Names, Message
  <2>3. \A id \in Devices : Of(id)' = Of(id)
    BY <2>1 DEF Of
  <2> QED  BY <2>1, <2>2, <2>3, Same DEF Kinds
<1>4. CASE Restart
  <2>1. Discoveries'
    BY <1>4, RestartKinds DEF Kinds, Discoveries, Devices, Names, Message
  <2> QED  BY <1>4, <2>1, RestartKinds, SameNames DEF Kinds
<1> QED  BY <1>1, <1>2, <1>3, <1>4 DEF Next, DeviceStep

(* TypeOK: what the driver keeps of a device, and what is on its way, is    *)
(* about its own components and data points (device/device.py,              *)
(* contrib/*.py).                                                           *)
THEOREM BridgeTypes == Spec => []TypeOK
<1>1. Kinds => TypeOK
  <2> SUFFICES ASSUME Kinds, NEW id \in Devices, DeviceKinds(id), RetryKind(id)
      PROVE  /\ announcing[id] \subseteq Names(id)
             /\ {known[id], buffer[id], device[id], asked[id]} \subseteq Values
             /\ Keys(known[id]) \in {{}, PointsOfDevice(id)}
             /\ Keys(device[id]) = PointsOfDevice(id)
             /\ Keys(buffer[id]) \subseteq Points(id)
             /\ awaited[id] \in {"nobody", "command", "cancelled"}
             /\ retry[id] \in [step : {"idle", "backoff", "waiting"}, tries : 0..Retries]
             /\ \A i \in DOMAIN states[id] : DOMAIN states[id][i] = Names(id)
             /\ DOMAIN shown[id] \subseteq Names(id)
             /\ Window > 1 => Len(processor[id].values) <= Window
             /\ missed[id] \subseteq Names(id) /\ undone[id] \subseteq DataPoint
    BY DEF Kinds, TypeOK
  <2> QED  BY Dictionaries DEF DeviceKinds, RetryKind, Within, Complete
<1> QED  BY <1>1, InitKinds, KindsStep, PTL DEF Spec

-----------------------------------------------------------------------------
(* What was asked prevails.                                                 *)

LEMMA SameCommands ==
  ASSUME NEW id, CommandInv(id),
         UNCHANGED <<buffer[id], due[id], awaited[id], retry[id], sent[id], device[id],
                     asked[id], undone[id], unconfirmed[id]>>
  PROVE  CommandInv(id)'
BY DEF CommandInv, Armed, Prevails

\* What the buffer holds does not lie there unheeded.
LEMMA Arming ==
  ASSUME Kinds, NEW id \in Devices, Armed(id),
         Store(id) \/ CutShort(id) \/ Cancel(id) \/ Send(id) \/ Check(id)
  PROVE  Armed(id)'
<1> DEFINE r == retry[id]
<1>1. MapDomains /\ RetryKind(id)
  BY DEF Kinds
<1>2. /\ r.step \in {"idle", "backoff", "waiting"} /\ Idle.step = "idle"
      /\ Answered(r).step \in {"idle", "backoff"}
      /\ \A future : \/ AfterCall(r, future) = r /\ future = "cancelled"
                    \/ AfterCall(r, future).step \in {"idle", "backoff"}
  BY <1>1, Answering
<1>3. CASE Store(id)
  <2>1. /\ due'[id] <=> buffer'[id] # NoValues
        /\ awaited'[id] = "cancelled" => awaited[id] = "cancelled"
        /\ \/ retry'[id] = r /\ (buffer'[id] # NoValues \/ awaited[id] = "cancelled")
           \/ retry'[id] = Answered(r)
    BY <1>1, <1>3 DEF Store, MapDomains
  <2> QED  BY <1>2, <2>1 DEF Armed
<1>4. CASE CutShort(id)
  <2>1. /\ ~due[id] /\ UNCHANGED <<due[id], awaited[id], retry[id]>>
        /\ unconfirmed'[id] <=>
             unconfirmed[id] \/ (buffer'[id] # NoValues /\ r.step = "idle")
    BY <1>1, <1>4 DEF CutShort, MapDomains
  <2> QED  BY <1>2, <2>1 DEF Armed
<1>5. CASE Cancel(id)
  <2>1. /\ UNCHANGED <<buffer[id], due[id], unconfirmed[id]>>
        /\ \/ r.step = "waiting" /\ retry'[id] = Idle
           \/ r.step # "waiting" /\ retry'[id] = r
    BY <1>1, <1>5 DEF Cancel, MapDomains, history
  <2> QED  BY <1>2, <2>1 DEF Armed
<1>6. CASE Send(id)
  <2>1. UNCHANGED buffer[id] /\ ~due'[id]
    BY <1>1, <1>6 DEF Send, MapDomains
  <2>2. CASE buffer[id] = NoValues
    <3>1. UNCHANGED <<awaited[id], retry[id]>>
      BY <1>6, <2>2 DEF Send
    <3> QED  BY <2>1, <2>2, <3>1 DEF Armed
  <2>3. CASE buffer[id] # NoValues
    <3>1. /\ retry'[id] = AfterCall(r, awaited[id])
          /\ unconfirmed'[id] <=> retry'[id].step = "idle"
      BY <1>1, <1>6, <2>3 DEF Send, MapDomains
    <3>2. retry'[id].step \in {"idle", "backoff"}
      BY <1>2, <3>1 DEF Armed
    <3> QED  BY <3>1, <3>2 DEF Armed
  <2> QED  BY <2>2, <2>3
<1>7. CASE Check(id)
  <2> DEFINE left == Differing(buffer[id], known[id])
             again == left # NoValues /\ r.tries # Retries
  <2>1. /\ buffer'[id] = left /\ UNCHANGED awaited[id]
        /\ due'[id] <=> due[id] \/ again
        /\ unconfirmed'[id] <=> left # NoValues /\ ~again
        /\ \/ retry'[id] = Idle
           \/ again /\ awaited[id] # "cancelled"
    BY <1>1, <1>7 DEF Check, MapDomains
  <2> HIDE DEF left
  <2> QED  BY <1>2, <2>1 DEF Armed
<1> QED  BY <1>3, <1>4, <1>5, <1>6, <1>7

\* A value of the buffer that is dropped as the one the device reported is the
\* one it has, with no other on its way, or the data point counts as undone.
LEMMA Dropping ==
  ASSUME NEW id, NEW d, NEW wanted, d \in Settled(id, wanted), ~Moving(id, d)
  PROVE  /\ device[id][d] = wanted[d]
         /\ \A i \in DOMAIN sent[id] : sent[id][i][d] \in {wanted[d], Absent}
BY DEF Settled, Moving

LEMMA StorePrevails ==
  ASSUME Kinds, NEW id \in Devices, CommandInv(id), Store(id) \/ CutShort(id)
  PROVE  CommandInv(id)'
<1> DEFINE values == Head(tasks[id])
           wanted == Wanted(id, values)
           differing == Differing(wanted, known[id])
           kept == FilterValues(Rules(Model[id]), differing, known[id])
           forbidden == Keys(differing) \ Keys(kept)
           merged == Merge(asked[id], values)
           given == [d \in DataPoint |-> IF d \in forbidden THEN Absent ELSE merged[d]]
           moved == {d \in Settled(id, wanted) : Moving(id, d)}
<1>1. included \in Configs /\ MapDomains /\ DeviceKinds(id)
  BY DEF Kinds
<1>2. Stored(id) /\ tasks[id] # <<>> /\ UNCHANGED <<sent[id], device[id]>> /\ Armed(id)'
  BY <1>1, Arming DEF Store, CutShort, Stored, world, CommandInv
<1>3. \/ UNCHANGED <<buffer, asked, undone>>
      \/ /\ buffer' = [buffer EXCEPT ![id] = kept]
         /\ asked' = [asked EXCEPT ![id] = given]
         /\ undone' = [undone EXCEPT ![id] = (@ \ Keys(values)) \cup moved]
  <2>1. /\ asked' = [asked EXCEPT ![id] = given]
             <=> asked' = [asked EXCEPT ![id] = [d \in DataPoint |->
                             IF d \in forbidden THEN Absent ELSE Merge(@, values)[d]]]
    OBVIOUS
  <2> QED  BY <1>2, <2>1 DEF Stored
<1>4. /\ values \in Values /\ buffer[id] \in Values /\ known[id] \in Values
      /\ asked[id] \in Values
  BY <1>1, <1>2, Advancing, Wide, Dictionaries DEF DeviceKinds
<1>5. wanted \in Values /\ merged \in Values
      /\ \A d \in DataPoint :
           /\ wanted[d] = IF values[d] # Absent THEN values[d] ELSE buffer[id][d]
           /\ merged[d] = IF values[d] # Absent THEN values[d] ELSE asked[id][d]
  BY <1>4, Merged DEF Wanted
<1>6. differing \in Values
      /\ \A d \in DataPoint : differing[d] = IF wanted[d] = known[id][d] THEN Absent ELSE wanted[d]
  BY <1>4, <1>5, Merged
<1>7. \A d \in DataPoint : kept[d] \in {differing[d], Absent}
  BY <1>4, <1>6, Merged
<1>8. \A d \in Settled(id, wanted) : Moving(id, d) \/
        (/\ device[id][d] = wanted[d]
         /\ \A i \in DOMAIN sent[id] : sent[id][i][d] \in {wanted[d], Absent})
  BY Dropping
<1>9. \A d : d \in Settled(id, wanted)
              <=> d \in DataPoint /\ wanted[d] # Absent /\ wanted[d] = known[id][d]
  BY DEF Settled, Keys
<1>10. \A d : /\ d \in Keys(values) <=> d \in DataPoint /\ values[d] # Absent
              /\ d \in moved <=> d \in Settled(id, wanted) /\ Moving(id, d)
              /\ d \in forbidden <=> d \in DataPoint /\ differing[d] # Absent /\ kept[d] = Absent
  BY DEF Keys
<1>11. \A d \in DataPoint : given[d] = IF d \in forbidden THEN Absent ELSE merged[d]
  OBVIOUS
<1> HIDE DEF values, wanted, differing, kept, forbidden, merged, given, moved
<1>12. \/ UNCHANGED <<buffer[id], asked[id], undone[id]>>
       \/ /\ buffer'[id] = kept
          /\ asked'[id] = given /\ undone'[id] = (undone[id] \ Keys(values)) \cup moved
  BY <1>1, <1>3 DEF MapDomains
<1>13. CASE UNCHANGED <<buffer[id], asked[id], undone[id]>>
  BY <1>2, <1>13 DEF CommandInv, Prevails
<1>14. CASE /\ buffer'[id] = kept
            /\ asked'[id] = given /\ undone'[id] = (undone[id] \ Keys(values)) \cup moved
  <2>1. ASSUME NEW d \in Keys(given) \ undone'[id]
        PROVE  \/ kept[d] = given[d]
               \/ /\ kept[d] = Absent /\ device[id][d] = given[d]
                  /\ \A i \in DOMAIN sent[id] : sent[id][i][d] \in {given[d], Absent}
    <3>1. d \in DataPoint /\ given[d] # Absent /\ given[d] = merged[d] /\ d \notin forbidden
      BY <1>11 DEF Keys
    <3>2. d \notin moved /\ (values[d] = Absent => d \notin undone[id])
      BY <1>10, <1>14, <3>1
    <3>3. CASE wanted[d] = merged[d]
      <4>1. CASE wanted[d] = known[id][d]
        BY <1>6, <1>7, <1>8, <1>9, <1>10, <3>1, <3>2, <3>3, <4>1
      <4>2. CASE wanted[d] # known[id][d]
        BY <1>6, <1>7, <1>10, <3>1, <3>3, <4>2
      <4> QED  BY <4>1, <4>2
    <3>4. CASE wanted[d] # merged[d]
      <4>1. values[d] = Absent /\ given[d] = asked[id][d] /\ wanted[d] = buffer[id][d]
            /\ buffer[id][d] # asked[id][d]
        BY <1>5, <3>1, <3>4
      <4>2. d \in Keys(asked[id]) \ undone[id]
        BY <3>1, <3>2, <4>1 DEF Keys
      <4>3. /\ buffer[id][d] = Absent /\ device[id][d] = asked[id][d]
            /\ \A i \in DOMAIN sent[id] : sent[id][i][d] \in {asked[id][d], Absent}
        BY <4>1, <4>2 DEF CommandInv, Prevails
      <4>4. kept[d] = Absent
        BY <1>6, <1>7, <3>1, <4>1, <4>3
      <4> QED  BY <4>1, <4>3, <4>4
    <3> QED  BY <3>3, <3>4
  <2> QED  BY <1>2, <1>14, <2>1 DEF CommandInv, Prevails
<1> QED  BY <1>12, <1>13, <1>14

LEMMA CheckPrevails ==
  ASSUME Kinds, NEW id \in Devices, CommandInv(id), Check(id)  PROVE CommandInv(id)'
<1> DEFINE left == Differing(buffer[id], known[id])
           moved == {d \in Settled(id, buffer[id]) : Moving(id, d)}
<1>1. included \in Configs /\ MapDomains /\ DeviceKinds(id)
  BY DEF Kinds
<1>2. /\ UNCHANGED <<sent[id], device[id], asked[id]>>
      /\ buffer'[id] = left /\ undone'[id] = undone[id] \cup moved
      /\ Armed(id)'
  <2>1. /\ UNCHANGED <<sent, device, asked>>
        /\ buffer' = [buffer EXCEPT ![id] = left]
        /\ undone' = [undone EXCEPT ![id] = @ \cup moved]
    BY DEF Check, world
  <2>2. Armed(id)'
    BY Arming DEF CommandInv
  <2> HIDE DEF left, moved
  <2> QED  BY <1>1, <2>1, <2>2 DEF MapDomains
<1>3. buffer[id] \in Values /\ known[id] \in Values
  BY <1>1, Wide, Dictionaries DEF DeviceKinds
<1>4. \A d \in DataPoint :
        left[d] = IF buffer[id][d] = known[id][d] THEN Absent ELSE buffer[id][d]
  BY <1>3, Merged
<1>5. \A d \in Settled(id, buffer[id]) : d \in moved \/
        (/\ device[id][d] = buffer[id][d]
         /\ \A i \in DOMAIN sent[id] : sent[id][i][d] \in {buffer[id][d], Absent})
  BY Dropping
<1> HIDE DEF left, moved
<1>6. ASSUME NEW d \in Keys(asked[id]) \ (undone[id] \cup moved)
      PROVE  \/ left[d] = asked[id][d]
             \/ /\ left[d] = Absent /\ device[id][d] = asked[id][d]
                /\ \A i \in DOMAIN sent[id] : sent[id][i][d] \in {asked[id][d], Absent}
  <2>1. d \in DataPoint /\ asked[id][d] # Absent /\ d \notin moved /\ Prevails(id, d)
    BY DEF Keys, CommandInv
  <2>2. CASE buffer[id][d] = asked[id][d] /\ buffer[id][d] = known[id][d]
    <3>1. d \in Settled(id, buffer[id])
      BY <2>1, <2>2 DEF Settled, Keys
    <3> QED  BY <1>4, <1>5, <2>1, <2>2, <3>1
  <2>3. CASE buffer[id][d] = asked[id][d] /\ buffer[id][d] # known[id][d]
    BY <1>4, <2>1, <2>3
  <2>4. CASE buffer[id][d] # asked[id][d]
    BY <1>4, <2>1, <2>4 DEF Prevails
  <2> QED  BY <2>2, <2>3, <2>4
<1> QED  BY <1>2, <1>6 DEF CommandInv, Prevails

LEMMA DevicePrevails ==
  ASSUME Kinds, NEW id \in Devices, CommandInv(id),
         Cancel(id) \/ Send(id) \/ Respond(id) \/ Apply(id) \/ Change(id)
  PROVE  CommandInv(id)'
<1> DEFINE W == Within(Points(id))
<1>1. included \in Configs /\ MapDomains /\ DeviceKinds(id)
  BY DEF Kinds
<1>2. sent[id] \in Seq(W) /\ buffer[id] \in W /\ device[id] \in Values
      /\ W \subseteq Values /\ asked[id] \in Values
  BY <1>1, Wide DEF DeviceKinds
<1>3. CASE Send(id)
  <2>1. UNCHANGED <<buffer[id], device[id], asked[id], undone[id]>>
    BY <1>3 DEF Send, history
  <2>4. Armed(id)'
    BY <1>3, Arming DEF CommandInv
  <2>2. CASE buffer[id] = NoValues
    <3>1. UNCHANGED sent[id]
      BY <1>3, <2>2 DEF Send
    <3> QED  BY <2>1, <2>4, <3>1 DEF CommandInv, Prevails
  <2>3. CASE buffer[id] # NoValues
    <3>1. sent'[id] = Append(sent[id], buffer[id])
      BY <1>1, <1>3, <2>3 DEF Send, MapDomains
    <3>2. \A i \in DOMAIN sent'[id] : sent'[id][i] = buffer[id]
                                      \/ (i \in DOMAIN sent[id] /\ sent'[id][i] = sent[id][i])
      BY <1>2, <3>1
    <3>3. \A d \in Keys(asked[id]) \ undone[id] : Prevails(id, d)'
      BY <2>1, <3>2 DEF CommandInv, Prevails
    <3> QED  BY <2>1, <2>4, <3>3 DEF CommandInv
  <2> QED  BY <2>2, <2>3
<1>4. CASE Respond(id)
  <2>1. sent'[id] = <<>>
        /\ UNCHANGED <<buffer[id], due[id], awaited[id], retry[id], unconfirmed[id], device[id], asked[id], undone[id]>>
    BY <1>1, <1>4 DEF Respond, driver, history, MapDomains
  <2>2. DOMAIN <<>> = {}
    OBVIOUS
  <2> QED  BY <2>1, <2>2 DEF CommandInv, Armed, Prevails
<1>5. CASE Apply(id)
  <2> DEFINE h == Head(sent[id])
  <2>1. /\ sent[id] # <<>> /\ sent'[id] = Tail(sent[id])
        /\ device'[id] = Merge(device[id], h)
        /\ UNCHANGED <<buffer[id], due[id], awaited[id], retry[id], unconfirmed[id], asked[id], undone[id]>>
    BY <1>1, <1>5 DEF Apply, driver, history, MapDomains
  <2>2. /\ h = sent[id][1] /\ 1 \in DOMAIN sent[id] /\ h \in W
        /\ \A i \in DOMAIN sent'[id] : i + 1 \in DOMAIN sent[id] /\ sent'[id][i] = sent[id][i + 1]
    BY <1>2, <2>1
  <2> HIDE DEF h
  <2>3. \A d \in DataPoint : device'[id][d] = IF h[d] # Absent THEN h[d] ELSE device[id][d]
    BY <1>2, <2>1, <2>2, Merged
  <2>4. ASSUME NEW d \in Keys(asked[id]) \ undone[id]  PROVE Prevails(id, d)'
    <3>1. d \in DataPoint /\ Prevails(id, d)
      BY DEF CommandInv, Keys
    <3>2. CASE buffer[id][d] = asked[id][d]
      BY <2>1, <3>2 DEF Prevails
    <3>3. CASE /\ buffer[id][d] = Absent /\ device[id][d] = asked[id][d]
               /\ \A i \in DOMAIN sent[id] : sent[id][i][d] \in {asked[id][d], Absent}
      BY <2>1, <2>2, <2>3, <3>1, <3>3 DEF Prevails
    <3> QED  BY <3>1, <3>2, <3>3 DEF Prevails
  <2> QED  BY <2>1, <2>4 DEF CommandInv, Armed
<1>6. CASE Change(id)
  <2>1. PICK e \in Points(id) : \E x \in Takes[id][e] :
          /\ device' = [device EXCEPT ![id][e] = x]
          /\ asked' = [asked EXCEPT ![id][e] = Absent]
          /\ UNCHANGED <<included, driver, sent, undone, unconfirmed>>
    BY <1>6 DEF Change
  <2>2. PICK x \in Takes[id][e] :
          /\ device' = [device EXCEPT ![id][e] = x]
          /\ asked' = [asked EXCEPT ![id][e] = Absent]
          /\ UNCHANGED <<included, driver, sent, undone, unconfirmed>>
    BY <2>1
  <2>3. /\ device'[id] = [device[id] EXCEPT ![e] = x]
        /\ asked'[id] = [asked[id] EXCEPT ![e] = Absent]
        /\ UNCHANGED <<buffer[id], due[id], awaited[id], retry[id], unconfirmed[id], sent[id], undone[id]>>
    BY <1>1, <2>2 DEF driver, MapDomains
  <2>4. \A d \in DataPoint :
          /\ d # e => asked'[id][d] = asked[id][d] /\ device'[id][d] = device[id][d]
          /\ d = e => asked'[id][d] = Absent
    BY <1>2, <2>3 DEF Values
  <2> QED  BY <2>3, <2>4 DEF CommandInv, Armed, Prevails, Keys
<1>7. CASE Cancel(id)
  <2>1. UNCHANGED <<buffer, sent, device, asked, undone>> /\ Armed(id)'
    BY <1>7, Arming DEF Cancel, history, CommandInv
  <2> QED  BY <2>1 DEF CommandInv, Prevails
<1> QED  BY <1>3, <1>4, <1>5, <1>6, <1>7

LEMMA CommandStep ==
  ASSUME Kinds, \A id \in Devices : CommandInv(id), [Next]_vars
  PROVE  (\A id \in Devices : CommandInv(id))'
<1>1. ASSUME NEW id \in Devices, DeviceStep(id)  PROVE \A j \in Devices' : CommandInv(j)'
  <2>1. included' = included /\ \A j \in Devices : j # id => Of(j)' = Of(j)
    BY <1>1, Alone DEF Kinds
  <2>2. CommandInv(id)'
    <3>1. CASE Announce(id) \/ AbandonAnnouncement(id) \/ Forget(id) \/ Learn(id) \/ Publish(id)
               \/ DropState(id)
      <4>1. UNCHANGED <<buffer, due, awaited, retry, unconfirmed, sent, device, asked, undone>>
        BY <3>1 DEF Announce, AbandonAnnouncement, Forget, Learn, Publish, DropState, world, history
      <4> QED  BY <4>1, SameCommands
    <3> QED  BY <1>1, <3>1, StorePrevails, CheckPrevails, DevicePrevails DEF DeviceStep
  <2>3. \A j \in Devices : j # id => CommandInv(j)'
    BY <2>1, Same
  <2> QED  BY <2>1, <2>2, <2>3, SameNames
<1>2. CASE Press \/ Stray
  <2>1. UNCHANGED <<included, buffer, due, awaited, retry, unconfirmed, sent, device, asked, undone>>
    BY <1>2, Receiving DEF history
  <2> QED  BY <2>1, SameCommands, SameNames
<1>3. CASE Tick \/ UNCHANGED vars
  <2>1. UNCHANGED <<included, buffer, due, awaited, retry, unconfirmed, sent, device, asked, undone>>
    BY <1>3 DEF Tick, vars, driver, world, history
  <2> QED  BY <2>1, SameCommands, SameNames
<1>4. CASE Restart
  <2>1. included' = included
        /\ \A id \in Devices :
             buffer'[id] = NoValues /\ asked'[id] = NoValues /\ retry'[id].step = "idle"
    BY <1>4 DEF Restart, Idle
  <2> QED  BY <2>1, Dictionaries, SameNames DEF CommandInv, Armed
<1> QED  BY <1>1, <1>2, <1>3, <1>4 DEF Next, DeviceStep

(* AskedPrevails: of the values that the buffer merges, filters, sends,      *)
(* checks a bounded number of times and gives up (device/buffer.py) none is *)
(* lost: the device has it or, given up, the buffer; whatever the devices,  *)
(* the retries, the timeouts of the commands and the losses.                *)
THEOREM CommandsPrevail == Spec => []AskedPrevails
<1> DEFINE Inv == Kinds /\ \A id \in Devices : CommandInv(id)
<1>1. Init => Inv
  <2> SUFFICES ASSUME Init, NEW id \in Devices  PROVE CommandInv(id)
    BY InitKinds
  <2>1. buffer[id] = NoValues /\ asked[id] = NoValues /\ retry[id].step = "idle"
    BY DEF Init, Idle
  <2> QED  BY <2>1, Dictionaries DEF CommandInv, Armed
<1>2. Inv /\ [Next]_vars => Inv'
  BY KindsStep, CommandStep
<1>3. Inv => AskedPrevails
  <2> SUFFICES ASSUME Inv, NEW id \in Devices, Quiet(id), NEW d \in Keys(asked[id]) \ undone[id]
               PROVE  Obeyed(id, d)
    BY DEF AskedPrevails
  <2>1. (buffer[id] # NoValues => unconfirmed[id]) /\ Prevails(id, d)
    BY DEF Quiet, CommandInv, Armed
  <2>2. d \in DataPoint /\ asked[id][d] # Absent
    BY DEF Keys
  <2>3. buffer[id][d] = asked[id][d] => buffer[id] # NoValues
    BY <2>2 DEF NoValues
  <2> QED  BY <2>1, <2>3 DEF Prevails, Obeyed
<1> QED  BY <1>1, <1>2, <1>3, PTL DEF Spec

-----------------------------------------------------------------------------
(* The hub shows what the device has.                                       *)

LEMMA SameStates ==
  ASSUME NEW id, StateInv(id),
         UNCHANGED <<included, reports[id], known[id], device[id], states[id],
                     overtaken[id], shown[id], missed[id]>>
  PROVE  StateInv(id)'
BY SameNames DEF StateInv, Reached

LEMMA ReportShown ==
  ASSUME Kinds, NEW id \in Devices, StateInv(id), Respond(id) \/ Apply(id) \/ Change(id)
  PROVE  StateInv(id)'
<1> DEFINE C == Complete(PointsOfDevice(id))
<1>1. MapDomains /\ DeviceKinds(id) /\ DeviceKinds(id)'
      /\ included' = included /\ Names(id)' = Names(id)
  BY Alone, SameNames, ReportKinds DEF Kinds, DeviceStep
<1>2. device[id] \in C /\ device'[id] \in C /\ reports[id] \in Seq(C)
  BY <1>1 DEF DeviceKinds
<1>3. UNCHANGED <<known[id], states[id], overtaken[id], shown[id], missed[id], included[id]>>
  BY <1>1 DEF Respond, Apply, Change, driver, history
<1>4. \/ reports'[id] = <<device'[id]>>
      \/ reports'[id] = Append(reports[id], device'[id])
      \/ known[id] = NoValues /\ reports[id] = <<>> /\ reports'[id] = <<>>
  <2>1. CASE Respond(id)
    BY <1>1, <2>1 DEF Respond, MapDomains
  <2>2. CASE Apply(id)
    <3>1. reports'[id] = Told(id, device'[id])
      BY <1>1, <2>2 DEF Apply, MapDomains
    <3> QED  BY <3>1 DEF Told
  <2>3. CASE Change(id)
    <3>1. reports'[id] = Told(id, device'[id])
      BY <1>1, <2>3 DEF Change, MapDomains
    <3> QED  BY <3>1 DEF Told
  <2> QED  BY <2>1, <2>2, <2>3
<1>5. /\ reports'[id] = <<>> => known[id] = NoValues
      /\ reports'[id] # <<>> => Last(reports'[id]) = device'[id]
  <2>1. CASE reports'[id] = <<device'[id]>>
    <3>1. \A x : <<x>> # <<>> /\ Last(<<x>>) = x
      BY DEF Last
    <3> QED  BY <2>1, <3>1
  <2>2. CASE reports'[id] = Append(reports[id], device'[id])
    <3>1. Append(reports[id], device'[id]) # <<>>
          /\ Last(Append(reports[id], device'[id])) = device'[id]
      BY <1>2, Appending
    <3> QED  BY <2>2, <3>1
  <2> QED  BY <1>4, <2>1, <2>2
<1> QED  BY <1>1, <1>3, <1>5 DEF StateInv, Reached

LEMMA LearnShown ==
  ASSUME Kinds, NEW id \in Devices, StateInv(id), Learn(id)  PROVE StateInv(id)'
<1> DEFINE C == Complete(PointsOfDevice(id))
           values == Head(reports[id])
           t == IF "temperature" \in Names(id) THEN Mean(processor'[id].last) ELSE Nothing
           state == FromTuyaPayload(Model[id], included[id], values, t)
           plain == FromTuyaPayload(Model[id], included[id], values, Nothing)
<1>1. MapDomains /\ DeviceKinds(id) /\ included \in Configs
      /\ included' = included /\ Names(id)' = Names(id)
  BY Alone, SameNames DEF Kinds, DeviceStep
<1>2. reports[id] # <<>> /\ reports'[id] = Tail(reports[id]) /\ known'[id] = values /\ values \in C
      /\ UNCHANGED <<device[id], shown[id], overtaken[id]>>
      /\ \/ values = known[id] /\ UNCHANGED <<states[id], missed[id]>>
         \/ values # known[id] /\ missed'[id] = Names(id) /\ UNCHANGED states[id]
         \/ /\ values # known[id] /\ missed'[id] = {}
            /\ states'[id] = Append(states[id], state)
  BY Learning
<1>3. reports[id] \in Seq(C) /\ IsQueue(states[id])
  BY <1>1 DEF DeviceKinds
<1>4. /\ reports'[id] = <<>> => values = device[id]
      /\ reports'[id] # <<>> => Last(reports'[id]) = device[id]
  <2>1. Last(reports[id]) = device[id]
    BY <1>2 DEF StateInv
  <2> QED  BY <1>2, <1>3, <2>1, Advancing
<1>5. values # NoValues
  <2>1. "power" \in Keys(values)
    BY <1>1, <1>2, Configured DEF Complete
  <2> QED  BY <2>1, Dictionaries
<1>6. \A c \in Names(id) \ {"temperature"} : state[c] = plain[c]
  <2>1. \A u : \A c \in Names(id) \ {"temperature"} :
          FromTuyaPayload(Model[id], included[id], values, u)[c] = plain[c]
    <3> HIDE DEF values
    <3> QED  BY <1>1, <1>2, Conversion
  <2> QED  BY <2>1
<1>7. /\ Append(states[id], state) # <<>> /\ Last(Append(states[id], state)) = state
      /\ overtaken[id] => Len(Append(states[id], state)) # 1
  <2>1. states[id] \in Seq({states[id][i] : i \in DOMAIN states[id]})
    BY <1>3 DEF IsQueue
  <2>2. Len(Append(states[id], state)) = Len(states[id]) + 1 /\ Len(states[id]) \in Nat
        /\ (Len(states[id]) = 0 => states[id] = <<>>)
    <3> HIDE DEF state
    <3> QED  BY <2>1, EmptySeq
  <2>3. overtaken[id] => states[id] # <<>>
    BY DEF StateInv
  <2> HIDE DEF state
  <2> QED  BY <1>3, <2>2, <2>3, Queued
<1> HIDE DEF state, values
<1>8. plain = FromTuyaPayload(Model[id], included[id], values, Nothing)
  OBVIOUS
<1> HIDE DEF plain
<1>9. ASSUME NEW c \in Names(id) \ (missed'[id] \cup {"temperature"})
      PROVE  /\ Reached(id)' => c \in DOMAIN shown[id] /\ shown[id][c] = plain[c]
             /\ ~Reached(id)' => Last(states'[id])[c] = plain[c]
  <2>1. CASE values = known[id] /\ UNCHANGED <<states[id], missed[id]>>
    BY <1>2, <1>5, <1>8, <2>1 DEF StateInv, Reached
  <2>2. CASE states'[id] = Append(states[id], state)
    BY <1>2, <1>6, <1>7, <2>2 DEF Reached
  <2> QED  BY <1>2, <2>1, <2>2
<1>10. overtaken'[id] => states'[id] # <<>>
  BY <1>2, <1>7 DEF StateInv
<1> QED  BY <1>1, <1>2, <1>4, <1>5, <1>8, <1>9, <1>10 DEF StateInv

\* What is left of the states when the i-th leaves, and whether the newest has
\* reached the hub.
LEMMA Leaving ==
  ASSUME NEW id, IsQueue(states[id]), NEW i \in InPool(id),
         states'[id] = Remaining(states[id], i)
  PROVE  LET n == Len(states[id])
         IN  /\ states[id] # <<>> /\ n \in Nat \ {0} /\ i \in 1..n /\ i \in {1, 2}
             /\ Len(states'[id]) = n - 1 /\ (n = 1 <=> states'[id] = <<>>)
             /\ i < n => Last(states'[id]) = Last(states[id])
             /\ i = n => Last(states[id]) = states[id][i]
<1> DEFINE n == Len(states[id])
<1>1. n \in Nat /\ DOMAIN states[id] = 1..n
  BY Queued
<1>2. i \in 1..n /\ i \in {1, 2} /\ n # 0
  BY <1>1 DEF InPool
<1>3. IsQueue(states'[id]) /\ Len(states'[id]) = n - 1
      /\ (i < n => Last(states'[id]) = Last(states[id]))
  BY <1>1, <1>2, Removing
<1>4. states'[id] \in Seq({states'[id][j] : j \in DOMAIN states'[id]})
  BY <1>3 DEF IsQueue
<1>5. n - 1 = 0 <=> states'[id] = <<>>
  BY <1>3, <1>4, EmptySeq
<1>6. states[id] # <<>>
  BY <1>2
<1> QED  BY <1>1, <1>2, <1>3, <1>5, <1>6 DEF Last

LEMMA PublishShown ==
  ASSUME Kinds, NEW id \in Devices, StateInv(id), Publish(id)  PROVE StateInv(id)'
<1> DEFINE plain == FromTuyaPayload(Model[id], included[id], known[id], Nothing)
           heard == {m.template : m \in {n \in discovered : n.state_topic = StateTopic(id)}}
           next(i) == [c \in DOMAIN shown[id] \cup heard |->
                         IF c \notin heard THEN shown[id][c]
                         ELSE IF c \in DOMAIN states[id][i] THEN states[id][i][c] ELSE Nothing]
           n == Len(states[id])
<1>1. MapDomains /\ DeviceKinds(id) /\ included' = included /\ Names(id)' = Names(id)
  BY Alone, SameNames DEF Kinds, DeviceStep
<1>2. UNCHANGED <<known[id], reports[id], device[id]>>
  BY Publishing
<1>3. PICK i \in InPool(id) :
        /\ states'[id] = Remaining(states[id], i)
        /\ overtaken'[id] <=> i = 2
        /\ shown'[id] = next(i)
        /\ missed'[id] = IF Newest(id, i) THEN missed[id] \cup (Names(id) \ heard)
                         ELSE IF n = 1 THEN Names(id) ELSE missed[id]
  BY Publishing
<1>4. IsQueue(states[id]) /\ \A j \in DOMAIN states[id] : DOMAIN states[id][j] = Names(id)
  BY <1>1 DEF DeviceKinds
<1>5. /\ states[id] # <<>> /\ n \in Nat \ {0} /\ i \in 1..n /\ i \in {1, 2}
      /\ Len(states'[id]) = n - 1 /\ (n = 1 <=> states'[id] = <<>>)
      /\ i < n => Last(states'[id]) = Last(states[id])
      /\ i = n => Last(states[id]) = states[id][i]
      /\ DOMAIN states[id][i] = Names(id)
  BY <1>3, <1>4, Leaving DEF InPool
<1>6. /\ DOMAIN next(i) = DOMAIN shown[id] \cup heard
      /\ \A c \in heard : c \in Names(id) => next(i)[c] = states[id][i][c]
  BY <1>5
<1> HIDE DEF heard, next, plain
<1>7. known[id] # NoValues
  BY <1>5 DEF StateInv
<1>8. ASSUME NEW c \in Names(id) \ (missed'[id] \cup {"temperature"})
      PROVE  /\ Reached(id)' => c \in DOMAIN shown'[id] /\ shown'[id][c] = plain[c]
             /\ ~Reached(id)' => Last(states'[id])[c] = plain[c]
  <2>1. ~Reached(id) /\ c \notin missed[id]
    BY <1>3, <1>5 DEF Reached, Newest
  <2>2. Last(states[id])[c] = plain[c]
    BY <1>7, <2>1 DEF StateInv, plain
  <2>3. CASE i = n
    <3>1. Newest(id, i) /\ Reached(id)'
      BY <1>3, <1>5, <2>1, <2>3 DEF Newest, Reached
    <3>2. c \in heard
      BY <1>3, <3>1
    <3> QED  BY <1>3, <1>5, <1>6, <2>2, <2>3, <3>1, <3>2
  <2>4. CASE i < n
    <3>1. ~Reached(id)'
      <4>1. states'[id] # <<>> /\ (i = 2 => Len(states'[id]) # 1)
        <5> HIDE DEF n
        <5> QED  BY <1>5, <2>4
      <4>2. overtaken'[id] => i = 2
        BY <1>3
      <4> QED  BY <4>1, <4>2 DEF Reached
    <3> QED  BY <1>5, <2>2, <2>4, <3>1
  <2> QED  BY <1>5, <2>3, <2>4
<1>9. overtaken'[id] => states'[id] # <<>>
  BY <1>3, <1>5
<1> QED  BY <1>1, <1>2, <1>7, <1>8, <1>9 DEF StateInv, plain

LEMMA DropShown ==
  ASSUME Kinds, NEW id \in Devices, StateInv(id), DropState(id)  PROVE StateInv(id)'
<1> DEFINE plain == FromTuyaPayload(Model[id], included[id], known[id], Nothing)
           n == Len(states[id])
<1>1. MapDomains /\ DeviceKinds(id) /\ included' = included /\ Names(id)' = Names(id)
  BY Alone, SameNames DEF Kinds, DeviceStep
<1>2. UNCHANGED <<known[id], reports[id], device[id], shown[id]>>
  BY DroppingState
<1>3. PICK i \in InPool(id) :
        /\ states'[id] = Remaining(states[id], i)
        /\ overtaken'[id] <=> overtaken[id] /\ i = 2
        /\ missed'[id] = IF Newest(id, i) THEN Names(id) ELSE missed[id]
  BY DroppingState
<1>4. IsQueue(states[id])
  BY <1>1 DEF DeviceKinds
<1>5. /\ states[id] # <<>> /\ n \in Nat \ {0} /\ i \in 1..n /\ i \in {1, 2}
      /\ Len(states'[id]) = n - 1 /\ (n = 1 <=> states'[id] = <<>>)
      /\ i < n => Last(states'[id]) = Last(states[id])
  BY <1>3, <1>4, Leaving
<1> HIDE DEF plain
<1>6. known[id] # NoValues
  BY <1>5 DEF StateInv
<1>7. ASSUME NEW c \in Names(id) \ (missed'[id] \cup {"temperature"})
      PROVE  /\ Reached(id)' => c \in DOMAIN shown[id] /\ shown[id][c] = plain[c]
             /\ ~Reached(id)' => Last(states'[id])[c] = plain[c]
  <2>1. ~Newest(id, i) /\ c \notin missed[id]
    BY <1>3
  <2>2. /\ Reached(id) => c \in DOMAIN shown[id] /\ shown[id][c] = plain[c]
        /\ ~Reached(id) => Last(states[id])[c] = plain[c]
    BY <1>6, <2>1 DEF StateInv, plain
  <2>3. CASE i = n
    <3>1. Reached(id) /\ Reached(id)'
      BY <1>5, <2>1, <2>3 DEF Newest, Reached
    <3> QED  BY <2>2, <3>1
  <2>4. CASE i < n
    <3>1. ~Reached(id)' /\ ~Reached(id)
      <4>1. states'[id] # <<>> /\ n # 1 /\ (i = 2 => Len(states'[id]) # 1)
        <5> HIDE DEF n
        <5> QED  BY <1>5, <2>4
      <4>2. overtaken'[id] => i = 2
        BY <1>3
      <4> QED  BY <1>5, <4>1, <4>2 DEF Reached
    <3> QED  BY <1>5, <2>2, <2>4, <3>1
  <2> QED  BY <1>5, <2>3, <2>4
<1>8. overtaken'[id] => states'[id] # <<>>
  BY <1>3, <1>5
<1> QED  BY <1>1, <1>2, <1>6, <1>7, <1>8 DEF StateInv, plain

LEMMA StateStep ==
  ASSUME Kinds, \A id \in Devices : StateInv(id), [Next]_vars
  PROVE  (\A id \in Devices : StateInv(id))'
<1>1. ASSUME NEW id \in Devices, DeviceStep(id)  PROVE \A j \in Devices' : StateInv(j)'
  <2>1. included' = included /\ \A j \in Devices : j # id => Of(j)' = Of(j)
    BY <1>1, Alone DEF Kinds
  <2>2. StateInv(id)'
    <3>1. CASE Announce(id) \/ AbandonAnnouncement(id) \/ Forget(id) \/ Store(id)
               \/ CutShort(id) \/ Cancel(id) \/ Send(id) \/ Check(id)
      <4>1. UNCHANGED <<reports, known, device, states, overtaken, shown, missed>>
        BY <3>1 DEF Announce, AbandonAnnouncement, Forget, Store, CutShort, Stored,
      Cancel, Send, Check, world, history
      <4> QED  BY <2>1, <4>1, SameStates
    <3> QED  BY <1>1, <3>1, ReportShown, LearnShown, PublishShown, DropShown DEF DeviceStep
  <2>3. \A j \in Devices : j # id => StateInv(j)'
    BY <2>1, Same
  <2> QED  BY <2>1, <2>2, <2>3, SameNames
<1>2. CASE Press \/ Stray
  <2>1. UNCHANGED <<included, reports, known, device, states, overtaken, shown, missed>>
    BY <1>2, Receiving DEF history
  <2> QED  BY <2>1, SameStates, SameNames
<1>3. CASE Tick \/ UNCHANGED vars
  <2>1. UNCHANGED <<included, reports, known, device, states, overtaken, shown, missed>>
    BY <1>3 DEF Tick, vars, driver, world, history
  <2> QED  BY <2>1, SameStates, SameNames
<1>4. CASE Restart
  <2>1. included' = included
        /\ \A id \in Devices : reports'[id] = <<>> /\ known'[id] = NoValues /\ states'[id] = <<>>
                                     /\ ~overtaken'[id]
    BY <1>4 DEF Restart
  <2> QED  BY <2>1, SameNames DEF StateInv
<1> QED  BY <1>1, <1>2, <1>3, <1>4 DEF Next, DeviceStep

(* ShownIsTheDevices: the last state that State and Device._update_state    *)
(* give of a device is the device's, and the hub shows it once the pool of  *)
(* two has published it, or counts it among those it missed: not announced, *)
(* not converted, dropped, or followed by an older one (tuya/state.py,      *)
(* device/device.py, mqtt/client.py).                                       *)
THEOREM HubShowsDevices == Spec => []ShownIsTheDevices
<1> DEFINE Inv == Kinds /\ \A id \in Devices : StateInv(id)
<1>1. Init => Inv
  <2> SUFFICES ASSUME Init, NEW id \in Devices  PROVE StateInv(id)
    BY InitKinds
  <2>1. reports[id] = <<>> /\ known[id] = NoValues /\ states[id] = <<>> /\ ~overtaken[id]
    BY DEF Init
  <2> QED  BY <2>1 DEF StateInv
<1>2. Inv /\ [Next]_vars => Inv'
  BY KindsStep, StateStep
<1>3. Inv => ShownIsTheDevices
  <2> SUFFICES ASSUME Inv, NEW id \in Devices, Quiet(id),
                      NEW c \in Names(id) \ (missed[id] \cup {"temperature"})
               PROVE  c \in DOMAIN shown[id]
                      /\ shown[id][c] = FromTuyaPayload(Model[id], included[id], device[id], Nothing)[c]
    BY DEF ShownIsTheDevices
  <2>1. known[id] = device[id] /\ states[id] = <<>> /\ known[id] # NoValues
    BY DEF Quiet, StateInv
  <2> QED  BY <2>1 DEF StateInv, Reached
<1> QED  BY <1>1, <1>2, <1>3, PTL DEF Spec

-----------------------------------------------------------------------------
(* The temperature is that of the last readings.                            *)

LEMMA SameProcessor ==
  ASSUME NEW id, ProcessorInv(id), UNCHANGED <<processor[id], readings[id]>>
  PROVE  ProcessorInv(id)'
BY DEF ProcessorInv

\* Before the first reading there is nothing.
LEMMA NoReadings ==
  Window > 1 => NoProcessor.values = Recent(<<>>, Len(<<>>)) /\ NoProcessor.last = <<>>
<1>1. SUFFICES ASSUME Window > 1  PROVE Recent(<<>>, 0) = <<>>
  BY DEF NoProcessor
<1>2. First(0) = 1
  BY <1>1, ProcessorAssumption DEF First
<1>3. 1..(0 - First(0) + 1) = {}
  BY <1>2
<1> QED  BY <1>3 DEF Recent

\* The values of the readings up to the k-th.
LEMMA Recents ==
  ASSUME Window > 1, NEW r \in Seq(Reading), NEW k \in 0..Len(r)
  PROVE  /\ Recent(r, k) \in Seq(Value)
         /\ Len(Recent(r, k)) = IF k < Window THEN k ELSE Window
         /\ First(k) \in Nat \ {0} /\ First(k) <= k + 1
         /\ \A i \in 1..(k - First(k) + 1) : Recent(r, k)[i] = r[First(k) + i - 1].value
<1>1. Window \in Nat /\ Len(r) \in Nat /\ k \in Nat
  BY ProcessorAssumption
<1>2. First(k) \in Nat \ {0} /\ First(k) <= k + 1
      /\ k - First(k) + 1 = (IF k < Window THEN k ELSE Window)
  BY <1>1 DEF First
<1> DEFINE f == First(k)
           l == k - f + 1
<1>3. f \in Nat \ {0} /\ l \in Nat /\ \A i \in 1..l : f + i - 1 \in 1..Len(r)
  BY <1>1, <1>2
<1> HIDE DEF f, l
<1>4. \A i \in 1..l : r[f + i - 1].value \in Value
  <2>1. \A j \in 1..Len(r) : r[j].value \in Value
    <3>1. \A j \in 1..Len(r) : r[j] \in Reading
      OBVIOUS
    <3> QED  BY <3>1 DEF Reading
  <2> QED  BY <1>3, <2>1
<1>5. Recent(r, k) = [i \in 1..l |-> r[f + i - 1].value]
  BY DEF Recent, f, l
<1>6. Recent(r, k) \in Seq(Value) /\ Len(Recent(r, k)) = l
  BY <1>3, <1>4, <1>5
<1> QED  BY <1>2, <1>5, <1>6 DEF f, l

LEMMA Windows ==
  ASSUME Window > 1, NEW r \in Seq(Reading), NEW x \in Reading
  PROVE  /\ Append(Kept(Recent(r, Len(r))), x.value) = Recent(Append(r, x), Len(r) + 1)
         /\ \A k \in 1..Len(r) : Recent(Append(r, x), k) = Recent(r, k)
<1> DEFINE n == Len(r)
           s == Append(r, x)
           v == Recent(r, n)
           w == Recent(s, n + 1)
           kept == Kept(v)
<1>1. Window \in Nat /\ n \in Nat /\ s \in Seq(Reading) /\ Len(s) = n + 1 /\ x.value \in Value
      /\ s[n + 1] = x /\ \A i \in 1..n : s[i] = r[i]
  BY ProcessorAssumption DEF Reading
<1>2. ASSUME NEW k \in 1..n  PROVE Recent(s, k) = Recent(r, k)
  <2>1. Recent(r, k) \in Seq(Value) /\ Recent(s, k) \in Seq(Value)
        /\ Len(Recent(r, k)) = Len(Recent(s, k)) /\ First(k) \in Nat \ {0} /\ First(k) <= k + 1
    <3>1. k \in 0..Len(r) /\ k \in 0..Len(s)
      BY <1>1
    <3> HIDE DEF s, n
    <3> QED  BY <1>1, <3>1, Recents
  <2> DEFINE f == First(k)
             l == k - f + 1
  <2>2. \A i \in 1..l : f + i - 1 \in 1..n
    BY <1>1, <2>1
  <2> HIDE DEF s, n
  <2>3. \A i \in 1..l : s[f + i - 1] = r[f + i - 1]
    BY <1>1, <2>2
  <2>4. Recent(s, k) = [i \in 1..l |-> s[f + i - 1].value]
        /\ Recent(r, k) = [i \in 1..l |-> r[f + i - 1].value]
    BY DEF Recent
  <2> HIDE DEF f, l
  <2> QED  BY <2>3, <2>4
<1>3. v \in Seq(Value) /\ Len(v) = (IF n < Window THEN n ELSE Window)
      /\ \A i \in 1..(n - First(n) + 1) : v[i] = r[First(n) + i - 1].value
  BY <1>1, Recents
<1>4. w \in Seq(Value) /\ Len(w) = (IF n + 1 < Window THEN n + 1 ELSE Window)
      /\ \A i \in 1..(n + 1 - First(n + 1) + 1) : w[i] = s[First(n + 1) + i - 1].value
  <2>1. n + 1 \in 0..Len(s)
    BY <1>1
  <2> HIDE DEF s, n
  <2>2. ASSUME NEW m \in 0..Len(s)
        PROVE  /\ Recent(s, m) \in Seq(Value)
               /\ Len(Recent(s, m)) = IF m < Window THEN m ELSE Window
               /\ \A i \in 1..(m - First(m) + 1) : Recent(s, m)[i] = s[First(m) + i - 1].value
    BY <1>1, Recents
  <2>3. PICK m \in 0..Len(s) : m = n + 1
    BY <2>1
  <2>4. w = Recent(s, m)
    BY <2>3
  <2>5. /\ Recent(s, m) \in Seq(Value)
        /\ Len(Recent(s, m)) = IF m < Window THEN m ELSE Window
        /\ \A i \in 1..(m - First(m) + 1) : Recent(s, m)[i] = s[First(m) + i - 1].value
    BY <2>2
  <2> HIDE DEF w
  <2>6. /\ w \in Seq(Value)
        /\ Len(w) = IF m < Window THEN m ELSE Window
        /\ \A i \in 1..(m - First(m) + 1) : w[i] = s[First(m) + i - 1].value
    BY <2>4, <2>5
  <2>7. First(m) \in Nat \ {0}
    BY <1>1, Recents
  <2> QED  BY <1>1, <2>3, <2>6, <2>7
<1>5. ASSUME n < Window  PROVE Append(kept, x.value) = w
  <2>1. kept = v /\ Len(v) = n /\ First(n) = 1 /\ First(n + 1) = 1 /\ Len(w) = n + 1
    BY <1>1, <1>3, <1>4, <1>5 DEF Kept, First
  <2>2. \A i \in 1..n : v[i] = r[i].value
    BY <1>1, <1>3, <2>1
  <2>3. \A i \in 1..(n + 1) : w[i] = s[i].value
    BY <1>1, <1>4, <2>1
  <2> HIDE DEF n, s, v, w, kept
  <2>4. \A i \in 1..(n + 1) : Append(v, x.value)[i] = w[i]
    BY <1>1, <1>3, <2>1, <2>2, <2>3
  <2>5. Append(v, x.value) \in Seq(Value) /\ Len(Append(v, x.value)) = n + 1
    BY <1>1, <1>3, <2>1
  <2>6. Append(v, x.value) = w
    BY <1>1, <1>4, <2>1, <2>4, <2>5, SeqEqual
  <2> QED  BY <2>1, <2>6
<1>6. ASSUME n >= Window  PROVE Append(kept, x.value) = w
  <2>1. /\ Len(v) = Window /\ First(n) = n - Window + 1 /\ First(n + 1) = n - Window + 2
        /\ Len(w) = Window
    BY <1>1, <1>3, <1>4, <1>6 DEF First
  <2>2. kept = SubSeq(v, 2, Window)
    <3> HIDE DEF v
    <3> QED  BY <1>1, <2>1 DEF Kept
  <2>3. \A i \in 1..Window : v[i] = r[n - Window + i].value
    BY <1>1, <1>3, <1>6, <2>1
  <2>4. \A i \in 1..Window : w[i] = s[n - Window + 1 + i].value
    <3> HIDE DEF n, s, w
    <3> SUFFICES ASSUME NEW i \in 1..Window  PROVE w[i] = s[n - Window + 1 + i].value
      OBVIOUS
    <3>1. i \in 1..(n + 1 - First(n + 1) + 1) /\ First(n + 1) + i - 1 = n - Window + 1 + i
      BY <1>1, <1>6, <2>1
    <3> QED  BY <1>4, <3>1
  <2> HIDE DEF n, s, v, w, kept
  <2>5. kept \in Seq(Value) /\ Len(kept) = Window - 1
        /\ \A i \in 1..(Window - 1) : kept[i] = v[i + 1]
    BY <1>1, <1>3, <2>1, <2>2
  <2>6. Append(kept, x.value) \in Seq(Value) /\ Len(Append(kept, x.value)) = Window
        /\ Append(kept, x.value)[Window] = x.value
        /\ \A i \in 1..(Window - 1) : Append(kept, x.value)[i] = kept[i]
    BY <1>1, <2>5
  <2>7. w[Window] = x.value
    BY <1>1, <2>4
  <2>8. ASSUME NEW i \in 1..(Window - 1)  PROVE Append(kept, x.value)[i] = w[i]
    <3>1. i + 1 \in 1..Window /\ i \in 1..Window /\ n - Window + 1 + i \in 1..n
          /\ n - Window + (i + 1) = n - Window + 1 + i
      BY <1>1, <1>6
    <3>2. kept[i] = r[n - Window + 1 + i].value
      BY <2>3, <2>5, <3>1
    <3>3. w[i] = r[n - Window + 1 + i].value
      BY <1>1, <2>4, <3>1
    <3> QED  BY <2>6, <3>2, <3>3
  <2>9. \A i \in 1..Window : Append(kept, x.value)[i] = w[i]
    BY <1>1, <2>6, <2>7, <2>8
  <2> QED  BY <1>4, <2>1, <2>6, <2>9, SeqEqual
<1> HIDE DEF w, kept
<1>7. Append(kept, x.value) = w
  BY <1>1, <1>5, <1>6
<1> QED  BY <1>2, <1>7 DEF w, kept

\* What a report of a temperature does to what the processors keep.
LEMMA LearnProcessor ==
  ASSUME Window > 1, Kinds, NEW id \in Devices, ProcessorInv(id), Learn(id)
  PROVE  /\ ProcessorInv(id)'
         /\ "temperature" \in Names(id) /\ Head(reports[id]) # known[id] =>
              \E k \in DOMAIN readings'[id] :
                /\ processor'[id].last = Recent(readings'[id], k)
                /\ readings'[id][k].time > now - Period \/ k = Len(readings'[id])
<1> DEFINE value == Head(reports[id])["temperature"]
           reading == [time |-> now, value |-> value]
           new == Head(reports[id]) # known[id] /\ "temperature" \in Names(id)
           r == readings[id]
           s == Append(r, reading)
           p == processor[id]
           v == Append(Kept(p.values), value)
           n == Len(r)
<1>1. MapDomains /\ DeviceKinds(id) /\ now \in Nat
  BY DEF Kinds
<1>2. IF new
      THEN value \in Value /\ processor'[id] = Processed(p, value) /\ readings'[id] = s
      ELSE UNCHANGED <<processor[id], readings[id]>>
  BY Learning
<1>3. r \in Seq(Reading) /\ p \in Processor /\ p.time \in Nat
  BY <1>1 DEF DeviceKinds, Processor
<1>4. CASE ~new
  BY <1>2, <1>4, SameProcessor
<1>5. CASE new
  <2>1. value \in Value /\ processor'[id] = Processed(p, value) /\ readings'[id] = s
    BY <1>2, <1>5
  <2>2. reading \in Reading /\ reading.value = value /\ reading.time = now
    BY <1>1, <2>1 DEF Reading
  <2>3. /\ p.values = Recent(r, n)
        /\ p.last # <<>> =>
             \E k \in DOMAIN r : p.last = Recent(r, k) /\ p.time = r[k].time
    BY DEF ProcessorInv
  <2> HIDE DEF value, reading, r, p
  <2>4. v = Recent(s, n + 1) /\ \A k \in 1..n : Recent(s, k) = Recent(r, k)
    BY <1>3, <2>2, <2>3, Windows
  <2>5. /\ Len(s) = n + 1 /\ n \in Nat /\ DOMAIN r = 1..n /\ DOMAIN s = 1..(n + 1)
        /\ s[n + 1] = reading /\ \A k \in 1..n : s[k] = r[k]
    BY <1>3, <2>2
  <2>6. \/ /\ p.last = <<>> \/ now >= p.time + Period
           /\ Processed(p, value) = [values |-> v, last |-> v, time |-> now]
        \/ /\ p.last # <<>> /\ ~(now >= p.time + Period)
           /\ Processed(p, value) = [p EXCEPT !.values = v]
    BY DEF Processed
  <2> HIDE DEF v, n, s
  <2> DEFINE q == processor'[id]
  <2>7. CASE q = [values |-> v, last |-> v, time |-> now]
    <3>1. q.values = v /\ q.last = v /\ q.time = now
      BY <2>7
    <3>2. n + 1 \in DOMAIN s /\ s[n + 1].time = now /\ n + 1 = Len(s)
      BY <2>2, <2>5
    <3> HIDE DEF q
    <3>3. q.values = Recent(s, Len(s))
          /\ \E k \in DOMAIN s : q.last = Recent(s, k) /\ q.time = s[k].time /\ k = Len(s)
      BY <2>4, <3>1, <3>2
    <3> QED  BY <2>1, <3>3 DEF ProcessorInv, q
  <2>8. CASE /\ p.last # <<>> /\ ~(now >= p.time + Period)
             /\ q = [p EXCEPT !.values = v]
    <3>1. q.values = v /\ q.last = p.last /\ q.time = p.time
      BY <1>3, <2>8 DEF Processor
    <3>2. PICK k \in 1..n : p.last = Recent(r, k) /\ p.time = r[k].time
      BY <2>3, <2>5, <2>8
    <3>3. k \in DOMAIN s /\ p.last = Recent(s, k) /\ p.time = s[k].time
      BY <2>4, <2>5, <3>2
    <3>4. s[k].time > now - Period
      BY <1>1, <1>3, <2>8, <3>3, ProcessorAssumption
    <3> HIDE DEF q
    <3>5. q.values = Recent(s, Len(s))
          /\ \E i \in DOMAIN s : q.last = Recent(s, i) /\ q.time = s[i].time
                                 /\ s[i].time > now - Period
      BY <2>4, <2>5, <3>1, <3>3, <3>4
    <3> QED  BY <2>1, <3>5 DEF ProcessorInv, q
  <2> QED  BY <2>1, <2>6, <2>7, <2>8
<1> QED  BY <1>4, <1>5

LEMMA ProcessorStep ==
  ASSUME Window > 1, Kinds, \A id \in Devices : ProcessorInv(id), [Next]_vars
  PROVE  (\A id \in Devices : ProcessorInv(id))'
<1>1. ASSUME NEW id \in Devices, DeviceStep(id)  PROVE \A j \in Devices' : ProcessorInv(j)'
  <2>1. included' = included /\ \A j \in Devices : j # id => Of(j)' = Of(j)
    BY <1>1, Alone DEF Kinds
  <2>2. ProcessorInv(id)'
    <3>1. CASE DeviceStep(id) /\ ~Learn(id)
      <4>1. UNCHANGED <<processor, readings>>
        BY <3>1 DEF DeviceStep, Announce, AbandonAnnouncement, Forget, Store, CutShort, Stored,
      Cancel, Send, Check, Respond,
          Apply, Change, Publish, DropState, world, driver, history
      <4> QED  BY <4>1, SameProcessor
    <3> QED  BY <1>1, <3>1, LearnProcessor
  <2>3. \A j \in Devices : j # id => ProcessorInv(j)'
    BY <2>1, Same
  <2> QED  BY <2>1, <2>2, <2>3, SameNames
<1>2. CASE Press \/ Stray
  <2>1. UNCHANGED <<included, processor, readings>>
    BY <1>2, Receiving DEF history
  <2> QED  BY <2>1, SameProcessor, SameNames
<1>3. CASE Tick \/ UNCHANGED vars
  <2>1. UNCHANGED <<included, processor, readings>>
    BY <1>3 DEF Tick, vars, driver, world, history
  <2> QED  BY <2>1, SameProcessor, SameNames
<1>4. CASE Restart
  <2>1. included' = included
        /\ \A id \in Devices : processor'[id] = NoProcessor /\ readings'[id] = <<>>
    BY <1>4 DEF Restart
  <2>2. ASSUME NEW id \in Devices  PROVE ProcessorInv(id)'
    BY <2>1, NoReadings DEF ProcessorInv
  <2> QED  BY <2>1, <2>2, SameNames
<1> QED  BY <1>1, <1>2, <1>3, <1>4 DEF Next, DeviceStep

\* The window of TemperatureIsRecent.
LEMMA WindowOf ==
  ASSUME Window > 1, NEW r \in Seq(Reading), NEW k \in DOMAIN r
  PROVE  LET window == SubSeq(r, First(k), k)
         IN  [i \in DOMAIN window |-> window[i].value] = Recent(r, k)
<1> DEFINE f == First(k)
           window == SubSeq(r, f, k)
           l == k - f + 1
<1>1. k \in 1..Len(r) /\ Len(r) \in Nat /\ f \in Nat \ {0} /\ f <= k
  BY ProcessorAssumption DEF First
<1> HIDE DEF f
<1>2. \A i \in f..k : r[i] \in Reading
  BY <1>1
<1>3. window \in Seq(Reading) /\ Len(window) = l /\ \A i \in 1..l : window[i] = r[f + i - 1]
  BY <1>1, <1>2, SubSeqProperties
<1> HIDE DEF window, l
<1>4. DOMAIN window = 1..l
  BY <1>3
<1>5. [i \in DOMAIN window |-> window[i].value] = [i \in 1..l |-> r[f + i - 1].value]
  BY <1>3, <1>4
<1> QED  BY <1>5 DEF Recent, f, l, window

\* A state is published when a report changes what is known.
LEMMA PublishingTemperature ==
  ASSUME Kinds, [Next]_vars, NEW id \in Devices,
         Len(states'[id]) > Len(states[id]), "temperature" \in Names(id)
  PROVE  /\ Learn(id) /\ Head(reports[id]) # known[id]
         /\ Last(states'[id])["temperature"] = Mean(processor'[id].last)
<1>1. included \in Configs /\ MapDomains /\ DeviceKinds(id) /\ IsQueue(states[id])
      /\ Len(states[id]) \in Nat
  BY Queued DEF Kinds, DeviceKinds
<1>2. Len(<<>>) = 0
  OBVIOUS
<1>3. states'[id] # states[id] /\ states'[id] # <<>>
  BY <1>1, <1>2
<1>4. \A i \in InPool(id) : ~(Len(Remaining(states[id], i)) > Len(states[id]))
  BY <1>1, Removing DEF InPool
<1>5. Learn(id)
  <2>1. ~Press /\ ~Stray
    BY <1>3, Receiving
  <2>2. ~Tick /\ ~UNCHANGED vars
    BY <1>3 DEF Tick, vars, driver
  <2>3. ~Restart
    BY <1>3 DEF Restart
  <2>4. PICK j \in Devices : DeviceStep(j)
    BY <2>1, <2>2, <2>3 DEF Next, DeviceStep
  <2>5. j = id
    BY <1>1, <1>3, <2>4, Alone DEF Of, Kinds
  <2>6. CASE DeviceStep(id) /\ ~Learn(id) /\ ~Publish(id) /\ ~DropState(id)
    BY <1>3, <2>6 DEF DeviceStep, Announce, AbandonAnnouncement, Forget, Store, CutShort, Stored,
      Cancel, Send, Check,
      Respond, Apply, Change, driver
  <2>7. CASE Publish(id) \/ DropState(id)
    <3>1. \E i \in InPool(id) : states'[id] = Remaining(states[id], i)
      BY <2>7, Publishing, DroppingState
    <3> QED  BY <1>4, <3>1
  <2> QED  BY <2>4, <2>5, <2>6, <2>7
<1> DEFINE values == Head(reports[id])
           state == FromTuyaPayload(Model[id], included[id], values, Mean(processor'[id].last))
<1>6. values # known[id] /\ values \in Complete(PointsOfDevice(id))
      /\ states'[id] = Append(states[id], state)
  BY <1>3, <1>5, Learning
<1>7. state["temperature"] = Mean(processor'[id].last)
  <2>1. "temperature" \in Reported(Model[id], included[id], values)
    BY <1>1, <1>6, Conversion
  <2>2. Components(Model[id])["temperature"] = "sensor"
    <3>1. Model[id] \in {AC, Fan} /\ "temperature" \in DOMAIN Components(Model[id])
      BY <1>1, Configured
    <3>2. "temperature" \notin DOMAIN FanComponents /\ AirtonComponents.temperature = "sensor"
      BY DEF FanComponents, AirtonComponents
    <3> QED  BY <3>1, <3>2 DEF Components
  <2> HIDE DEF values
  <2>3. ASSUME NEW t  PROVE FromTuyaPayload(Model[id], included[id], values, t)["temperature"] = t
    BY <2>1, <2>2 DEF FromTuyaPayload
  <2> QED  BY <2>3
<1> HIDE DEF state
<1>8. Last(states'[id]) = state
  BY <1>1, <1>6, Queued
<1> QED  BY <1>5, <1>6, <1>7, <1>8

(* TemperatureIsRecent, for a window of more than one value: the processors *)
(* keep the last values that were reported, and debounce gives those of an  *)
(* instant of the last period (device/value_processors.py).                 *)
THEOREM TemperatureLags == ASSUME Window > 1  PROVE Spec => TemperatureIsRecent
<1> DEFINE Inv == Kinds /\ \A id \in Devices : ProcessorInv(id)
           Recently(id) ==
             Len(states'[id]) > Len(states[id]) /\ "temperature" \in Names(id) =>
               \E k \in DOMAIN readings'[id] :
                 LET first == IF k < Window THEN 1 ELSE k - Window + 1
                     window == SubSeq(readings'[id], first, k)
                 IN  /\ readings'[id][k].time > now - Period \/ k = Len(readings'[id])
                     /\ Last(states'[id])["temperature"]
                          = Mean([i \in DOMAIN window |-> window[i].value])
<1>1. Init => Inv
  <2> SUFFICES ASSUME Init, NEW id \in Devices  PROVE ProcessorInv(id)
    BY InitKinds
  <2>1. processor[id] = NoProcessor /\ readings[id] = <<>>
    BY DEF Init
  <2> QED  BY <2>1, NoReadings DEF ProcessorInv
<1>2. Inv /\ [Next]_vars => Inv'
  BY KindsStep, ProcessorStep
<1>3. Inv /\ [Next]_vars => \A id \in Devices : Recently(id)
  <2> SUFFICES ASSUME Inv, [Next]_vars, NEW id \in Devices,
                      Len(states'[id]) > Len(states[id]), "temperature" \in Names(id)
               PROVE  \E k \in DOMAIN readings'[id] :
                 LET window == SubSeq(readings'[id], First(k), k)
                 IN  /\ readings'[id][k].time > now - Period \/ k = Len(readings'[id])
                     /\ Last(states'[id])["temperature"]
                          = Mean([i \in DOMAIN window |-> window[i].value])
    BY DEF First
  <2>1. /\ Learn(id) /\ Head(reports[id]) # known[id]
        /\ Last(states'[id])["temperature"] = Mean(processor'[id].last)
    BY PublishingTemperature
  <2>2. PICK k \in DOMAIN readings'[id] :
          /\ processor'[id].last = Recent(readings'[id], k)
          /\ readings'[id][k].time > now - Period \/ k = Len(readings'[id])
    BY <2>1, LearnProcessor
  <2>3. readings'[id] \in Seq(Reading)
    BY <2>1, StateKinds DEF DeviceKinds
  <2> DEFINE window == SubSeq(readings'[id], First(k), k)
  <2>4. [i \in DOMAIN window |-> window[i].value] = Recent(readings'[id], k)
    BY <2>3, WindowOf
  <2> QED  BY <2>1, <2>2, <2>4
<1>4. Inv /\ [Next]_vars => [\A id \in Devices : Recently(id)]_vars
  BY <1>3
<1> QED  BY <1>1, <1>2, <1>4, PTL DEF Spec, TemperatureIsRecent

-----------------------------------------------------------------------------
(* What is offered is understood.                                           *)

\* The names of an enumeration stand for different values.
LEMMA OptionsDiffer ==
  ASSUME NEW model \in {AC, Fan}, NEW c \in DOMAIN Components(model),
         Components(model)[c] = "select"
  PROVE  \A n, k \in DOMAIN Options(model)[c] :
           Options(model)[c][n] = Options(model)[c][k] => n = k
<1>1. CASE model = AC
  <2>1. c \in {"mode", "fan"}
    BY <1>1 DEF Components, AirtonComponents
  <2>2. CASE c = "mode"
    BY <1>1, <2>2 DEF Options, AirtonOptions
  <2>3. CASE c = "fan"
    BY <1>1, <2>3 DEF Options, AirtonOptions
  <2> QED  BY <2>1, <2>2, <2>3
<1>2. CASE model # AC
  <2>1. c \in {"speed", "direction", "mode"}
    BY <1>2 DEF Components, FanComponents
  <2>2. CASE c = "speed"
    BY <1>2, <2>2 DEF Options, FanOptions
  <2>3. CASE c = "direction"
    BY <1>2, <2>3 DEF Options, FanOptions
  <2>4. CASE c = "mode"
    BY <1>2, <2>4 DEF Options, FanOptions
  <2> QED  BY <2>1, <2>2, <2>3, <2>4
<1> QED  BY <1>1, <1>2

\* What the kinds of components are.
LEMMA ComponentKinds ==
  ASSUME NEW model \in {AC, Fan}, NEW c \in DOMAIN Components(model)
  PROVE  /\ Components(model)[c] \in {"switch", "select", "climate", "sensor"}
         /\ Components(model)[c] = "sensor" <=> c = "temperature"
         /\ Components(model)[c] = "climate" <=> c = "set_point"
         /\ c = "swing" => Components(model)[c] = "switch"
         /\ c # "swing_direction"
<1>1. CASE model = AC
  BY <1>1 DEF Components, AirtonComponents
<1>2. CASE model # AC
  BY <1>2 DEF Components, FanComponents
<1> QED  BY <1>1, <1>2

\* A degree is rounded to itself, and those from 16 to 31 are not clamped.
LEMMA DegreesKept ==
  ASSUME NEW degrees \in 16..31  PROVE SetPoint(Number(10 * degrees)) = Number(10 * degrees)
<1>1. (10 * degrees) \div 10 = degrees /\ (10 * degrees) % 10 = 0
  OBVIOUS
<1>2. RoundedDiv(10 * degrees, 10) = degrees
  BY <1>1 DEF RoundedDiv
<1>3. Number(10 * degrees).tenths = 10 * degrees /\ ~IsBoolean(Number(10 * degrees))
  BY DEF Number, IsBoolean
<1>4. Rounded(Number(10 * degrees)) = degrees
  BY <1>2, <1>3 DEF Rounded
<1> QED  BY <1>4 DEF SetPoint

\* A boolean is its own truth value.
LEMMA TruthOf ==
  ASSUME NEW v \in {On, Off}
  PROVE  /\ Truthy(v) <=> v = On
         /\ (IF Truthy(v) THEN On ELSE Off) = v
<1>1. On # Off /\ On # Number(0) /\ On # Word("")
  BY DEF On, Off, Number, Word
<1> QED  BY <1>1 DEF Truthy

\* The value of a command comes back.
LEMMA RoundTrip ==
  ASSUME included \in Configs, NEW id \in Devices, NEW c \in Names(id),
         Components(Model[id])[c] # "sensor", NEW v \in Offers(id, c)
  PROVE  LET values == ToTuyaPayload(Model[id], included[id], c, v)
         IN  /\ ~Inconvertible(Model[id], included[id], c, v)
             /\ ~Unknown(Model[id], included[id], values)
             /\ FromTuyaPayload(Model[id], included[id], values, Nothing) = [x \in {c} |-> v]
<1> DEFINE m == Model[id]
           kind == Components(m)[c]
           values == ToTuyaPayload(m, included[id], c, v)
           payload == Converted(m, c, v)
<1>1. /\ m \in {AC, Fan} /\ c \in DOMAIN Components(m) /\ c \in included[id] /\ id \in Device
      /\ included[id] \subseteq DataPoint
  BY Configured
<1>2. Commandable(m, included[id], c) /\ Commandable(m, {c}, c)
  BY <1>1 DEF Commandable
<1>3. values = [d \in DataPoint |-> IF d \in DOMAIN payload THEN payload[d] ELSE Absent]
      /\ ToTuyaPayload(m, {c}, c, v) = values
  BY <1>2 DEF ToTuyaPayload
<1>4. \A d \in PointsOf(c) : d \in DataPoint /\ values[d] # Absent
  <2>1. PointsOf(c) \subseteq DataPoint
    BY <1>1, DataPointAssumption DEF PointsOfDevice, PointsOfAll
  <2>2. \A d \in PointsOf(c) : ToTuyaPayload(m, {c}, c, v)[d] \in Value
    BY <1>1, OffersAssumption
  <2> HIDE DEF values
  <2> QED  BY <1>3, <2>1, <2>2, AbsentAssumption
<1>5. /\ kind \in {"switch", "select", "climate"}
      /\ kind = "climate" <=> c = "set_point"
      /\ c = "swing" => kind = "switch"
      /\ c # "temperature"
  BY <1>1, ComponentKinds
<1>6. DOMAIN payload = PointsOf(c)
  BY <1>5 DEF Converted, Swing, PointsOf
<1>7. Keys(values) = PointsOf(c) /\ \A d \in PointsOf(c) : values[d] = payload[d]
  <2> HIDE DEF payload, values
  <2> QED  BY <1>3, <1>4, <1>6 DEF Keys
<1>8. Reported(m, included[id], values) = {c}
  <2>1. \A x \in DOMAIN Components(m) : PointsOf(x) \subseteq PointsOf(c) => x = c
    BY <1>1, ComponentKinds DEF PointsOf
  <2> HIDE DEF values
  <2> QED  BY <1>1, <1>7, <2>1 DEF Reported
<1> HIDE DEF values
<1>9. CASE c = "swing"
  <2>1. kind = "switch" /\ v \in {On, Off}
    BY <1>5, <1>9 DEF Offers
  <2>2. values["swing"] = (IF v = On THEN Word("un_down") ELSE Word("off"))
        /\ values["swing_direction"] = (IF v = On THEN Word("15") ELSE Word("off"))
    <3>1. payload = Swing(v)
      BY <1>9, <2>1 DEF Converted
    <3>2. "swing" \in PointsOf(c) /\ "swing_direction" \in PointsOf(c)
      BY <1>9 DEF PointsOf
    <3>3. Truthy(v) <=> v = On
      BY <2>1, TruthOf
    <3> HIDE DEF payload
    <3> QED  BY <1>7, <3>1, <3>2, <3>3 DEF Swing
  <2>3. Word("un_down") # Word("off")
    BY DEF Word
  <2>4. v = (IF values["swing"] = Word("un_down") /\ values["swing_direction"] = Word("15")
             THEN On ELSE Off)
    BY <2>1, <2>2, <2>3
  <2>5. ~Inconvertible(m, included[id], c, v) /\ ~Unknown(m, included[id], values)
    BY <1>8, <2>1 DEF Inconvertible, Unknown
  <2>6. FromTuyaPayload(m, included[id], values, Nothing) = [x \in {c} |-> v]
    BY <1>8, <1>9, <2>1, <2>4 DEF FromTuyaPayload
  <2> QED  BY <2>5, <2>6 DEF values
<1>10. CASE kind = "switch" /\ c # "swing"
  <2>1. values[c] = v
    BY <1>7, <1>10 DEF Converted, PointsOf
  <2>2. ~Inconvertible(m, included[id], c, v) /\ ~Unknown(m, included[id], values)
    BY <1>8, <1>10 DEF Inconvertible, Unknown
  <2>3. FromTuyaPayload(m, included[id], values, Nothing) = [x \in {c} |-> v]
    <3>1. (IF Truthy(values[c]) THEN On ELSE Off) = v
      BY <1>10, <2>1, TruthOf DEF Offers
    <3> QED  BY <1>5, <1>8, <1>10, <3>1 DEF FromTuyaPayload
  <2> QED  BY <2>2, <2>3 DEF values
<1>11. CASE kind = "climate"
  <2>1. PICK degrees \in 16..31 : v = Number(10 * degrees)
    BY <1>11 DEF Offers
  <2>2. values[c] = v
    <3>1. payload[c] = SetPoint(v)
      BY <1>5, <1>11 DEF Converted
    <3> QED  BY <1>5, <1>7, <1>11, <2>1, <3>1, DegreesKept DEF PointsOf
  <2>3. ~Inconvertible(m, included[id], c, v) /\ ~Unknown(m, included[id], values)
    <3>1. IsNumber(v)
      BY <2>1 DEF IsNumber, Number
    <3> QED  BY <1>8, <1>11, <3>1 DEF Inconvertible, Unknown
  <2>4. FromTuyaPayload(m, included[id], values, Nothing) = [x \in {c} |-> v]
    BY <1>5, <1>8, <1>11, <2>2 DEF FromTuyaPayload
  <2> QED  BY <2>3, <2>4 DEF values
<1>12. CASE kind = "select"
  <2>1. PICK n \in DOMAIN Options(m)[c] : v = Word(n)
    BY <1>12 DEF Offers
  <2>2. v.word = n
    BY <2>1 DEF Word
  <2>3. values[c] = Word(Options(m)[c][n])
    <3>1. payload[c] = Word(Options(m)[c][n])
      BY <1>5, <1>12, <2>2 DEF Converted
    <3> QED  BY <1>5, <1>7, <1>12, <3>1 DEF PointsOf
  <2>4. OptionNames(m, c, values[c]) = {n}
    <3>1. \A k \in DOMAIN Options(m)[c] : Options(m)[c][k] = Options(m)[c][n] => k = n
      BY <1>1, <1>12, OptionsDiffer
    <3>2. \A a, b : Word(a) = Word(b) => a = b
      BY DEF Word
    <3> QED  BY <2>3, <3>1, <3>2 DEF OptionNames
  <2>5. ~Inconvertible(m, included[id], c, v) /\ ~Unknown(m, included[id], values)
    BY <1>8, <1>12, <2>1, <2>4 DEF Inconvertible, Unknown
  <2>6. FromTuyaPayload(m, included[id], values, Nothing) = [x \in {c} |-> v]
    <3>1. Word(CHOOSE k \in OptionNames(m, c, values[c]) : TRUE) = v
      BY <2>1, <2>4
    <3> QED  BY <1>5, <1>8, <1>12, <3>1 DEF FromTuyaPayload
  <2> QED  BY <2>5, <2>6 DEF values
<1> QED  BY <1>5, <1>9, <1>10, <1>11, <1>12

\* The client hears the topic of a command, and reads the device and the component
\* from it.
LEMMA TopicRead ==
  ASSUME Len(DriverPrefix) = 1, NEW id, NEW c
  PROVE  /\ Subscribed(CommandTopic(id, c)) /\ ~Ignored(CommandTopic(id, c))
         /\ CommandTopic(id, c)[3] = id /\ CommandTopic(id, c)[4] = c
<1> DEFINE a == DriverPrefix[1]
           t == CommandTopic(id, c)
           u == DriverPrefix \o <<"set">>
           S == {a, "set", id, c}
<1>1. DriverPrefix = <<a>>
  BY PrefixAssumption
<1>2. <<a>> \in Seq(S) /\ <<"set">> \in Seq(S) /\ <<"set", id, c>> \in Seq(S)
  OBVIOUS
<1>3. Len(<<a>>) = 1 /\ Len(<<"set">>) = 1 /\ Len(<<"set", id, c>>) = 3
  OBVIOUS
<1>4. t = <<a>> \o <<"set", id, c>> /\ u = <<a>> \o <<"set">>
  BY <1>1 DEF CommandTopic
<1> HIDE DEF t, u, S
<1>5. /\ t \in Seq(S) /\ Len(t) = 4
      /\ t[1] = a /\ t[2] = "set" /\ t[3] = id /\ t[4] = c
  BY <1>4, <1>2, <1>3, ConcatProperties
<1>6. u \in Seq(S) /\ Len(u) = 2 /\ u[1] = a /\ u[2] = "set"
  BY <1>4, <1>2, <1>3, ConcatProperties
<1>7. IsPrefix(u, t)
  <2>1. SubSeq(u, 1, 2) \in Seq(S) /\ Len(SubSeq(u, 1, 2)) = 2
        /\ SubSeq(u, 1, 2)[1] = u[1] /\ SubSeq(u, 1, 2)[2] = u[2]
    BY <1>6
  <2>2. SubSeq(t, 1, 2) \in Seq(S) /\ Len(SubSeq(t, 1, 2)) = 2
        /\ SubSeq(t, 1, 2)[1] = t[1] /\ SubSeq(t, 1, 2)[2] = t[2]
    BY <1>5
  <2>3. \A i \in 1..2 : SubSeq(u, 1, 2)[i] = SubSeq(t, 1, 2)[i]
    BY <1>5, <1>6, <2>1, <2>2
  <2>4. SubSeq(u, 1, 2) = SubSeq(t, 1, 2)
    BY <2>1, <2>2, <2>3, SeqEqual
  <2> QED  BY <1>5, <1>6, <2>4 DEF IsPrefix
<1>8. ~Ignored(t)
  BY <1>1, <1>5 DEF Ignored
<1> QED  BY <1>5, <1>7, <1>8 DEF Subscribed, t, u

(* OfferedIsUnderstood, for a driver_prefix of one level: the topics and    *)
(* the values that mqtt/discovery.py announces are those that              *)
(* mqtt/client.py and the conversions of contrib/ understand.               *)
THEOREM CommandsAreUnderstood ==
  ASSUME Len(DriverPrefix) = 1  PROVE Spec => OfferedIsUnderstood
<1> DEFINE Understood(m) ==
             m.command_topic # Nothing =>
               LET id == m.unique_id[1]
                   c == m.command_topic[4]
               IN  /\ Subscribed(m.command_topic) /\ ~Ignored(m.command_topic)
                   /\ m.command_topic[3] = id
                   /\ \A v \in Offers(id, m.template) :
                        LET values == ToTuyaPayload(Model[id], included[id], c, v)
                        IN  /\ ~Inconvertible(Model[id], included[id], c, v)
                            /\ ~Unknown(Model[id], included[id], values)
                            /\ FromTuyaPayload(Model[id], included[id], values, Nothing)
                                 = [x \in {m.template} |-> v]
<1>1. ASSUME Kinds, [Next]_vars, NEW m \in discovered' \ discovered  PROVE Understood(m)
  <2>1. Discoveries' /\ included' = included
    <3>1. included' = included
      BY <1>1, Alone, Receiving, RestartKinds
         DEF Next, DeviceStep, Tick, vars, Kinds
    <3> QED  BY <1>1, <3>1, KindsStep DEF Kinds
  <2>2. PICK id \in Devices : \E c \in Names(id) : m = Message(id, c)
    BY <2>1, SameNames DEF Discoveries, Message
  <2>3. PICK c \in Names(id) : m = Message(id, c)
    BY <2>2
  <2>4. /\ m.unique_id[1] = id /\ m.template = c
        /\ m.command_topic # Nothing =>
             m.command_topic = CommandTopic(id, c) /\ Components(Model[id])[c] # "sensor"
    BY <2>3 DEF Message
  <2>5. CASE m.command_topic # Nothing
    <3> DEFINE topic == CommandTopic(id, c)
    <3>1. Subscribed(topic) /\ ~Ignored(topic) /\ topic[3] = id /\ topic[4] = c
      BY TopicRead
    <3>2. \A v \in Offers(id, c) :
            LET values == ToTuyaPayload(Model[id], included[id], c, v)
            IN  /\ ~Inconvertible(Model[id], included[id], c, v)
                /\ ~Unknown(Model[id], included[id], values)
                /\ FromTuyaPayload(Model[id], included[id], values, Nothing) = [x \in {c} |-> v]
      BY <1>1, <2>4, <2>5, RoundTrip DEF Kinds
    <3> HIDE DEF topic
    <3>3. m.command_topic = topic
      BY <2>4, <2>5 DEF topic
    <3> QED  BY <2>4, <3>1, <3>2, <3>3
  <2> QED  BY <2>5
<1>2. Kinds /\ [Next]_vars => [\A m \in discovered' \ discovered : Understood(m)]_vars
  BY <1>1
<1> QED  BY <1>2, InitKinds, KindsStep, PTL DEF Spec, OfferedIsUnderstood

=============================================================================
