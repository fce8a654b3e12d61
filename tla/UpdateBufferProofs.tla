------------------------- MODULE UpdateBufferProofs -------------------------
(***************************************************************************)
(* Theorems about UpdateBuffer, for every pool, every set of commands,     *)
(* reports and rules, every number of retries, with and without debounce.  *)
(***************************************************************************)
EXTENDS UpdateBuffer, FiniteSetTheorems, TLAPS

Client == Caller \cup {Retrier}
Handle == Task \cup {Dead}

-----------------------------------------------------------------------------
(* The names of the tasks.                                                  *)

LEMMA TaskNames ==
  /\ Updater # Retrier /\ Updater # Unwinder /\ Updater # Dead
  /\ Retrier # Unwinder /\ Retrier # Dead /\ Unwinder # Dead
  /\ \A c \in Caller : c # Updater /\ c # Retrier /\ c # Unwinder /\ c # Dead
  /\ Updater \in Task /\ Retrier \in Task /\ Unwinder \in Task
  /\ Dead \notin Task
BY CallerAssumption DEF Updater, Retrier, Unwinder, Dead, Task

LEMMA TaskFinite == IsFiniteSet(Task)
<1>1. IsFiniteSet({Updater})
  BY FS_Singleton
<1>2. IsFiniteSet({Updater} \cup {Retrier})
  BY <1>1, FS_AddElement
<1>3. IsFiniteSet(({Updater} \cup {Retrier}) \cup {Unwinder})
  BY <1>2, FS_AddElement
<1>4. Task = Caller \cup (({Updater} \cup {Retrier}) \cup {Unwinder})
  BY DEF Task
<1>5. IsFiniteSet(Caller)
  BY CallerAssumption
<1> QED  BY <1>3, <1>4, <1>5, FS_Union

-----------------------------------------------------------------------------
(* The queue: what its operations do to its members and to their order.     *)

LEMMA InQueue ==
  ASSUME NEW q, NEW x
  PROVE  x \in ToSet(q) <=> \E i \in DOMAIN q : q[i] = x
BY DEF ToSet

LEMMA RunHead ==
  ASSUME NEW q \in Seq(Handle), q # <<>>, Distinct(q)
  PROVE  /\ Head(q) \in Handle /\ Tail(q) \in Seq(Handle)
         /\ Head(q) \in ToSet(q)
         /\ ToSet(Tail(q)) \subseteq ToSet(q)
         /\ Distinct(Tail(q))
         /\ Head(q) # Dead => Head(q) \notin ToSet(Tail(q))
<1>1. /\ Len(q) \in Nat /\ Len(q) > 0
      /\ Head(q) = q[1] /\ Head(q) \in Handle
      /\ Tail(q) \in Seq(Handle)
      /\ DOMAIN q = 1..Len(q)
      /\ DOMAIN Tail(q) = 1..(Len(q) - 1)
  OBVIOUS
<1>2. \A i \in DOMAIN Tail(q) : Tail(q)[i] = q[i + 1] /\ i + 1 \in DOMAIN q /\ i \in Nat
  BY <1>1
<1>3. ToSet(Tail(q)) \subseteq ToSet(q)
  BY <1>2 DEF ToSet
<1>4. Head(q) \in ToSet(q)
  BY <1>1, InQueue
<1>5. Distinct(Tail(q))
  <2> SUFFICES ASSUME NEW i \in DOMAIN Tail(q), NEW j \in DOMAIN Tail(q),
                      Tail(q)[i] = Tail(q)[j], Tail(q)[i] # Dead
               PROVE  i = j
    BY DEF Distinct
  <2>1. i + 1 = j + 1
    BY <1>2 DEF Distinct
  <2> QED  BY <1>2, <2>1
<1>6. ASSUME Head(q) # Dead, Head(q) \in ToSet(Tail(q))  PROVE FALSE
  <2>1. PICK i \in DOMAIN Tail(q) : Tail(q)[i] = Head(q)
    BY <1>6, InQueue
  <2>2. i + 1 = 1
    BY <1>1, <1>2, <1>6, <2>1 DEF Distinct
  <2> QED  BY <1>2, <2>2
<1> QED  BY <1>1, <1>3, <1>4, <1>5, <1>6

LEMMA TailOrder ==
  ASSUME NEW q \in Seq(Handle), q # <<>>, NEW S, NEW U, U \subseteq S, ~Overtakes(q, S)
  PROVE  ~Overtakes(Tail(q), U)
<1>1. /\ Len(q) \in Nat /\ Len(q) > 0
      /\ DOMAIN q = 1..Len(q)
      /\ DOMAIN Tail(q) = 1..(Len(q) - 1)
  OBVIOUS
<1>2. \A i \in DOMAIN Tail(q) : Tail(q)[i] = q[i + 1] /\ i + 1 \in DOMAIN q /\ i \in Nat
  BY <1>1
<1> QED  BY <1>2 DEF Overtakes

\* If the update task runs next, none of those in the queue precedes it.
LEMMA HeadOvertakes ==
  ASSUME NEW q \in Seq(Handle), q # <<>>, Head(q) = Updater,
         NEW x \in ToSet(q), x # Updater
  PROVE  Overtakes(q, {x})
<1>1. PICK j \in DOMAIN q : q[j] = x
  BY InQueue
<1>2. 1 \in DOMAIN q /\ q[1] = Updater /\ 1 < j
  BY <1>1
<1> QED  BY <1>1, <1>2 DEF Overtakes

LEMMA AppendQueue ==
  ASSUME NEW q \in Seq(Handle), NEW x \in Handle
  PROVE  /\ Append(q, x) \in Seq(Handle)
         /\ ToSet(Append(q, x)) = ToSet(q) \cup {x}
         /\ Distinct(q) /\ x \notin ToSet(q) => Distinct(Append(q, x))
         /\ \A S : ~Overtakes(q, S) /\ x \notin S => ~Overtakes(Append(q, x), S)
<1>1. /\ Len(q) \in Nat /\ DOMAIN q = 1..Len(q)
      /\ Append(q, x) \in Seq(Handle)
      /\ DOMAIN Append(q, x) = 1..(Len(q) + 1)
      /\ \A i \in 1..Len(q) : Append(q, x)[i] = q[i]
      /\ Append(q, x)[Len(q) + 1] = x
  OBVIOUS
<1>2. ToSet(Append(q, x)) = ToSet(q) \cup {x}
  <2>1. \A i \in DOMAIN Append(q, x) : i \in DOMAIN q \/ i = Len(q) + 1
    BY <1>1
  <2>2. DOMAIN q \subseteq DOMAIN Append(q, x) /\ Len(q) + 1 \in DOMAIN Append(q, x)
    BY <1>1
  <2>3. \A i \in DOMAIN q : Append(q, x)[i] = q[i]
    BY <1>1
  <2> DEFINE r == Append(q, x)
  <2> HIDE DEF r
  <2> QED  BY <1>1, <2>1, <2>2, <2>3 DEF ToSet, r
<1>3. ASSUME Distinct(q), x \notin ToSet(q)  PROVE Distinct(Append(q, x))
  <2>1. \A i \in 1..Len(q) : q[i] # x
    BY <1>1, <1>3, InQueue
  <2> QED  BY <1>1, <1>3, <2>1 DEF Distinct
<1>4. ASSUME NEW S, ~Overtakes(q, S), x \notin S  PROVE ~Overtakes(Append(q, x), S)
  BY <1>1, <1>4 DEF Overtakes
<1> QED  BY <1>1, <1>2, <1>3, <1>4

LEMMA WakeQueue ==
  ASSUME NEW q \in Seq(Handle), NEW S \in SUBSET Task, NEW r \in Wake(q, S)
  PROVE  /\ r \in Seq(Handle)
         /\ ToSet(q) \subseteq ToSet(r)
         /\ ToSet(r) \subseteq ToSet(q) \cup S
         /\ Distinct(q) /\ S \cap ToSet(q) = {} => Distinct(r)
         /\ \A X : /\ ~Overtakes(q, X) 
                   /\ Updater \notin S 
                   /\ S \cap X = {} \/ Updater \notin ToSet(q)
                   => ~Overtakes(r, X)
<1>1. PICK w \in SetToSeqs(S) : r = q \o w
  BY DEF Wake
<1> DEFINE n == Cardinality(S)
<1>2. n \in Nat
  BY TaskFinite, FS_Subset, FS_CardinalityType
<1>3. w \in [1..n -> S] /\ \A i, j \in 1..n : i # j => w[i] # w[j]
  BY DEF SetToSeqs
<1>4. w \in Seq(Handle)
  <2>1. w \in [1..n -> Handle]
    BY <1>3 DEF Handle
  <2> QED  BY <1>2, <2>1
<1> HIDE DEF n
<1>5. Len(w) = n
  BY <1>2, <1>3, <1>4
<1>6. /\ Len(q) \in Nat /\ DOMAIN q = 1..Len(q)
      /\ r \in Seq(Handle)
      /\ DOMAIN r = 1..(Len(q) + n)
      /\ \A i \in 1..Len(q) : r[i] = q[i]
      /\ \A i \in DOMAIN r \ (1..Len(q)) : i - Len(q) \in 1..n /\ r[i] = w[i - Len(q)]
  <2>1. Len(q) \in Nat /\ DOMAIN q = 1..Len(q)
    OBVIOUS
  <2>2. r \in Seq(Handle) /\ Len(r) = Len(q) + n
    <3>1. q \o w \in Seq(Handle)
      BY <1>4
    <3>2. Len(q \o w) = Len(q) + Len(w)
      BY <1>4
    <3> QED  BY <1>1, <1>5, <3>1, <3>2
  <2>3. DOMAIN r = 1..(Len(q) + n)
    BY <2>2
  <2>4. \A i \in 1..Len(q) : r[i] = q[i]
    BY <1>1, <1>2, <1>4, <1>5, <2>1
  <2>5. \A i \in DOMAIN r \ (1..Len(q)) : i - Len(q) \in 1..n
    BY <1>2, <2>1, <2>3
  <2>6. \A i \in DOMAIN r \ (1..Len(q)) : r[i] = w[i - Len(q)]
    BY <1>1, <1>2, <1>4, <1>5, <2>1, <2>3
  <2> QED  BY <2>1, <2>2, <2>3, <2>4, <2>5, <2>6
<1>7. \A i \in DOMAIN r \ (1..Len(q)) : r[i] \in S
  BY <1>3, <1>6
<1>8. ToSet(q) \subseteq ToSet(r)
  BY <1>2, <1>6, InQueue
<1>9. ToSet(r) \subseteq ToSet(q) \cup S
  BY <1>6, <1>7 DEF ToSet
<1>10. ASSUME Distinct(q), S \cap ToSet(q) = {}  PROVE Distinct(r)
  <2> SUFFICES ASSUME NEW i \in DOMAIN r, NEW j \in DOMAIN r, r[i] = r[j], r[i] # Dead
               PROVE  i = j
    BY DEF Distinct
  <2>0. \A k \in 1..Len(q) : q[k] \notin S
    BY <1>6, <1>10, InQueue
  <2>1. CASE i \in 1..Len(q) /\ j \in 1..Len(q)
    BY <1>6, <1>10, <2>1 DEF Distinct
  <2>2. CASE i \notin 1..Len(q) /\ j \notin 1..Len(q)
    <3>1. i - Len(q) = j - Len(q)
      BY <1>3, <1>6, <2>2
    <3> QED  BY <1>2, <1>6, <3>1
  <2>3. CASE i \in 1..Len(q) /\ j \notin 1..Len(q)
    BY <1>6, <1>7, <2>0, <2>3
  <2>4. CASE i \notin 1..Len(q) /\ j \in 1..Len(q)
    BY <1>6, <1>7, <2>0, <2>4
  <2> QED  BY <2>1, <2>2, <2>3, <2>4
<1>11. ASSUME NEW X, ~Overtakes(q, X), Updater \notin S,
              S \cap X = {} \/ Updater \notin ToSet(q)
       PROVE  ~Overtakes(r, X)
  <2> SUFFICES ASSUME NEW i \in DOMAIN r, NEW j \in DOMAIN r, i < j,
                      r[i] = Updater, r[j] \in X
               PROVE  FALSE
    BY DEF Overtakes
  <2>1. i \in 1..Len(q) /\ q[i] = Updater
    BY <1>6, <1>7, <1>11
  <2>2. Updater \in ToSet(q)
    BY <1>6, <2>1, InQueue
  <2>3. j \in 1..Len(q)
    BY <1>7, <1>11, <2>2
  <2> QED  BY <1>6, <1>11, <2>1, <2>3 DEF Overtakes
<1> QED  BY <1>6, <1>8, <1>9, <1>10, <1>11

LEMMA ReplaceQueue ==
  ASSUME NEW q \in Seq(Handle), NEW x \in Handle \ {Updater}
  PROVE  /\ Replace(q, x) \in Seq(Handle)
         /\ Updater \notin ToSet(Replace(q, x))
         /\ ToSet(Replace(q, x)) \subseteq ToSet(q) \cup {x}
         /\ Distinct(q) /\ (x = Dead \/ x \notin ToSet(q)) => Distinct(Replace(q, x))
<1> DEFINE r == Replace(q, x)
<1>1. /\ Len(q) \in Nat /\ DOMAIN q = 1..Len(q)
      /\ DOMAIN r = DOMAIN q
      /\ \A i \in DOMAIN q : q[i] \in Handle /\ r[i] = IF q[i] = Updater THEN x ELSE q[i]
  BY DEF Replace
<1>2. r \in [1..Len(q) -> Handle]
  BY <1>1 DEF Replace
<1>3. r \in Seq(Handle)
  BY <1>1, <1>2
<1> HIDE DEF r
<1>4. Updater \notin ToSet(r)
  BY <1>1, InQueue
<1>5. ToSet(r) \subseteq ToSet(q) \cup {x}
  BY <1>1, InQueue
<1>6. ASSUME Distinct(q), x = Dead \/ x \notin ToSet(q)  PROVE Distinct(r)
  <2> SUFFICES ASSUME NEW i \in DOMAIN r, NEW j \in DOMAIN r, r[i] = r[j], r[i] # Dead
               PROVE  i = j
    BY DEF Distinct
  <2>1. q[i] = q[j] /\ q[i] # Dead
    BY <1>1, <1>6, TaskNames, InQueue
  <2> QED  BY <1>1, <1>6, <2>1 DEF Distinct
<1> QED  BY <1>3, <1>4, <1>5, <1>6 DEF r

\* Without the update task in the queue, it overtakes nobody.
LEMMA NoneOvertaken ==
  ASSUME NEW q, Updater \notin ToSet(q), NEW S
  PROVE  ~Overtakes(q, S)
BY InQueue DEF Overtakes

-----------------------------------------------------------------------------
(* The types of the values and of the queue.                                *)

LEMMA ValuesTypes ==
  ASSUME NEW v \in Values, NEW s \in Values
  PROVE  /\ NoValues \in Values
         /\ Merge(s, v) \in Values
         /\ Differing(v, s) \in Values
         /\ FilterValues(Rules, v, s) \in Values
BY DEF Values, NoValues, Merge, Differing, FilterValues

TypeInv == TypeOK /\ RetryInv

LEMMA FilteredType == ASSUME TypeInv, NEW v \in Values  PROVE Filtered(v) \in Values
BY ValuesTypes DEF TypeInv, TypeOK, Filtered

LEMMA SuspendedType == \A p : Suspended(p) \in SUBSET Task
BY DEF Suspended

\* What a step that runs t starts from.
LEMMA RestType ==
  ASSUME TypeInv, ready # <<>>
  PROVE  Rest \in Seq(Handle)
BY DEF TypeInv, TypeOK, Rest, Handle

LEMMA CancelledQueueType ==
  ASSUME NEW q \in Seq(Handle)
  PROVE  CancelledQueue(q) \in Seq(Handle)
BY ReplaceQueue, AppendQueue, TaskNames DEF CancelledQueue, Handle

LEMMA DoneCallbackType ==
  ASSUME NEW q \in Seq(Handle), NEW t
  PROVE  /\ q \o DoneCallback(t) \in Seq(Handle)
         /\ q \o DoneCallback(t) = IF t = Retrier THEN Append(q, Retrier) ELSE q
<1>1. CASE t = Retrier
  <2>1. Retrier \in Handle
    BY TaskNames DEF Handle
  <2>2. q \o <<Retrier>> = Append(q, Retrier) /\ Append(q, Retrier) \in Seq(Handle)
    BY <2>1
  <2> QED  BY <1>1, <2>2 DEF DoneCallback
<1>2. CASE t # Retrier
  <2>1. q \o <<>> = q
    OBVIOUS
  <2> QED  BY <1>2, <2>1 DEF DoneCallback
<1> QED  BY <1>1, <1>2

\* Where a task may be suspended.
Place(t) ==
  IF t = Updater THEN UpdaterPlaces
  ELSE IF t = Retrier THEN RetrierPlaces
  ELSE IF t = Unwinder THEN {"idle", "unwind"}
  ELSE CallerPlaces

PlacesOK(p) ==
  /\ p \in [Task -> CallerPlaces \cup UpdaterPlaces \cup RetrierPlaces \cup {"unwind"}]
  /\ \A t \in Task : p[t] \in Place(t)

LEMMA Places ==
  TypeOK <=>
    /\ state \in Values /\ buffer \in Values /\ payload \in Values
    /\ finished \in BOOLEAN /\ closed \in BOOLEAN
    /\ waiter \in {"none", "pending", "cancelled"}
    /\ PlacesOK(pc)
    /\ ready \in Seq(Handle)
    /\ thrown \subseteq Client
    /\ command \in [Caller -> Values]
    /\ attempt \in 0..Retries
BY TaskNames DEF TypeOK, PlacesOK, Place, Task, Client, Handle

LEMMA PlaceChange ==
  ASSUME NEW p, PlacesOK(p), NEW t \in Task, NEW x \in Place(t)
  PROVE  PlacesOK([p EXCEPT ![t] = x])
BY DEF PlacesOK, Place, CallerPlaces, UpdaterPlaces, RetrierPlaces

LEMMA CancelledPlacesType ==
  ASSUME PlacesOK(pc), NEW x \in UpdaterPlaces
  PROVE  PlacesOK(CancelledPlaces(x))
BY TaskNames DEF PlacesOK, Place, CancelledPlaces, CallerPlaces, UpdaterPlaces, RetrierPlaces

-----------------------------------------------------------------------------
(* Type correctness, with the bound of the retries.                         *)

LEMMA RearmType ==
  ASSUME TypeInv, ready # <<>>, NEW t \in Client, NEW b \in Values,
         t = Retrier => attempt < Retries,
         Rearm(t, b)
  PROVE  /\ buffer' \in Values
         /\ waiter' \in {"none", "pending", "cancelled"}
         /\ PlacesOK(pc')
         /\ ready' \in Seq(Handle)
         /\ attempt' \in 0..Retries
         /\ RetryInv'
<1>0. /\ PlacesOK(pc) /\ attempt \in 0..Retries /\ Retries \in Nat /\ RetryInv
      /\ waiter \in {"none", "pending", "cancelled"}
      /\ CancelledQueue(Rest) \in Seq(Handle)
      /\ t \in Task /\ t # Updater /\ t # Unwinder
  BY Places, RestType, CancelledQueueType, TaskNames, SettingsAssumption
     DEF TypeInv, Client, Task
<1>1. CASE Restart(t, b)
  <2>1. PlacesOK(pc')
    BY <1>0, <1>1, CancelledPlacesType, PlaceChange, TaskNames
       DEF Restart, Place, UpdaterPlaces, CallerPlaces, RetrierPlaces
  <2>2. ready' \in Seq(Handle)
    BY <1>0, <1>1, AppendQueue, TaskNames DEF Restart, Handle
  <2>3. RetryInv'
    BY <1>0, <1>1, TaskNames DEF Restart, RetryInv, CancelledPlaces, PlacesOK
  <2> QED  BY <1>0, <1>1, <2>1, <2>2, <2>3 DEF Restart
<1>2. CASE RestartAndFail(t, b)
  <2>1. PlacesOK(pc')
    BY <1>0, <1>2, CancelledPlacesType, PlaceChange, TaskNames
       DEF RestartAndFail, AfterCancel, Place, UpdaterPlaces, CallerPlaces, RetrierPlaces
  <2>2. Append(CancelledQueue(Rest), Updater) \in Seq(Handle)
    BY <1>0, AppendQueue, TaskNames DEF Handle
  <2>3. ready' \in Seq(Handle)
    BY <1>2, <2>2, DoneCallbackType DEF RestartAndFail
  <2>4. attempt' \in 0..Retries /\ RetryInv'
    BY <1>0, <1>2, TaskNames
       DEF RestartAndFail, AfterCancel, AttemptAfterCancel, RetryInv, CancelledPlaces, PlacesOK
  <2> QED  BY <1>0, <1>2, <2>1, <2>3, <2>4 DEF RestartAndFail
<1>3. CASE GiveUp(t, b)
  <2>1. PlacesOK(pc')
    BY <1>0, <1>3, CancelledPlacesType, PlaceChange, TaskNames
       DEF GiveUp, AfterReturn, Place, UpdaterPlaces, CallerPlaces, RetrierPlaces
  <2>2. ready' \in Seq(Handle)
    <3>1. PICK S \in SUBSET Task : ready' \in Wake(CancelledQueue(Rest), S)
      BY <1>3, SuspendedType DEF GiveUp
    <3> QED  BY <1>0, <3>1, WakeQueue
  <2>3. attempt' \in 0..Retries /\ RetryInv'
    BY <1>0, <1>3, TaskNames
       DEF GiveUp, AfterReturn, AttemptAfterReturn, RetryInv, CancelledPlaces, PlacesOK
  <2> QED  BY <1>0, <1>3, <2>1, <2>2, <2>3 DEF GiveUp
<1> QED  BY <1>1, <1>2, <1>3 DEF Rearm

LEMMA ProceedType ==
  ASSUME TypeInv, ready # <<>>, NEW t \in Client, NEW b \in Values,
         t = Retrier => attempt < Retries,
         Proceed(t, b)
  PROVE  /\ buffer' \in Values
         /\ waiter' \in {"none", "pending", "cancelled"}
         /\ PlacesOK(pc')
         /\ ready' \in Seq(Handle)
         /\ attempt' \in 0..Retries
         /\ RetryInv'
<1>1. CASE AwaitFinished(t, b)
  <2>0. /\ PlacesOK(pc) /\ attempt \in 0..Retries /\ RetryInv
        /\ waiter \in {"none", "pending", "cancelled"}
        /\ Rest \in Seq(Handle)
        /\ t \in Task /\ t # Updater /\ t # Unwinder
    BY Places, RestType, TaskNames DEF TypeInv, Client, Task
  <2>1. PlacesOK(pc')
    BY <1>1, <2>0, PlaceChange, TaskNames
       DEF AwaitFinished, Place, CallerPlaces, RetrierPlaces
  <2>2. RetryInv'
    BY <1>1, <2>0, TaskNames DEF AwaitFinished, RetryInv, PlacesOK
  <2> QED  BY <1>1, <2>0, <2>1, <2>2 DEF AwaitFinished
<1>2. CASE finished /\ Rearm(t, b)
  BY <1>2, RearmType
<1> QED  BY <1>1, <1>2 DEF Proceed

LEMMA InitType == Init => TypeInv
<1> SUFFICES ASSUME Init PROVE TypeInv
  OBVIOUS
<1>1. NoValues \in Values
  BY DEF Values, NoValues
<1>2. PlacesOK(pc)
  BY TaskNames DEF Init, PlacesOK, Place, CallerPlaces, UpdaterPlaces, RetrierPlaces
<1>3. ready \in Seq(Handle) /\ attempt \in 0..Retries
  BY SettingsAssumption DEF Init
<1>4. RetryInv
  BY TaskNames DEF Init, RetryInv
<1> QED  BY <1>1, <1>2, <1>3, <1>4, Places DEF Init, TypeInv

\* The parts of TypeInv, to be used and to be shown.
LEMMA TypeParts ==
  TypeInv <=>
    /\ state \in Values /\ buffer \in Values /\ payload \in Values
    /\ finished \in BOOLEAN /\ closed \in BOOLEAN
    /\ waiter \in {"none", "pending", "cancelled"}
    /\ PlacesOK(pc)
    /\ ready \in Seq(Handle)
    /\ thrown \subseteq Client
    /\ command \in [Caller -> Values]
    /\ attempt \in 0..Retries
    /\ RetryInv
BY Places DEF TypeInv

LEMMA TypePartsNext ==
  ASSUME state' \in Values, buffer' \in Values, payload' \in Values,
         finished' \in BOOLEAN, closed' \in BOOLEAN,
         waiter' \in {"none", "pending", "cancelled"},
         PlacesOK(pc'),
         ready' \in Seq(Handle),
         thrown' \subseteq Client,
         command' \in [Caller -> Values],
         attempt' \in 0..Retries,
         RetryInv'
  PROVE  TypeInv'
BY TaskNames DEF TypeInv, TypeOK, PlacesOK, Place, Task, Client, Handle

LEMMA CancelType ==
  ASSUME TypeInv, NEW S \in SUBSET Client, NEW q \in Seq(Handle), Cancel(S, q)
  PROVE  /\ thrown' \subseteq Client
         /\ waiter' \in {"none", "pending", "cancelled"}
         /\ ready' \in Seq(Handle)
<1>1. Suspended("waiter") \subseteq Client
  BY TypeParts, TaskNames
     DEF Suspended, PlacesOK, Place, UpdaterPlaces, Task, Client
<1>2. PICK hit \in SUBSET Client :
        thrown' = thrown \cup hit /\ ready' \in Wake(q, hit \ Queued)
  BY <1>1 DEF Cancel
<1>3. hit \ Queued \in SUBSET Task
  BY DEF Client, Task
<1>4. ready' \in Seq(Handle)
  BY <1>2, <1>3, WakeQueue
<1> QED  BY <1>2, <1>4, TypeParts DEF Cancel

\* The steps of the commands.
LEMMA CallerType ==
  ASSUME TypeInv, NEW c \in Caller,
         AwaitState(c) \/ Store(c) \/ FailToStore(c) \/ Flush(c) \/ Submit(c) \/ Timeout(c)
  PROVE  TypeInv'
<1> USE TypeParts, TypePartsNext
<1>0. c \in Client /\ c \in Task /\ c \in Handle /\ c # Retrier /\ c # Updater /\ c # Unwinder
  BY TaskNames DEF Client, Task, Handle
<1>1. CASE AwaitState(c)
  <2>1. PlacesOK(pc') /\ RetryInv'
    BY <1>0, <1>1, PlaceChange DEF AwaitState, Place, CallerPlaces, RetryInv, PlacesOK
  <2>2. ready' \in Seq(Handle)
    BY <1>1, RestType DEF AwaitState, Runs
  <2> QED  BY <1>1, <2>1, <2>2 DEF AwaitState
<1>2. CASE Store(c)
  <2>1. Filtered(command[c]) \in Values
    BY FilteredType
  <2>2. ready # <<>> /\ Proceed(c, Filtered(command[c]))
    BY <1>2 DEF Store, Runs
  <2>3. command' \in [Caller -> Values]
    BY <1>2, ValuesTypes DEF Store
  <2> QED  BY <1>0, <1>2, <2>1, <2>2, <2>3, ProceedType DEF Store
<1>3. CASE FailToStore(c)
  <2>1. PlacesOK(pc') /\ RetryInv'
    BY <1>0, <1>3, PlaceChange DEF FailToStore, Place, CallerPlaces, RetryInv, PlacesOK
  <2>2. ready' \in Seq(Handle)
    BY <1>3, RestType DEF FailToStore, Runs
  <2>3. command' \in [Caller -> Values]
    BY <1>3, ValuesTypes DEF FailToStore
  <2> QED  BY <1>3, <2>1, <2>2, <2>3 DEF FailToStore
<1>4. CASE Flush(c)
  <2>1. ready # <<>> /\ Proceed(c, buffer)
    BY <1>4 DEF Flush, Runs
  <2> QED  BY <1>0, <1>4, <2>1, ProceedType DEF Flush
<1>5. CASE Submit(c)
  <2>1. PlacesOK(pc') /\ RetryInv'
    BY <1>0, <1>5, PlaceChange DEF Submit, Place, CallerPlaces, RetryInv, PlacesOK
  <2>2. ready' \in Seq(Handle)
    BY <1>0, <1>5, AppendQueue DEF Submit
  <2>3. command' \in [Caller -> Values]
    BY <1>5, CommandsAssumption DEF Submit
  <2> QED  BY <1>5, <2>1, <2>2, <2>3 DEF Submit
<1>6. CASE Timeout(c)
  <2>1. Cancel({c}, ready)
    BY <1>6 DEF Timeout
  <2>2. thrown' \subseteq Client /\ waiter' \in {"none", "pending", "cancelled"} /\ ready' \in Seq(Handle)
    BY <1>0, <2>1, CancelType
  <2> QED  BY <1>6, <2>2 DEF Timeout, RetryInv
<1> QED  BY <1>1, <1>2, <1>3, <1>4, <1>5, <1>6

\* The steps that commands and retries share.
LEMMA ClientType ==
  ASSUME TypeInv, NEW t \in Client, Resume(t) \/ Return(t) \/ Unwind(t)
  PROVE  TypeInv'
<1> USE TypeParts, TypePartsNext
<1>0. t \in Task /\ t \in Handle /\ t # Updater /\ t # Unwinder
  BY TaskNames DEF Client, Task, Handle
<1>1. CASE Resume(t)
  <2>1. ready # <<>> /\ Rearm(t, buffer) /\ (t = Retrier => attempt < Retries)
    BY <1>1 DEF Resume, Runs, RetryInv
  <2> QED  BY <1>1, <2>1, RearmType DEF Resume
<1>2. CASE Return(t)
  <2>1. PlacesOK(pc')
    BY <1>0, <1>2, PlaceChange
       DEF Return, AfterReturn, Place, CallerPlaces, RetrierPlaces
  <2>2. ready' \in Seq(Handle)
    BY <1>2, RestType DEF Return, Runs
  <2>3. attempt' \in 0..Retries /\ RetryInv'
    BY <1>0, <1>2, TaskNames, SettingsAssumption
       DEF Return, Runs, AfterReturn, AttemptAfterReturn, RetryInv, PlacesOK
  <2> QED  BY <1>2, <2>1, <2>2, <2>3 DEF Return
<1>3. CASE Unwind(t)
  <2>1. PlacesOK(pc')
    BY <1>0, <1>3, PlaceChange
       DEF Unwind, AfterCancel, Place, CallerPlaces, RetrierPlaces
  <2>2. ready' \in Seq(Handle)
    BY <1>3, RestType, DoneCallbackType DEF Unwind, Unwinds
  <2>3. attempt' \in 0..Retries /\ RetryInv'
    BY <1>0, <1>3, TaskNames, SettingsAssumption
       DEF Unwind, AfterCancel, AttemptAfterCancel, RetryInv, PlacesOK
  <2>4. command' \in [Caller -> Values] /\ thrown' \subseteq Client
    BY <1>3, ValuesTypes DEF Unwind
  <2> QED  BY <1>3, <2>1, <2>2, <2>3, <2>4 DEF Unwind
<1> QED  BY <1>1, <1>2, <1>3

\* The steps of the update task.
LEMMA WakeType ==
  ASSUME NEW q \in Seq(Handle), NEW S \in SUBSET Task, NEW r \in Wake(q, S)
  PROVE  r \in Seq(Handle)
BY WakeQueue

LEMMA CompleteType ==
  ASSUME TypeInv, ready # <<>>, Complete
  PROVE  TypeInv'
<1> USE TypeParts, TypePartsNext
<1>1. PlacesOK(pc')
  <2>1. PlacesOK([pc EXCEPT ![Updater] = "idle"])
    BY PlaceChange, TaskNames DEF Place, UpdaterPlaces
  <2>2. CASE StartsRetry
    BY <2>1, <2>2, PlaceChange, TaskNames DEF Complete, Place, RetrierPlaces
  <2>3. CASE ~StartsRetry
    <3>1. pc' = [pc EXCEPT ![Updater] = "idle"]
      BY <2>3, TaskNames DEF Complete, PlacesOK
    <3> QED  BY <2>1, <3>1
  <2> QED  BY <2>2, <2>3
<1>2. ready' \in Seq(Handle)
  <2>1. PICK S \in SUBSET Task : \E queue \in Wake(Rest, S) :
          ready' \in Wake(IF StartsRetry THEN Append(queue, Retrier) ELSE queue,
                         Suspended("finished"))
    BY SuspendedType DEF Complete
  <2>2. PICK queue \in Wake(Rest, S) :
          ready' \in Wake(IF StartsRetry THEN Append(queue, Retrier) ELSE queue,
                         Suspended("finished"))
    BY <2>1
  <2>3. queue \in Seq(Handle)
    BY <2>2, RestType, WakeType
  <2>4. Append(queue, Retrier) \in Seq(Handle)
    BY <2>3, AppendQueue, TaskNames DEF Handle
  <2> QED  BY <2>2, <2>3, <2>4, WakeType, SuspendedType
<1>3. RetryInv'
  BY TaskNames DEF Complete, RetryInv, PlacesOK
<1>4. payload' \in Values
  BY ValuesTypes DEF Complete
<1> QED  BY <1>1, <1>2, <1>3, <1>4 DEF Complete

LEMMA UpdaterType ==
  ASSUME TypeInv,
         \/ Delay \/ NothingToSend \/ Send \/ Sent \/ SendAtOnce \/ UnwindSend \/ Bury
         \/ DelayElapses \/ SendReturns
  PROVE  TypeInv'
<1> USE TypeParts, TypePartsNext
<1>0. Updater \in Task /\ Updater \in Handle /\ Updater # Retrier /\ Updater # Unwinder
  BY TaskNames DEF Handle
<1>1. CASE Delay
  <2>1. PlacesOK(pc') /\ RetryInv'
    BY <1>0, <1>1, PlaceChange DEF Delay, Place, UpdaterPlaces, RetryInv, PlacesOK
  <2> QED  BY <1>1, <2>1, RestType DEF Delay, Runs
<1>2. CASE NothingToSend
  <2>1. PlacesOK(pc') /\ RetryInv'
    BY <1>0, <1>2, PlaceChange DEF NothingToSend, Place, UpdaterPlaces, RetryInv, PlacesOK
  <2> QED  BY <1>2, <2>1, RestType DEF NothingToSend, SendsNow, Runs
<1>3. CASE Send
  <2>1. PlacesOK(pc') /\ RetryInv'
    BY <1>0, <1>3, PlaceChange DEF Send, Place, UpdaterPlaces, RetryInv, PlacesOK
  <2> QED  BY <1>3, <2>1, RestType DEF Send, SendsNow, Runs
<1>4. CASE Sent
  BY <1>4, CompleteType DEF Sent, Runs
<1>5. CASE SendAtOnce
  BY <1>5, CompleteType DEF SendAtOnce, SendsNow, Runs
<1>6. CASE UnwindSend
  <2>1. PlacesOK(pc')
    <3>1. ASSUME NEW t \in Task  PROVE pc'[t] \in Place(t)
      <4>1. pc[t] \in Place(t)
        BY DEF PlacesOK
      <4>2. t \in Suspended("waiter") => t \in Client
        BY <4>1, TaskNames DEF Suspended, Place, UpdaterPlaces, Task, Client
      <4> QED  BY <1>6, <4>1, <4>2, TaskNames
               DEF UnwindSend, Place, Client, CallerPlaces, RetrierPlaces
    <3> QED  BY <1>6, <3>1, TaskNames
             DEF UnwindSend, PlacesOK, Place, CallerPlaces, UpdaterPlaces, RetrierPlaces
  <2>2. RetryInv'
    BY <1>6, TaskNames DEF UnwindSend, RetryInv, PlacesOK
  <2>3. ready' \in Seq(Handle)
    BY <1>6, RestType, WakeType, SuspendedType DEF UnwindSend, Runs
  <2>4. payload' \in Values
    BY <1>6, ValuesTypes DEF UnwindSend
  <2> QED  BY <1>6, <2>1, <2>2, <2>3, <2>4 DEF UnwindSend
<1>7. CASE Bury
  BY <1>7, RestType DEF Bury, RetryInv
<1>8. CASE DelayElapses
  BY <1>0, <1>8, AppendQueue DEF DelayElapses, RetryInv
<1>9. CASE SendReturns
  BY <1>0, <1>9, AppendQueue DEF SendReturns, RetryInv
<1> QED  BY <1>1, <1>2, <1>3, <1>4, <1>5, <1>6, <1>7, <1>8, <1>9

\* The steps of the retry task.
LEMMA RetrierType ==
  ASSUME TypeInv,
         StartRetry \/ StopRetrying \/ FailToCheck \/ Retry \/ Cleanup \/ BackoffElapses
  PROVE  TypeInv'
<1> USE TypeParts, TypePartsNext
<1>0. Retrier \in Task /\ Retrier \in Handle /\ Retrier \in Client
  BY TaskNames DEF Handle, Client
<1>1. CASE StartRetry
  <2>1. PlacesOK(pc') /\ RetryInv'
    BY <1>0, <1>1, PlaceChange, TaskNames
       DEF StartRetry, Place, RetrierPlaces, RetryInv, PlacesOK
  <2> QED  BY <1>1, <2>1, RestType DEF StartRetry, Runs
<1>2. ASSUME EndRetry, ready # <<>>
      PROVE  /\ PlacesOK(pc') /\ RetryInv' /\ ready' \in Seq(Handle)
             /\ attempt' \in 0..Retries /\ waiter' = waiter
  <2>1. PlacesOK(pc') /\ RetryInv'
    BY <1>0, <1>2, PlaceChange, TaskNames
       DEF EndRetry, Place, RetrierPlaces, RetryInv, PlacesOK
  <2> QED  BY <1>0, <1>2, <2>1, RestType, AppendQueue, SettingsAssumption DEF EndRetry
<1>3. CASE StopRetrying
  <2>1. buffer' \in Values
    BY <1>3, ValuesTypes DEF StopRetrying
  <2> QED  BY <1>2, <1>3, <2>1 DEF StopRetrying, Runs
<1>4. CASE FailToCheck
  BY <1>2, <1>4 DEF FailToCheck, Runs
<1>5. CASE Retry
  <2>1. Differing(buffer, state) \in Values /\ attempt < Retries /\ ready # <<>>
    BY <1>5, ValuesTypes, SettingsAssumption DEF Retry, Runs
  <2> QED  BY <1>0, <1>5, <2>1, ProceedType DEF Retry
<1>6. CASE Cleanup
  <2>1. PlacesOK(pc') /\ RetryInv'
    BY <1>0, <1>6, PlaceChange, TaskNames
       DEF Cleanup, Place, RetrierPlaces, RetryInv, PlacesOK
  <2> QED  BY <1>6, <2>1, RestType DEF Cleanup, Runs
<1>7. CASE BackoffElapses
  BY <1>0, <1>7, AppendQueue DEF BackoffElapses, RetryInv
<1> QED  BY <1>1, <1>3, <1>4, <1>5, <1>6, <1>7

\* The device's reports and close().
LEMMA OutsideType ==
  ASSUME TypeInv, Report \/ Close
  PROVE  TypeInv'
<1> USE TypeParts, TypePartsNext
<1>1. CASE Report
  <2>1. state' \in Values /\ ready' \in Seq(Handle)
    BY <1>1, ReportsAssumption, WakeType, SuspendedType DEF Report
  <2> QED  BY <1>1, <2>1 DEF Report, RetryInv
<1>2. CASE Close
  <2>1. PlacesOK(pc') /\ RetryInv'
    BY <1>2, CancelledPlacesType, TaskNames
       DEF Close, UpdaterPlaces, RetryInv, CancelledPlaces, PlacesOK
  <2>2. PICK S \in SUBSET Client : Cancel(S, CancelledQueue(ready))
    <3>1. {} \in SUBSET Client /\ {Retrier} \in SUBSET Client
      BY DEF Client
    <3> QED  BY <1>2, <3>1 DEF Close
  <2>3. CancelledQueue(ready) \in Seq(Handle)
    BY CancelledQueueType
  <2> QED  BY <1>2, <2>1, <2>2, <2>3, CancelType DEF Close
<1> QED  BY <1>1, <1>2

LEMMA StepType == TypeInv /\ [Next]_vars => TypeInv'
<1> SUFFICES ASSUME TypeInv, [Next]_vars PROVE TypeInv'
  OBVIOUS
<1>1. ASSUME NEW c \in Caller,
             AwaitState(c) \/ Store(c) \/ FailToStore(c) \/ Flush(c) \/ Submit(c) \/ Timeout(c)
      PROVE  TypeInv'
  BY <1>1, CallerType
<1>2. ASSUME NEW t \in Caller \cup {Retrier}, Resume(t) \/ Return(t) \/ Unwind(t)
      PROVE  TypeInv'
  BY <1>2, ClientType DEF Client
<1>3. ASSUME \/ Delay \/ NothingToSend \/ Send \/ Sent \/ SendAtOnce \/ UnwindSend
             \/ Bury \/ DelayElapses \/ SendReturns
      PROVE  TypeInv'
  BY <1>3, UpdaterType
<1>4. ASSUME StartRetry \/ StopRetrying \/ FailToCheck \/ Retry \/ Cleanup \/ BackoffElapses
      PROVE  TypeInv'
  BY <1>4, RetrierType
<1>5. ASSUME Report \/ Close PROVE TypeInv'
  BY <1>5, OutsideType
<1>6. CASE UNCHANGED vars
  BY <1>6, TypeParts, TypePartsNext DEF vars, RetryInv
<1> QED  BY <1>1, <1>2, <1>3, <1>4, <1>5, <1>6 DEF Next, LoopStep

LEMMA TypeInvariant == Spec => []TypeInv
<1> QED  BY InitType, StepType, PTL DEF Spec

(* Whatever the pool, the commands, the reports and the settings, the update *)
(* buffer keeps its types; the retries never exceed their number.            *)
THEOREM TypeCorrect == Spec => []TypeOK
<1>1. TypeInv => TypeOK
  BY DEF TypeInv
<1> QED  BY <1>1, TypeInvariant, PTL

-----------------------------------------------------------------------------
(* The order of the queue and the lock that `finished` is.                  *)

LEMMA Subsets ==
  ASSUME NEW q, NEW S, NEW U, U \subseteq S, ~Overtakes(q, S)
  PROVE  ~Overtakes(q, U)
BY DEF Overtakes

LEMMA ClientNames ==
  /\ Client \subseteq Task /\ Client \subseteq Handle /\ Task \subseteq Handle
  /\ Updater \notin Client /\ Unwinder \notin Client /\ Dead \notin Client
BY TaskNames DEF Client, Task, Handle

\* Those that wait for an event are not in the queue, and are not the update task.
LEMMA SuspendedNames ==
  ASSUME TypeInv, NEW p \in {"waiter", "finished", "state"}
  PROVE  /\ Suspended(p) \subseteq Client
         /\ Suspended(p) \cap Queued = {}
BY TypeParts, TaskNames
   DEF Suspended, PlacesOK, Place, UpdaterPlaces, Task, Client

\* A step that neither sends nor releases the lock.
LEMMA LockKept ==
  ASSUME LockInv, finished' = finished, closed => closed',
         pc'[Updater] = pc[Updater], pc'[Unwinder] = pc[Unwinder],
         Woken' \subseteq Woken,
         ~Overtakes(ready, Woken) => ~Overtakes(ready', Woken')
  PROVE  LockInv'
BY DEF LockInv

\* The task that runs leaves the queue.
LEMMA RestStep ==
  ASSUME TypeInv, QueueInv, ready # <<>>, ready' = Rest,
         \A u \in Task \ {Head(ready)} : pc'[u] = pc[u],
         thrown \ {Head(ready)} \subseteq thrown'
  PROVE  /\ QueueInv' /\ Woken' \subseteq Woken
         /\ ~Overtakes(ready, Woken) => ~Overtakes(ready', Woken')
<1> DEFINE t == Head(ready)
<1>1. /\ ready \in Seq(Handle) /\ Distinct(ready)
  BY TypeParts DEF QueueInv
<1>2. /\ Distinct(ready') /\ Queued' \subseteq Queued
      /\ \A u \in Queued' \cap Task : u # t
  BY <1>1, RunHead, TaskNames DEF Rest, Queued
<1>3. QueueInv'
  BY <1>2 DEF QueueInv
<1>4. Woken' \subseteq Woken
  BY <1>2, ClientNames DEF Woken, Client
<1>5. ~Overtakes(ready, Woken) => ~Overtakes(ready', Woken')
  BY <1>1, <1>4, TailOrder DEF Rest
<1> QED  BY <1>3, <1>4, <1>5

\* It joins the end of the queue again.
LEMMA RequeueStep ==
  ASSUME TypeInv, QueueInv, ready # <<>>, NEW t \in Client, Head(ready) = t,
         ready' = Append(Rest, t),
         \A u \in Task \ {t} : pc'[u] = pc[u],
         pc'[t] \notin {"idle", "finished"},
         thrown \ {t} \subseteq thrown'
  PROVE  /\ QueueInv' /\ Woken' \subseteq Woken
         /\ ~Overtakes(ready, Woken) => ~Overtakes(ready', Woken')
<1>1. ready \in Seq(Handle) /\ Distinct(ready) /\ t \in Handle /\ t \in Task /\ t # Dead
  BY TypeParts, ClientNames DEF QueueInv
<1>2. /\ Rest \in Seq(Handle) /\ Distinct(Rest) /\ ToSet(Rest) \subseteq Queued
      /\ t \notin ToSet(Rest)
  BY <1>1, RunHead DEF Rest, Queued
<1>3. Distinct(ready') /\ Queued' = ToSet(Rest) \cup {t}
  BY <1>1, <1>2, AppendQueue DEF Queued
<1>4. QueueInv'
  BY <1>1, <1>2, <1>3 DEF QueueInv
<1>5. Woken' \subseteq Woken /\ t \notin Woken'
  BY <1>2, <1>3, ClientNames DEF Woken, Client
<1>6. ~Overtakes(ready, Woken) => ~Overtakes(Rest, Woken')
  BY <1>1, <1>5, TailOrder DEF Rest
<1>7. ~Overtakes(ready, Woken) => ~Overtakes(ready', Woken')
  BY <1>1, <1>2, <1>5, <1>6, AppendQueue
<1> QED  BY <1>4, <1>5, <1>7

\* A task that is not in the queue joins it.
LEMMA AppendStep ==
  ASSUME TypeInv, QueueInv, NEW t \in Task, t \notin Queued,
         ready' = Append(ready, t),
         \A u \in Task \ {t} : pc'[u] = pc[u],
         pc'[t] \notin {"idle", "finished"},
         thrown' = thrown
  PROVE  /\ QueueInv' /\ Woken' \subseteq Woken
         /\ ~Overtakes(ready, Woken) => ~Overtakes(ready', Woken')
<1>1. ready \in Seq(Handle) /\ Distinct(ready) /\ t \in Handle
  BY TypeParts, ClientNames DEF QueueInv
<1>2. Distinct(ready') /\ Queued' = Queued \cup {t}
  BY <1>1, AppendQueue DEF Queued
<1>3. QueueInv'
  BY <1>2 DEF QueueInv
<1>4. Woken' \subseteq Woken /\ t \notin Woken'
  BY <1>2, ClientNames DEF Woken, Client
<1>5. ~Overtakes(ready, Woken) => ~Overtakes(ready', Woken')
  BY <1>1, <1>4, Subsets, AppendQueue
<1> QED  BY <1>3, <1>4, <1>5

\* If the update task runs, nobody was told that nothing is being sent.
LEMMA UpdaterRunsLast ==
  ASSUME TypeInv, LockInv, ready # <<>>, Head(ready) = Updater
  PROVE  Woken = {}
<1> SUFFICES ASSUME NEW x \in Woken  PROVE FALSE
  OBVIOUS
<1>1. ready \in Seq(Handle)
  BY TypeParts
<1>2. x \in ToSet(ready) /\ x # Updater
  BY ClientNames DEF Woken, Queued, Client
<1>3. Overtakes(ready, {x})
  BY <1>1, <1>2, HeadOvertakes
<1>4. Overtakes(ready, Woken)
  BY <1>3, Subsets
<1> QED  BY <1>4 DEF LockInv

SafeInv == TypeInv /\ QueueInv /\ LockInv

\* update() from line 64 on, once nothing is being sent: the update task that
\* it cancels is not sending, and the one it creates runs last.
LEMMA RearmLock ==
  ASSUME SafeInv, finished, NEW t \in Client, ready # <<>>, Head(ready) = t,
         NEW b, Rearm(t, b),
         finished' = finished, closed' = closed, thrown' = thrown
  PROVE  QueueInv' /\ LockInv'
<1> DEFINE q == Replace(Rest, Dead)
<1>1. /\ ready \in Seq(Handle) /\ Distinct(ready)
      /\ t \in Task /\ t # Updater /\ t # Unwinder /\ t # Dead
      /\ Dead \in Handle \ {Updater} /\ Updater \in Handle
      /\ pc[Updater] # "sending" /\ pc[Unwinder] # "unwind"
      /\ PlacesOK(pc)
  BY TypeParts, ClientNames, TaskNames DEF SafeInv, QueueInv, LockInv, Handle
<1>2. /\ Rest \in Seq(Handle) /\ Distinct(Rest) /\ ToSet(Rest) \subseteq Queued
      /\ t \notin ToSet(Rest)
  BY <1>1, RunHead DEF Rest, Queued
<1>3. /\ CancelledQueue(Rest) = q
      /\ q \in Seq(Handle) /\ Distinct(q) /\ Updater \notin ToSet(q)
      /\ ToSet(q) \subseteq ToSet(Rest) \cup {Dead}
  BY <1>1, <1>2, ReplaceQueue DEF CancelledQueue
<1>4. ASSUME NEW x  PROVE CancelledPlaces(x) = [pc EXCEPT ![Updater] = x]
  BY <1>1, TaskNames DEF CancelledPlaces, PlacesOK
<1>5. \A u \in ToSet(q) \cap Task : u # t /\ u # Updater /\ pc[u] # "idle"
  BY <1>2, <1>3, TaskNames DEF SafeInv, QueueInv
<1> HIDE DEF q
<1>6. /\ Append(q, Updater) \in Seq(Handle) /\ Distinct(Append(q, Updater))
      /\ ToSet(Append(q, Updater)) = ToSet(q) \cup {Updater}
      /\ \A S : Updater \notin S => ~Overtakes(Append(q, Updater), S)
  BY <1>1, <1>3, AppendQueue, NoneOvertaken
<1>7. CASE Restart(t, b)
  <2>1. /\ pc' = [[pc EXCEPT ![Updater] = "start"] EXCEPT ![t] = "waiter"]
        /\ ready' = Append(q, Updater)
    BY <1>3, <1>4, <1>7 DEF Restart
  <2>2. QueueInv'
    BY <1>1, <1>5, <1>6, <2>1 DEF QueueInv, Queued, PlacesOK
  <2>3. LockInv'
    BY <1>1, <1>6, <2>1, ClientNames, TaskNames DEF LockInv, Woken, Client, PlacesOK, SafeInv
  <2> QED  BY <2>2, <2>3
<1>8. CASE RestartAndFail(t, b)
  <2>1. /\ pc' = [[pc EXCEPT ![Updater] = "start"] EXCEPT ![t] = AfterCancel(t)]
        /\ ready' = IF t = Retrier THEN Append(Append(q, Updater), Retrier)
                    ELSE Append(q, Updater)
    BY <1>3, <1>4, <1>6, <1>8, DoneCallbackType DEF RestartAndFail
  <2>2. CASE t = Retrier
    <3>1. Retrier \notin ToSet(Append(q, Updater)) /\ Retrier \in Handle /\ pc'[Retrier] = "ended"
      BY <1>1, <1>5, <1>6, <2>1, <2>2, TaskNames DEF AfterCancel, PlacesOK
    <3>2. /\ Distinct(ready')
          /\ Queued' = ToSet(q) \cup {Updater} \cup {Retrier}
          /\ \A S : Updater \notin S /\ Retrier \notin S => ~Overtakes(ready', S)
      BY <1>6, <2>1, <2>2, <3>1, AppendQueue DEF Queued
    <3>3. QueueInv'
      BY <1>1, <1>5, <2>1, <2>2, <3>1, <3>2, TaskNames DEF QueueInv, PlacesOK
    <3>4. Updater \notin Woken' /\ Retrier \notin Woken'
      BY <3>1, ClientNames DEF Woken, Client
    <3>5. LockInv'
      BY <1>1, <2>1, <3>2, <3>4, ClientNames, TaskNames DEF LockInv, PlacesOK, SafeInv
    <3> QED  BY <3>3, <3>5
  <2>3. CASE t # Retrier
    <3>1. QueueInv'
      BY <1>1, <1>5, <1>6, <2>1, <2>3 DEF QueueInv, Queued, PlacesOK
    <3>2. LockInv'
      BY <1>1, <1>6, <2>1, <2>3, ClientNames, TaskNames
         DEF LockInv, Woken, Client, PlacesOK, SafeInv
    <3> QED  BY <3>1, <3>2
  <2> QED  BY <2>2, <2>3
<1>9. CASE GiveUp(t, b)
  <2>1. /\ pc' = [[pc EXCEPT ![Updater] = "idle"] EXCEPT ![t] = AfterReturn(t)]
        /\ ready' \in Wake(q, IF waiter = "pending" THEN Suspended("waiter") ELSE {})
    BY <1>3, <1>4, <1>9 DEF GiveUp
  <2>2. PICK S \in SUBSET Suspended("waiter") : ready' \in Wake(q, S)
    BY <2>1
  <2>3. S \subseteq Client /\ S \cap Queued = {} /\ S \in SUBSET Task /\ t \notin S
        /\ \A u \in S : pc[u] = "waiter"
    <3>1. t \in Queued
      BY <1>1, RunHead DEF Queued
    <3> QED  BY <3>1, SuspendedNames, ClientNames DEF SafeInv, Suspended
  <2>4. S \cap ToSet(q) = {}
    BY <1>2, <1>3, <2>3, ClientNames
  <2>5. Distinct(ready') /\ Queued' \subseteq ToSet(q) \cup S
    BY <1>3, <2>2, <2>3, <2>4, WakeQueue DEF Queued
  <2>6. Updater \notin Queued'
    BY <1>3, <2>3, <2>5, ClientNames
  <2>7. QueueInv'
    BY <1>1, <1>5, <2>1, <2>3, <2>5, ClientNames DEF QueueInv, PlacesOK
  <2>8. LockInv'
    BY <1>1, <2>1, <2>6, NoneOvertaken, TaskNames DEF LockInv, PlacesOK, SafeInv, Queued
  <2> QED  BY <2>7, <2>8
<1> QED  BY <1>7, <1>8, <1>9 DEF Rearm

LEMMA ProceedLock ==
  ASSUME SafeInv, NEW t \in Client, ready # <<>>, Head(ready) = t,
         NEW b, Proceed(t, b),
         finished' = finished, closed' = closed, thrown' = thrown
  PROVE  QueueInv' /\ LockInv'
<1>1. CASE AwaitFinished(t, b)
  <2>1. /\ t \in Task /\ t # Updater /\ t # Unwinder /\ PlacesOK(pc)
    BY ClientNames, TypeParts DEF SafeInv
  <2>2. /\ ready' = Rest /\ \A u \in Task \ {t} : pc'[u] = pc[u]
    BY <1>1, <2>1 DEF AwaitFinished, PlacesOK
  <2> QED  BY <2>1, <2>2, RestStep, LockKept, TaskNames DEF SafeInv
<1>2. CASE finished /\ Rearm(t, b)
  BY <1>2, RearmLock
<1> QED  BY <1>1, <1>2 DEF Proceed

\* Tasks are cancelled: they are woken at the end of the queue, to unwind.
LEMMA CancelLock ==
  ASSUME SafeInv, NEW S \in SUBSET Client, NEW q \in Seq(Handle), Cancel(S, q),
         Distinct(q), Queued \cap Client \subseteq ToSet(q),
         ToSet(q) \cap Client \subseteq Queued,
         \A u \in Client : pc'[u] = pc[u]
  PROVE  /\ Distinct(ready') /\ ToSet(q) \subseteq Queued'
         /\ Queued' \subseteq ToSet(q) \cup (S \cup Suspended("waiter"))
         /\ Woken' \subseteq Woken
         /\ ~Overtakes(q, Woken) => ~Overtakes(ready', Woken')
<1>1. Suspended("waiter") \subseteq Client
  BY SuspendedNames DEF SafeInv
<1>2. PICK hit \in SUBSET Client :
        /\ hit \subseteq S \cup Suspended("waiter")
        /\ thrown' = thrown \cup hit /\ ready' \in Wake(q, hit \ Queued)
  BY <1>1 DEF Cancel
<1>3. /\ hit \ Queued \in SUBSET Task /\ (hit \ Queued) \cap ToSet(q) = {}
      /\ Updater \notin hit \ Queued
  BY ClientNames
<1>4. /\ Distinct(ready') /\ ToSet(q) \subseteq Queued'
      /\ Queued' \subseteq ToSet(q) \cup (hit \ Queued)
  BY <1>2, <1>3, WakeQueue DEF Queued
<1>5. Woken' \subseteq Woken /\ (hit \ Queued) \cap Woken' = {}
  BY <1>2, <1>4 DEF Woken, Client
<1>6. ASSUME ~Overtakes(q, Woken)  PROVE ~Overtakes(ready', Woken')
  <2>1. ~Overtakes(q, Woken')
    BY <1>5, <1>6, Subsets
  <2> QED  BY <1>2, <1>3, <1>5, <2>1, WakeQueue
<1> QED  BY <1>2, <1>4, <1>5, <1>6

LEMMA CallerLock ==
  ASSUME SafeInv, NEW c \in Caller,
         AwaitState(c) \/ Store(c) \/ FailToStore(c) \/ Flush(c) \/ Submit(c) \/ Timeout(c)
  PROVE  QueueInv' /\ LockInv'
<1>0. /\ c \in Client /\ c \in Task /\ c # Updater /\ c # Unwinder /\ PlacesOK(pc)
      /\ ready \in Seq(Handle) /\ TypeInv /\ QueueInv /\ LockInv
  BY TypeParts, TaskNames DEF SafeInv, Client, Task
<1>1. CASE AwaitState(c)
  <2>1. /\ ready # <<>> /\ Head(ready) = c /\ ready' = Rest /\ thrown' = thrown
        /\ \A u \in Task \ {c} : pc'[u] = pc[u]
        /\ finished' = finished /\ closed' = closed
    BY <1>0, <1>1 DEF AwaitState, Runs, PlacesOK
  <2> QED  BY <1>0, <2>1, RestStep, LockKept, TaskNames
<1>2. CASE Store(c)
  <2>1. /\ ready # <<>> /\ Head(ready) = c /\ Proceed(c, Filtered(command[c]))
        /\ finished' = finished /\ closed' = closed /\ thrown' = thrown
    BY <1>2 DEF Store, Runs
  <2> QED  BY <1>0, <2>1, ProceedLock
<1>3. CASE FailToStore(c)
  <2>1. /\ ready # <<>> /\ Head(ready) = c /\ ready' = Rest /\ thrown' = thrown
        /\ \A u \in Task \ {c} : pc'[u] = pc[u]
        /\ finished' = finished /\ closed' = closed
    BY <1>0, <1>3 DEF FailToStore, Runs, PlacesOK
  <2> QED  BY <1>0, <2>1, RestStep, LockKept, TaskNames
<1>4. CASE Flush(c)
  <2>1. /\ ready # <<>> /\ Head(ready) = c /\ Proceed(c, buffer)
        /\ finished' = finished /\ closed' = closed /\ thrown' = thrown
    BY <1>4 DEF Flush, Runs
  <2> QED  BY <1>0, <2>1, ProceedLock
<1>5. CASE Submit(c)
  <2>1. /\ ready' = Append(ready, c) /\ thrown' = thrown
        /\ \A u \in Task \ {c} : pc'[u] = pc[u]
        /\ pc'[c] = "start" /\ pc[c] = "idle"
        /\ finished' = finished /\ closed' = closed
    BY <1>0, <1>5 DEF Submit, PlacesOK
  <2>2. c \notin Queued
    BY <1>0, <2>1 DEF QueueInv
  <2> QED  BY <1>0, <2>1, <2>2, AppendStep, LockKept, TaskNames
<1>6. CASE Timeout(c)
  <2>1. /\ {c} \in SUBSET Client /\ Cancel({c}, ready) /\ pc' = pc
        /\ finished' = finished /\ closed' = closed /\ pc[c] # "idle"
    BY <1>0, <1>6 DEF Timeout
  <2>2. /\ Distinct(ready') /\ Queued' \subseteq Queued \cup {c} \cup Suspended("waiter")
        /\ Woken' \subseteq Woken
        /\ ~Overtakes(ready, Woken) => ~Overtakes(ready', Woken')
    BY <1>0, <2>1, CancelLock DEF QueueInv, Queued
  <2>3. QueueInv'
    BY <1>0, <2>1, <2>2 DEF QueueInv, Suspended
  <2> QED  BY <1>0, <2>1, <2>2, <2>3, LockKept
<1> QED  BY <1>1, <1>2, <1>3, <1>4, <1>5, <1>6

LEMMA ClientLock ==
  ASSUME SafeInv, NEW t \in Client, Resume(t) \/ Return(t) \/ Unwind(t)
  PROVE  QueueInv' /\ LockInv'
<1>0. /\ t \in Task /\ t # Updater /\ t # Unwinder /\ PlacesOK(pc)
      /\ ready \in Seq(Handle) /\ TypeInv /\ QueueInv /\ LockInv
  BY TypeParts, ClientNames DEF SafeInv
<1>1. CASE Resume(t)
  <2>1. /\ ready # <<>> /\ Head(ready) = t /\ Rearm(t, buffer)
        /\ pc[t] = "finished" /\ t \notin thrown
        /\ finished' = finished /\ closed' = closed /\ thrown' = thrown
    BY <1>1 DEF Resume, Runs
  <2>2. t \in Woken
    BY <1>0, <2>1, RunHead DEF Woken, Client, Queued, QueueInv
  <2>3. finished
    BY <1>0, <2>2 DEF LockInv
  <2> QED  BY <2>1, <2>3, RearmLock
<1>2. CASE Return(t)
  <2>1. /\ ready # <<>> /\ Head(ready) = t /\ ready' = Rest /\ thrown' = thrown
        /\ \A u \in Task \ {t} : pc'[u] = pc[u]
        /\ finished' = finished /\ closed' = closed
    BY <1>0, <1>2 DEF Return, Runs, PlacesOK
  <2> QED  BY <1>0, <2>1, RestStep, LockKept, TaskNames
<1>3. CASE Unwind(t)
  <2>1. /\ ready # <<>> /\ Head(ready) = t /\ thrown' = thrown \ {t}
        /\ \A u \in Task \ {t} : pc'[u] = pc[u]
        /\ pc'[t] = AfterCancel(t)
        /\ finished' = finished /\ closed' = closed
    BY <1>0, <1>3 DEF Unwind, Unwinds, PlacesOK
  <2>2. ready' = IF t = Retrier THEN Append(Rest, Retrier) ELSE Rest
    BY <1>0, <1>3, <2>1, RestType, DoneCallbackType DEF Unwind
  <2>3. /\ QueueInv' /\ Woken' \subseteq Woken
        /\ ~Overtakes(ready, Woken) => ~Overtakes(ready', Woken')
    <3>1. CASE t = Retrier
      BY <1>0, <2>1, <2>2, <3>1, RequeueStep DEF AfterCancel
    <3>2. CASE t # Retrier
      BY <1>0, <2>1, <2>2, <3>2, RestStep
    <3> QED  BY <3>1, <3>2
  <2> QED  BY <1>0, <2>1, <2>3, LockKept, TaskNames
<1> QED  BY <1>1, <1>2, <1>3

\* The call returns: those that are told so find no update task in the queue.
LEMMA CompleteLock ==
  ASSUME SafeInv, ready # <<>>, Head(ready) = Updater, pc[Updater] # "idle", Complete
  PROVE  QueueInv' /\ LockInv'
<1>0. /\ PlacesOK(pc) /\ ready \in Seq(Handle) /\ Distinct(ready)
      /\ TypeInv /\ QueueInv /\ LockInv /\ pc[Unwinder] # "unwind"
  BY TypeParts DEF SafeInv, QueueInv, LockInv
<1>1. /\ Rest \in Seq(Handle) /\ Distinct(Rest) /\ ToSet(Rest) \subseteq Queued
      /\ Updater \notin ToSet(Rest)
  BY <1>0, RunHead, TaskNames DEF Rest, Queued
<1>2. /\ pc'[Updater] = "idle" /\ pc'[Unwinder] = pc[Unwinder]
      /\ \A u \in Client : u # Retrier => pc'[u] = pc[u]
      /\ pc'[Retrier] = IF StartsRetry THEN "start" ELSE pc[Retrier]
  BY <1>0, ClientNames, TaskNames DEF Complete, PlacesOK
<1>3. PICK S \in SUBSET Suspended("waiter") : \E queue \in Wake(Rest, S) :
        ready' \in Wake(IF StartsRetry THEN Append(queue, Retrier) ELSE queue,
                       Suspended("finished"))
  BY DEF Complete
<1>4. PICK queue \in Wake(Rest, S) :
        ready' \in Wake(IF StartsRetry THEN Append(queue, Retrier) ELSE queue,
                       Suspended("finished"))
  BY <1>3
<1>5. /\ S \subseteq Client /\ S \in SUBSET Task /\ S \cap ToSet(Rest) = {}
      /\ \A u \in S : pc[u] = "waiter"
  BY <1>0, <1>1, SuspendedNames, ClientNames DEF Suspended
<1>6. /\ queue \in Seq(Handle) /\ Distinct(queue)
      /\ ToSet(queue) \subseteq ToSet(Rest) \cup S
  BY <1>1, <1>4, <1>5, WakeQueue
<1> DEFINE r == IF StartsRetry THEN Append(queue, Retrier) ELSE queue
<1>7. /\ r \in Seq(Handle) /\ Distinct(r)
      /\ ToSet(r) \subseteq ToSet(Rest) \cup S \cup {Retrier}
      /\ Retrier \in ToSet(r) => StartsRetry \/ Retrier \in ToSet(Rest) \cup S
  <2>1. CASE StartsRetry
    <3>1. pc[Retrier] = "idle" /\ Retrier \in Handle
      BY <2>1, ClientNames DEF StartsRetry, Client
    <3>2. Retrier \notin ToSet(queue)
      BY <1>0, <1>1, <1>5, <1>6, <3>1, TaskNames DEF QueueInv
    <3> QED  BY <1>6, <2>1, <3>1, <3>2, AppendQueue
  <2>2. CASE ~StartsRetry
    BY <1>6, <2>2
  <2> QED  BY <2>1, <2>2
<1>8. /\ Suspended("finished") \subseteq Client /\ Suspended("finished") \in SUBSET Task
      /\ Suspended("finished") \cap ToSet(r) = {}
      /\ \A u \in Suspended("finished") : pc[u] = "finished"
  <2>1. /\ Suspended("finished") \subseteq Client /\ Suspended("finished") \in SUBSET Task
        /\ Suspended("finished") \cap Queued = {}
        /\ \A u \in Suspended("finished") : pc[u] = "finished"
    BY <1>0, SuspendedNames, ClientNames DEF Suspended
  <2>2. Retrier \in ToSet(r) => Retrier \notin Suspended("finished")
    BY <1>1, <1>5, <1>7, <2>1 DEF StartsRetry
  <2> QED  BY <1>1, <1>5, <1>7, <2>1, <2>2
<1>9. ready' \in Wake(r, Suspended("finished"))
  BY <1>4
<1> HIDE DEF r
<1>10. Distinct(ready') /\ Queued' \subseteq ToSet(r) \cup Suspended("finished")
  BY <1>7, <1>8, <1>9, WakeQueue DEF Queued
<1>11. Updater \notin Queued'
  BY <1>1, <1>5, <1>7, <1>8, <1>10, ClientNames, TaskNames
<1>12. QueueInv'
  <2> SUFFICES ASSUME NEW u \in Queued' \cap Task  PROVE pc'[u] # "idle"
    BY <1>10 DEF QueueInv
  <2>1. u # Updater
    BY <1>11
  <2>2. CASE u = Retrier /\ StartsRetry
    BY <1>2, <2>2
  <2>3. CASE ~(u = Retrier /\ StartsRetry)
    <3>1. u \in ToSet(Rest) \cup S \cup Suspended("finished")
      BY <1>7, <1>10, <2>3
    <3>2. pc[u] # "idle"
      BY <1>0, <1>1, <1>5, <1>8, <3>1 DEF QueueInv
    <3>3. u \in Client \/ u = Unwinder
      BY <2>1 DEF Client, Task
    <3> QED  BY <1>2, <2>3, <3>2, <3>3
  <2> QED  BY <2>2, <2>3
<1>13. LockInv'
  BY <1>0, <1>2, <1>11, NoneOvertaken DEF LockInv, Queued, Complete
<1> QED  BY <1>12, <1>13

LEMMA UpdaterLock ==
  ASSUME SafeInv,
         \/ Delay \/ NothingToSend \/ Send \/ Sent \/ SendAtOnce \/ UnwindSend \/ Bury
         \/ DelayElapses \/ SendReturns
  PROVE  QueueInv' /\ LockInv'
<1>0. /\ PlacesOK(pc) /\ ready \in Seq(Handle) /\ Distinct(ready)
      /\ TypeInv /\ QueueInv /\ LockInv
      /\ Updater \in Task /\ Unwinder \in Task /\ Updater # Unwinder
  BY TypeParts, TaskNames DEF SafeInv, QueueInv
<1>1. CASE Delay
  <2>1. /\ ready # <<>> /\ Head(ready) = Updater /\ ready' = Rest /\ thrown' = thrown
        /\ \A u \in Task \ {Updater} : pc'[u] = pc[u]
        /\ pc[Updater] = "start" /\ pc'[Updater] = "delay"
        /\ finished' = finished /\ closed' = closed
    BY <1>0, <1>1 DEF Delay, Runs, PlacesOK
  <2>2. Woken = {} /\ QueueInv' /\ Woken' \subseteq Woken
    BY <1>0, <2>1, RestStep, UpdaterRunsLast
  <2>3. LockInv'
    BY <1>0, <2>1, <2>2 DEF LockInv
  <2> QED  BY <2>2, <2>3
<1>2. CASE NothingToSend
  <2>1. /\ ready # <<>> /\ Head(ready) = Updater /\ ready' = Rest /\ thrown' = thrown
        /\ \A u \in Task \ {Updater} : pc'[u] = pc[u]
        /\ pc[Updater] \in {"start", "delay"} /\ pc'[Updater] = "idle"
        /\ finished' = finished /\ closed' = closed
    BY <1>0, <1>2 DEF NothingToSend, SendsNow, Runs, PlacesOK
  <2>2. Woken = {} /\ QueueInv' /\ Woken' \subseteq Woken
    BY <1>0, <2>1, RestStep, UpdaterRunsLast
  <2>3. LockInv'
    BY <1>0, <2>1, <2>2 DEF LockInv
  <2> QED  BY <2>2, <2>3
<1>3. CASE Send
  <2>1. /\ ready # <<>> /\ Head(ready) = Updater /\ ready' = Rest /\ thrown' = thrown
        /\ \A u \in Task \ {Updater} : pc'[u] = pc[u]
        /\ pc[Updater] \in {"start", "delay"} /\ pc'[Updater] = "sending"
        /\ finished' = FALSE /\ closed' = closed
    BY <1>0, <1>3 DEF Send, SendsNow, Runs, PlacesOK
  <2>2. Woken = {} /\ QueueInv' /\ Woken' \subseteq Woken
    BY <1>0, <2>1, RestStep, UpdaterRunsLast
  <2>3. LockInv'
    BY <1>0, <2>1, <2>2 DEF LockInv
  <2> QED  BY <2>2, <2>3
<1>4. CASE Sent
  BY <1>4, CompleteLock DEF Sent, Runs
<1>5. CASE SendAtOnce
  BY <1>5, CompleteLock DEF SendAtOnce, SendsNow, Runs
<1>6. CASE UnwindSend
  <2>1. /\ ready # <<>> /\ Head(ready) = Unwinder /\ pc[Unwinder] = "unwind"
        /\ pc[Updater] = "idle"
    BY <1>0, <1>6 DEF UnwindSend, Runs, LockInv
  <2>2. /\ Rest \in Seq(Handle) /\ Distinct(Rest) /\ ToSet(Rest) \subseteq Queued
        /\ Unwinder \notin ToSet(Rest) /\ Updater \notin ToSet(Rest)
    BY <1>0, <2>1, RunHead, TaskNames DEF Rest, Queued, QueueInv
  <2>3. /\ Suspended("finished") \subseteq Client /\ Suspended("finished") \in SUBSET Task
        /\ Suspended("finished") \cap ToSet(Rest) = {}
        /\ \A u \in Suspended("finished") : pc[u] = "finished"
    BY <1>0, <2>2, SuspendedNames, ClientNames DEF Suspended
  <2>4. Distinct(ready') /\ Queued' \subseteq ToSet(Rest) \cup Suspended("finished")
    BY <1>6, <2>2, <2>3, WakeQueue DEF UnwindSend, Queued
  <2>5. /\ Updater \notin Queued' /\ Unwinder \notin Queued'
    BY <2>2, <2>3, <2>4, ClientNames
  <2>6. /\ pc'[Updater] = "idle" /\ pc'[Unwinder] = "idle"
        /\ \A u \in Task \ {Unwinder} : pc'[u] \in {"orphan", pc[u]}
    BY <1>0, <1>6, <2>1, SuspendedNames, ClientNames DEF UnwindSend
  <2>7. QueueInv'
    BY <1>0, <2>2, <2>3, <2>4, <2>5, <2>6 DEF QueueInv
  <2>8. LockInv'
    BY <1>6, <2>5, <2>6, NoneOvertaken DEF LockInv, UnwindSend, Queued
  <2> QED  BY <2>7, <2>8
<1>7. CASE Bury
  <2>1. /\ ready # <<>> /\ ready' = Rest /\ thrown' = thrown /\ pc' = pc
        /\ finished' = finished /\ closed' = closed
    BY <1>7 DEF Bury
  <2> QED  BY <1>0, <2>1, RestStep, LockKept
<1>8. CASE DelayElapses \/ SendReturns
  <2>1. /\ ready' = Append(ready, Updater) /\ thrown' = thrown /\ pc' = pc
        /\ Updater \notin Queued /\ pc[Updater] \in {"delay", "sending"}
        /\ finished' = finished /\ closed' = closed
    BY <1>8 DEF DelayElapses, SendReturns, Suspended
  <2> QED  BY <1>0, <2>1, AppendStep, LockKept
<1> QED  BY <1>1, <1>2, <1>3, <1>4, <1>5, <1>6, <1>7, <1>8

LEMMA RetrierLock ==
  ASSUME SafeInv,
         StartRetry \/ StopRetrying \/ FailToCheck \/ Retry \/ Cleanup \/ BackoffElapses
  PROVE  QueueInv' /\ LockInv'
<1>0. /\ PlacesOK(pc) /\ TypeInv /\ QueueInv /\ LockInv
      /\ Retrier \in Task /\ Retrier \in Client /\ Retrier # Updater /\ Retrier # Unwinder
  BY TypeParts, TaskNames DEF SafeInv, Client
<1>1. CASE StartRetry \/ Cleanup
  <2>1. /\ ready # <<>> /\ Head(ready) = Retrier /\ ready' = Rest /\ thrown' = thrown
        /\ \A u \in Task \ {Retrier} : pc'[u] = pc[u]
        /\ finished' = finished /\ closed' = closed
    BY <1>0, <1>1 DEF StartRetry, Cleanup, Runs, PlacesOK
  <2> QED  BY <1>0, <2>1, RestStep, LockKept, TaskNames
<1>2. CASE StopRetrying \/ FailToCheck
  <2>1. /\ ready # <<>> /\ Head(ready) = Retrier /\ thrown' = thrown /\ EndRetry
        /\ finished' = finished /\ closed' = closed
    BY <1>2 DEF StopRetrying, FailToCheck, Runs
  <2>2. /\ ready' = Append(Rest, Retrier) /\ pc'[Retrier] = "ended"
        /\ \A u \in Task \ {Retrier} : pc'[u] = pc[u]
    BY <1>0, <2>1 DEF EndRetry, PlacesOK
  <2> QED  BY <1>0, <2>1, <2>2, RequeueStep, LockKept, TaskNames
<1>3. CASE Retry
  <2>1. /\ ready # <<>> /\ Head(ready) = Retrier /\ thrown' = thrown
        /\ Proceed(Retrier, Differing(buffer, state))
        /\ finished' = finished /\ closed' = closed
    BY <1>3 DEF Retry, Runs
  <2> QED  BY <1>0, <2>1, ProceedLock
<1>4. CASE BackoffElapses
  <2>1. /\ ready' = Append(ready, Retrier) /\ thrown' = thrown /\ pc' = pc
        /\ Retrier \notin Queued /\ pc[Retrier] = "backoff"
        /\ finished' = finished /\ closed' = closed
    BY <1>4 DEF BackoffElapses, Suspended
  <2> QED  BY <1>0, <2>1, AppendStep, LockKept
<1> QED  BY <1>1, <1>2, <1>3, <1>4

\* To cancel the update task takes nobody else out of the queue.
LEMMA CancelledQueueKeeps ==
  ASSUME NEW q \in Seq(Handle)
  PROVE  ToSet(q) \cap Client \subseteq ToSet(CancelledQueue(q))
<1>1. ASSUME NEW x \in Handle  PROVE ToSet(q) \cap Client \subseteq ToSet(Replace(q, x))
  BY ClientNames DEF ToSet, Replace
<1>2. ToSet(q) \subseteq ToSet(Append(q, Unwinder))
  BY AppendQueue, ClientNames, TaskNames
<1> QED  BY <1>1, <1>2, TaskNames DEF CancelledQueue, Handle

LEMMA OutsideLock ==
  ASSUME SafeInv, Report \/ Close
  PROVE  QueueInv' /\ LockInv'
<1>0. /\ PlacesOK(pc) /\ ready \in Seq(Handle) /\ Distinct(ready)
      /\ TypeInv /\ QueueInv /\ LockInv
      /\ Updater \in Task /\ Unwinder \in Task /\ Updater # Unwinder
  BY TypeParts, TaskNames DEF SafeInv, QueueInv
<1>1. CASE Report
  <2> DEFINE S == Suspended("state")
  <2>1. /\ ready' \in Wake(ready, S) /\ pc' = pc /\ thrown' = thrown
        /\ finished' = finished /\ closed' = closed
    BY <1>1 DEF Report
  <2>2. S \subseteq Client /\ S \in SUBSET Task /\ S \cap Queued = {}
        /\ \A u \in S : pc[u] = "state"
    BY <1>0, SuspendedNames, ClientNames DEF Suspended
  <2> HIDE DEF S
  <2>3. Distinct(ready') /\ Queued' \subseteq Queued \cup S /\ Updater \notin S
    BY <1>0, <2>1, <2>2, WakeQueue, ClientNames DEF Queued
  <2>4. QueueInv'
    BY <1>0, <2>1, <2>2, <2>3 DEF QueueInv
  <2>5. Woken' \subseteq Woken /\ S \cap Woken' = {}
    BY <2>1, <2>2, <2>3 DEF Woken
  <2>6. ~Overtakes(ready, Woken) => ~Overtakes(ready', Woken')
    BY <1>0, <2>1, <2>2, <2>3, <2>5, Subsets, WakeQueue
  <2> QED  BY <1>0, <2>1, <2>4, <2>5, <2>6, LockKept
<1>2. CASE Close
  <2> DEFINE q == CancelledQueue(ready)
  <2>1. PICK S \in SUBSET Client :
          /\ Cancel(S, q)
          /\ \A u \in S : pc[u] # "idle"
    <3>1. {} \in SUBSET Client /\ {Retrier} \in SUBSET Client
      BY DEF Client
    <3> QED  BY <1>2, <3>1 DEF Close
  <2>2. /\ pc'[Updater] = "idle"
        /\ pc'[Unwinder] = IF pc[Updater] = "sending" THEN "unwind" ELSE pc[Unwinder]
        /\ \A u \in Client : pc'[u] = pc[u]
        /\ finished' = finished /\ closed'
    BY <1>0, <1>2, ClientNames DEF Close, CancelledPlaces, PlacesOK
  <2>3. CASE pc[Updater] = "sending"
    <3>1. pc[Unwinder] = "idle" /\ ~finished /\ Woken = {}
      <4>1. pc[Unwinder] \in {"idle", "unwind"}
        BY <1>0, TaskNames DEF PlacesOK, Place
      <4> QED  BY <1>0, <2>3, <4>1 DEF LockInv
    <3>2. Unwinder \notin Queued /\ Unwinder \in Handle /\ Unwinder # Updater
      BY <1>0, <3>1, ClientNames DEF QueueInv
    <3>3. /\ q \in Seq(Handle) /\ Distinct(q) /\ Updater \notin ToSet(q)
          /\ ToSet(q) \subseteq Queued \cup {Unwinder}
      BY <1>0, <2>3, <3>2, ReplaceQueue, AppendQueue DEF CancelledQueue, Queued
    <3>4. ToSet(q) \cap Client \subseteq Queued
      BY <3>3, ClientNames
    <3>5. Queued \cap Client \subseteq ToSet(q)
      BY <1>0, CancelledQueueKeeps DEF Queued
    <3>6. /\ Distinct(ready') /\ Queued' \subseteq ToSet(q) \cup (S \cup Suspended("waiter"))
          /\ Woken' \subseteq Woken
      BY <2>1, <2>2, <3>3, <3>4, <3>5, CancelLock
    <3>7. QueueInv'
      BY <1>0, <2>1, <2>2, <2>3, <3>3, <3>6, SuspendedNames, ClientNames
         DEF QueueInv, Suspended, Client, Task
    <3>8. LockInv'
      BY <1>0, <2>2, <2>3, <3>1, <3>6 DEF LockInv
    <3> QED  BY <3>7, <3>8
  <2>4. CASE pc[Updater] # "sending"
    <3>1. q = Replace(ready, Dead) /\ Dead \in Handle \ {Updater} /\ Dead \notin Client
      BY <2>4, TaskNames, ClientNames DEF CancelledQueue, Handle
    <3>2. /\ q \in Seq(Handle) /\ Distinct(q) /\ Updater \notin ToSet(q)
          /\ ToSet(q) \subseteq Queued \cup {Dead}
      BY <1>0, <3>1, ReplaceQueue DEF Queued
    <3>3. Queued \cap Client \subseteq ToSet(q) /\ ToSet(q) \cap Client \subseteq Queued
      BY <1>0, <3>1, <3>2, CancelledQueueKeeps DEF Queued
    <3>4. /\ Distinct(ready') /\ Queued' \subseteq ToSet(q) \cup (S \cup Suspended("waiter"))
          /\ Woken' \subseteq Woken
      BY <2>1, <2>2, <3>2, <3>3, CancelLock
    <3>5. Updater \notin Queued'
      BY <1>0, <3>2, <3>4, SuspendedNames, ClientNames
    <3>6. QueueInv'
      BY <1>0, <2>1, <2>2, <2>4, <3>2, <3>4, <3>5, SuspendedNames, ClientNames, TaskNames
         DEF QueueInv, Suspended, Client, Task
    <3>7. LockInv'
      BY <1>0, <2>2, <2>4, <3>4, <3>5, NoneOvertaken DEF LockInv, Queued
    <3> QED  BY <3>6, <3>7
  <2> QED  BY <2>3, <2>4
<1> QED  BY <1>1, <1>2

LEMMA SafeInvariant == Spec => []SafeInv
<1>1. Init => SafeInv
  <2> SUFFICES ASSUME Init PROVE SafeInv
    OBVIOUS
  <2>1. TypeInv
    BY InitType
  <2>2. ToSet(ready) = {} /\ Distinct(ready)
    BY DEF Init, ToSet, Distinct
  <2>3. QueueInv
    BY <2>2 DEF QueueInv, Queued
  <2>4. LockInv
    BY <2>2, TaskNames DEF Init, LockInv, Woken, Queued
  <2> QED  BY <2>1, <2>3, <2>4 DEF SafeInv
<1>2. SafeInv /\ [Next]_vars => SafeInv'
  <2> SUFFICES ASSUME SafeInv, [Next]_vars PROVE QueueInv' /\ LockInv'
    BY StepType DEF SafeInv
  <2>1. ASSUME NEW c \in Caller,
               AwaitState(c) \/ Store(c) \/ FailToStore(c) \/ Flush(c) \/ Submit(c) \/ Timeout(c)
        PROVE  QueueInv' /\ LockInv'
    BY <2>1, CallerLock
  <2>2. ASSUME NEW t \in Caller \cup {Retrier}, Resume(t) \/ Return(t) \/ Unwind(t)
        PROVE  QueueInv' /\ LockInv'
    BY <2>2, ClientLock DEF Client
  <2>3. ASSUME \/ Delay \/ NothingToSend \/ Send \/ Sent \/ SendAtOnce \/ UnwindSend
               \/ Bury \/ DelayElapses \/ SendReturns
        PROVE  QueueInv' /\ LockInv'
    BY <2>3, UpdaterLock
  <2>4. ASSUME StartRetry \/ StopRetrying \/ FailToCheck \/ Retry \/ Cleanup \/ BackoffElapses
        PROVE  QueueInv' /\ LockInv'
    BY <2>4, RetrierLock
  <2>5. ASSUME Report \/ Close PROVE QueueInv' /\ LockInv'
    BY <2>5, OutsideLock
  <2>6. CASE UNCHANGED vars
    BY <2>6 DEF vars, SafeInv, QueueInv, LockInv, Woken, Queued
  <2> QED  BY <2>1, <2>2, <2>3, <2>4, <2>5, <2>6 DEF Next, LoopStep
<1> QED  BY <1>1, <1>2, PTL DEF Spec

(* One call to the device at a time, and none is abandoned before close(),   *)
(* although update() cancels the update task without looking whether it is   *)
(* sending (buffer.py, lines 62 to 64 and 90 to 103): for any pool, any      *)
(* commands and reports, any number of retries.                              *)
THEOREM SingleCallHolds == Spec => []SingleCall
<1>1. SafeInv => SingleCall
  BY DEF SafeInv, LockInv, SingleCall
<1> QED  BY <1>1, SafeInvariant, PTL

(* Why: whoever was told that nothing is being sent runs before the update   *)
(* task that could send.                                                     *)
THEOREM InductiveInvariant == Spec => []IInv
<1>1. SafeInv => IInv
  BY DEF SafeInv, TypeInv, IInv
<1> QED  BY <1>1, SafeInvariant, PTL

-----------------------------------------------------------------------------
(* Those that await the shared future: it is pending exactly as long as     *)
(* somebody awaits it, and whoever awaits it while there is something to    *)
(* send has an update task.                                                 *)

Waiters == Suspended("waiter")

Served == closed \/ buffer = NoValues \/ pc[Updater] # "idle"

WaitInv ==
  /\ Waiters # {} <=> waiter = "pending"
  /\ Waiters # {} => Served

-----------------------------------------------------------------------------
(* The queue: nobody leaves it but the task that runs.                      *)

LEMMA RestKeeps ==
  ASSUME SafeInv, ready # <<>>
  PROVE  /\ Rest \in Seq(Handle) /\ Head(ready) \in Queued
         /\ \A u \in Client : u \in ToSet(Rest) <=> u \in Queued /\ u # Head(ready)
<1>1. ready \in Seq(Handle) /\ Distinct(ready)
  BY TypeParts DEF SafeInv, QueueInv
<1>2. /\ Tail(ready) \in Seq(Handle) /\ Head(ready) \in ToSet(ready)
      /\ ToSet(Tail(ready)) \subseteq ToSet(ready)
      /\ Head(ready) # Dead => Head(ready) \notin ToSet(Tail(ready))
  BY <1>1, RunHead
<1>3. ASSUME NEW u \in Queued, u # Head(ready)  PROVE u \in ToSet(Tail(ready))
  <2>1. PICK i \in DOMAIN ready : ready[i] = u
    BY <1>3, InQueue DEF Queued
  <2>2. i - 1 \in DOMAIN Tail(ready) /\ Tail(ready)[i - 1] = u
    BY <1>1, <1>3, <2>1
  <2> QED  BY <2>2, InQueue
<1> QED  BY <1>2, <1>3, ClientNames DEF Rest, Queued

LEMMA WakeAll ==
  ASSUME NEW q \in Seq(Handle), NEW S \in SUBSET Task, NEW r \in Wake(q, S)
  PROVE  r \in Seq(Handle) /\ ToSet(r) = ToSet(q) \cup S
<1>1. PICK w \in SetToSeqs(S) : r = q \o w
  BY DEF Wake
<1> DEFINE n == Cardinality(S)
<1>2. n \in Nat /\ IsFiniteSet(S)
  BY TaskFinite, FS_Subset, FS_CardinalityType
<1>3. w \in [1..n -> S] /\ \A i, j \in 1..n : i # j => w[i] # w[j]
  BY DEF SetToSeqs
<1>4. w \in Seq(Handle) /\ Len(w) = n
  <2>1. w \in [1..n -> Handle]
    BY <1>3 DEF Handle
  <2> QED  BY <1>2, <2>1
<1>5. \A x \in S : \E i \in 1..n : w[i] = x
  <2>1. w \in Injection(1..n, S)
    BY <1>3 DEF Injection, IsInjective
  <2>2. IsFiniteSet(1..n) /\ Cardinality(1..n) = n
    BY <1>2, FS_Interval
  <2>3. w \in Surjection(1..n, S)
    BY <1>2, <2>1, <2>2, FS_Injection
  <2> QED  BY <2>3 DEF Surjection
<1> HIDE DEF n
<1>6. ToSet(q) \subseteq ToSet(r) /\ ToSet(r) \subseteq ToSet(q) \cup S /\ r \in Seq(Handle)
  BY WakeQueue
<1>7. ASSUME NEW x \in S  PROVE x \in ToSet(r)
  <2>1. PICK i \in 1..n : w[i] = x
    BY <1>5
  <2>2. Len(q) + i \in DOMAIN r /\ r[Len(q) + i] = x
    BY <1>1, <1>2, <1>4, <2>1
  <2> QED  BY <2>2, InQueue
<1> QED  BY <1>6, <1>7

LEMMA CancelledKeeps ==
  ASSUME NEW q \in Seq(Handle)
  PROVE  /\ CancelledQueue(q) \in Seq(Handle)
         /\ ToSet(CancelledQueue(q)) \cap Client = ToSet(q) \cap Client
<1>1. ASSUME NEW x \in Handle \ Client, x # Updater
      PROVE  ToSet(Replace(q, x)) \cap Client \subseteq ToSet(q)
  BY <1>1, ReplaceQueue
<1>2. ToSet(Append(q, Unwinder)) \cap Client \subseteq ToSet(q)
  BY AppendQueue, ClientNames, TaskNames
<1>3. ToSet(CancelledQueue(q)) \cap Client \subseteq ToSet(q)
  BY <1>1, <1>2, ClientNames, TaskNames DEF CancelledQueue, Handle
<1> QED  BY <1>3, CancelledQueueKeeps, CancelledQueueType

-----------------------------------------------------------------------------
(* Steps that leave those that await the future alone.                      *)

\* The task h runs or is started; nobody else comes or goes.
LEMMA SameWaiters ==
  ASSUME SafeInv, PlacesOK(pc'), NEW h, h \notin Waiters,
         h \in Client => pc'[h] # "waiter",
         \A u \in Client : u # h => (pc'[u] = "waiter" <=> pc[u] = "waiter"),
         \A u \in Client : u # h /\ pc[u] = "waiter" => (u \in Queued' <=> u \in Queued)
  PROVE  Waiters' = Waiters
<1>1. \A u \in Waiters : u \in Client
  BY SuspendedNames DEF SafeInv, Waiters
<1>2. \A u \in Waiters' : u \in Client
  BY TaskNames
     DEF Waiters, Suspended, PlacesOK, Place, UpdaterPlaces, Task, Client
<1>3. \A u \in Client : u \in Waiters' <=> u \in Waiters
  BY ClientNames DEF Waiters, Suspended
<1> QED  BY <1>1, <1>2, <1>3

LEMMA WaitKept ==
  ASSUME WaitInv, Waiters' = Waiters, waiter' = waiter, Served => Served'
  PROVE  WaitInv'
BY DEF WaitInv

\* The task at the head runs, and may join the queue again.
LEMMA HeadRuns ==
  ASSUME SafeInv, WaitInv, PlacesOK(pc'), ready # <<>>,
         NEW S, \A u \in S : pc[u] # "waiter" \/ u = Head(ready),
         \A u \in Client : u \in Queued' <=> u \in ToSet(Rest) \cup S,
         Head(ready) \in Client => pc'[Head(ready)] # "waiter",
         \A u \in Client : u # Head(ready) => (pc'[u] = "waiter" <=> pc[u] = "waiter"),
         waiter' = waiter, Served => Served'
  PROVE  WaitInv'
<1>1. Head(ready) \notin Waiters
  BY RestKeeps DEF Waiters, Suspended
<1>2. \A u \in Client : u # Head(ready) /\ pc[u] = "waiter" => (u \in Queued' <=> u \in Queued)
  BY RestKeeps
<1>3. Waiters' = Waiters
  BY <1>1, <1>2, SameWaiters
<1> QED  BY <1>3, WaitKept

-----------------------------------------------------------------------------
(* update().                                                                *)

LEMMA RearmWait ==
  ASSUME SafeInv, WaitInv, PlacesOK(pc'), NEW t \in Client, ready # <<>>, Head(ready) = t,
         finished, NEW b, Rearm(t, b), closed' = closed
  PROVE  WaitInv'
<1> DEFINE q == CancelledQueue(Rest)
<1>1. /\ t \in Task /\ t # Updater /\ t # Unwinder /\ PlacesOK(pc) /\ Updater \in Handle
      /\ Updater \in Task /\ pc[Updater] # "sending"
  BY TypeParts, ClientNames, TaskNames DEF SafeInv, Handle, LockInv
<1>2. /\ q \in Seq(Handle)
      /\ \A u \in Client : u \in ToSet(q) <=> u \in Queued /\ u # t
  BY RestKeeps, CancelledKeeps
<1>3. ASSUME NEW x  PROVE CancelledPlaces(x) = [pc EXCEPT ![Updater] = x]
  BY <1>1, TaskNames DEF CancelledPlaces, PlacesOK
<1> HIDE DEF q
<1>4. /\ Append(q, Updater) \in Seq(Handle)
      /\ \A u \in Client : u \in ToSet(Append(q, Updater)) <=> u \in ToSet(q)
  BY <1>1, <1>2, AppendQueue, ClientNames
<1>5. CASE Restart(t, b)
  <2>1. /\ pc'[t] = "waiter" /\ pc'[Updater] = "start" /\ waiter' = "pending"
        /\ ready' = Append(q, Updater)
    BY <1>1, <1>3, <1>5 DEF Restart, PlacesOK, q
  <2>2. t \notin Queued'
    BY <1>2, <1>4, <2>1 DEF Queued
  <2>3. t \in Waiters' /\ Served'
    BY <1>1, <2>1, <2>2 DEF Waiters, Suspended, Served
  <2> QED  BY <2>1, <2>3 DEF WaitInv
<1>6. CASE RestartAndFail(t, b)
  <2>1. /\ pc'[t] = AfterCancel(t) /\ pc'[Updater] = "start" /\ waiter' = waiter
        /\ \A u \in Client : u # t => pc'[u] = pc[u]
    BY <1>1, <1>3, <1>6, ClientNames DEF RestartAndFail, PlacesOK
  <2>2. ready' = IF t = Retrier THEN Append(Append(q, Updater), Retrier)
                 ELSE Append(q, Updater)
    BY <1>4, <1>6, DoneCallbackType DEF RestartAndFail, q
  <2>3. \A u \in Client : u \in Queued' <=> u \in ToSet(q) \/ (u = t /\ t = Retrier)
    <3>1. CASE t = Retrier
      <4>1. ToSet(ready') = ToSet(Append(q, Updater)) \cup {Retrier}
        BY <1>4, <2>2, <3>1, AppendQueue, ClientNames
      <4> QED  BY <1>4, <3>1, <4>1 DEF Queued
    <3>2. CASE t # Retrier
      BY <1>4, <2>2, <3>2 DEF Queued
    <3> QED  BY <3>1, <3>2
  <2>4. pc'[t] # "waiter" /\ Served'
    BY <2>1 DEF AfterCancel, Served
  <2>5. t \notin Waiters
    BY RestKeeps DEF Waiters, Suspended
  <2>6. Waiters' = Waiters
    BY <1>2, <2>1, <2>3, <2>4, <2>5, SameWaiters
  <2> QED  BY <2>1, <2>4, <2>6 DEF WaitInv
<1>7. CASE GiveUp(t, b)
  <2>1. /\ pc'[t] = AfterReturn(t) /\ buffer' = NoValues
        /\ waiter' = IF waiter = "pending" THEN "none" ELSE waiter
        /\ \A u \in Client : u # t => pc'[u] = pc[u]
        /\ ready' \in Wake(q, IF waiter = "pending" THEN Waiters ELSE {})
    BY <1>1, <1>3, <1>7, ClientNames DEF GiveUp, PlacesOK, q, Waiters
  <2>2. Waiters \in SUBSET Task
    BY SuspendedType DEF Waiters
  <2>3. (IF waiter = "pending" THEN Waiters ELSE {}) = Waiters
    BY DEF WaitInv
  <2>4. ToSet(ready') = ToSet(q) \cup Waiters
    BY <1>2, <2>1, <2>2, <2>3, WakeAll
  <2>5. Waiters' = {}
    <3> SUFFICES ASSUME NEW u \in Waiters'  PROVE FALSE
      OBVIOUS
    <3>1. u \in Client /\ pc'[u] = "waiter" /\ u \notin ToSet(ready')
      BY TaskNames
         DEF Waiters, Suspended, Queued, PlacesOK, Place, UpdaterPlaces, Task, Client
    <3>2. u # t
      BY <2>1, <3>1 DEF AfterReturn
    <3>3. u \notin Queued /\ pc[u] = "waiter"
      BY <1>2, <2>1, <2>4, <3>1, <3>2
    <3> QED  BY <2>4, <3>1, <3>3, ClientNames DEF Waiters, Suspended
  <2> QED  BY <2>1, <2>5 DEF WaitInv
<1> QED  BY <1>5, <1>6, <1>7 DEF Rearm

LEMMA ProceedWait ==
  ASSUME SafeInv, WaitInv, PlacesOK(pc'), NEW t \in Client, ready # <<>>, Head(ready) = t,
         NEW b, Proceed(t, b), closed' = closed
  PROVE  WaitInv'
<1>1. CASE AwaitFinished(t, b)
  <2>1. /\ t \in Task /\ t # Updater /\ PlacesOK(pc)
    BY ClientNames, TypeParts DEF SafeInv
  <2>2. /\ ready' = Rest /\ pc'[t] = "finished" /\ waiter' = waiter
        /\ \A u \in Client : u # t => pc'[u] = pc[u]
        /\ pc'[Updater] = pc[Updater]
    BY <1>1, <2>1, ClientNames, TaskNames DEF AwaitFinished, PlacesOK
  <2>3. Served'
    BY <1>1, <2>2 DEF Served, SafeInv, LockInv, AwaitFinished
  <2>4. \A u \in Client : u \in Queued' <=> u \in ToSet(Rest) \cup {}
    BY <2>2 DEF Queued
  <2> QED  BY <2>2, <2>3, <2>4, HeadRuns
<1>2. CASE finished /\ Rearm(t, b)
  BY <1>2, RearmWait
<1> QED  BY <1>1, <1>2 DEF Proceed

LEMMA CallerWait ==
  ASSUME SafeInv, WaitInv, PlacesOK(pc'), NEW c \in Caller,
         AwaitState(c) \/ Store(c) \/ FailToStore(c) \/ Flush(c) \/ Submit(c)
  PROVE  WaitInv'
<1>0. /\ c \in Client /\ c \in Task /\ c # Updater /\ PlacesOK(pc) /\ Updater \in Task
      /\ ready \in Seq(Handle) /\ c \in Handle
  BY TypeParts, ClientNames, TaskNames DEF SafeInv, Client
<1>1. CASE AwaitState(c) \/ FailToStore(c)
  <2>1. /\ ready # <<>> /\ Head(ready) = c /\ ready' = Rest /\ waiter' = waiter
        /\ pc'[c] # "waiter" /\ pc'[Updater] = pc[Updater]
        /\ \A u \in Client : u # c => pc'[u] = pc[u]
        /\ buffer' = buffer /\ closed' = closed
    BY <1>0, <1>1, ClientNames DEF AwaitState, FailToStore, Runs, PlacesOK
  <2>2. Served => Served'
    BY <2>1 DEF Served
  <2>3. \A u \in Client : u \in Queued' <=> u \in ToSet(Rest) \cup {}
    BY <2>1 DEF Queued
  <2> QED  BY <2>1, <2>2, <2>3, HeadRuns
<1>2. CASE Store(c)
  BY <1>0, <1>2, ProceedWait DEF Store, Runs
<1>3. CASE Flush(c)
  BY <1>0, <1>3, ProceedWait DEF Flush, Runs
<1>4. CASE Submit(c)
  <2>1. /\ ready' = Append(ready, c) /\ waiter' = waiter
        /\ pc[c] = "idle" /\ pc'[c] = "start" /\ pc'[Updater] = pc[Updater]
        /\ \A u \in Client : u # c => pc'[u] = pc[u]
        /\ buffer' = buffer /\ closed' = closed
    BY <1>0, <1>4, ClientNames DEF Submit, PlacesOK
  <2>2. Queued' = Queued \cup {c}
    BY <1>0, <2>1, AppendQueue DEF Queued
  <2>3. c \notin Waiters
    BY <2>1 DEF Waiters, Suspended
  <2>4. Waiters' = Waiters
    BY <2>1, <2>2, <2>3, SameWaiters
  <2> QED  BY <2>1, <2>4, WaitKept DEF Served
<1> QED  BY <1>1, <1>2, <1>3, <1>4

LEMMA ClientWait ==
  ASSUME SafeInv, WaitInv, PlacesOK(pc'), NEW t \in Client, Resume(t) \/ Return(t) \/ Unwind(t)
  PROVE  WaitInv'
<1>0. /\ t \in Task /\ t # Updater /\ PlacesOK(pc) /\ Updater \in Task
      /\ TypeInv /\ QueueInv /\ LockInv
  BY TypeParts, ClientNames, TaskNames DEF SafeInv
<1>1. CASE Resume(t)
  <2>1. /\ ready # <<>> /\ Head(ready) = t /\ Rearm(t, buffer)
        /\ pc[t] = "finished" /\ t \notin thrown /\ closed' = closed
    BY <1>1 DEF Resume, Runs
  <2>2. t \in Woken
    BY <2>1, RestKeeps DEF Woken, Client
  <2>3. finished
    BY <1>0, <2>2 DEF LockInv
  <2> QED  BY <2>1, <2>3, RearmWait
<1>2. CASE Return(t) \/ Unwind(t)
  <2>1. /\ ready # <<>> /\ Head(ready) = t /\ waiter' = waiter
        /\ pc'[t] # "waiter" /\ pc'[Updater] = pc[Updater]
        /\ \A u \in Client : u # t => pc'[u] = pc[u]
        /\ buffer' = buffer /\ closed' = closed
    BY <1>0, <1>2, ClientNames
       DEF Return, Unwind, Runs, Unwinds, AfterReturn, AfterCancel, PlacesOK
  <2>2. ready' = Rest \/ (t = Retrier /\ ready' = Append(Rest, Retrier))
    BY <1>0, <1>2, <2>1, RestType, DoneCallbackType DEF Return, Unwind
  <2>3. ToSet(ready') = ToSet(Rest) \/ (t = Retrier /\ ToSet(ready') = ToSet(Rest) \cup {t})
    BY <1>0, <2>1, <2>2, RestType, AppendQueue, ClientNames
  <2>4. Served => Served'
    BY <2>1 DEF Served
  <2>5. CASE ToSet(ready') = ToSet(Rest)
    <3>1. \A u \in Client : u \in Queued' <=> u \in ToSet(Rest) \cup {}
      BY <2>5 DEF Queued
    <3> QED  BY <2>1, <2>4, <3>1, HeadRuns
  <2>6. CASE ToSet(ready') = ToSet(Rest) \cup {t}
    <3>1. \A u \in Client : u \in Queued' <=> u \in ToSet(Rest) \cup {t}
      BY <2>6 DEF Queued
    <3> QED  BY <2>1, <2>4, <3>1, HeadRuns
  <2> QED  BY <2>3, <2>5, <2>6
<1> QED  BY <1>1, <1>2

-----------------------------------------------------------------------------
(* The update task and the retry task.                                      *)

LEMMA RetrierWait ==
  ASSUME SafeInv, WaitInv, PlacesOK(pc'),
         StartRetry \/ StopRetrying \/ FailToCheck \/ Retry \/ Cleanup \/ BackoffElapses
  PROVE  WaitInv'
<1>0. /\ PlacesOK(pc) /\ TypeInv /\ ready \in Seq(Handle) /\ Updater \in Task
      /\ Retrier \in Task /\ Retrier \in Client /\ Retrier # Updater /\ Retrier \in Handle
  BY TypeParts, TaskNames DEF SafeInv, Client, Handle
<1>1. CASE StartRetry \/ Cleanup
  <2>1. /\ ready # <<>> /\ Head(ready) = Retrier /\ ready' = Rest /\ waiter' = waiter
        /\ pc'[Retrier] # "waiter" /\ pc'[Updater] = pc[Updater]
        /\ \A u \in Client : u # Retrier => pc'[u] = pc[u]
        /\ buffer' = buffer /\ closed' = closed
    BY <1>0, <1>1, ClientNames DEF StartRetry, Cleanup, Runs, PlacesOK
  <2>2. Served => Served'
    BY <2>1 DEF Served
  <2>3. \A u \in Client : u \in Queued' <=> u \in ToSet(Rest) \cup {}
    BY <2>1 DEF Queued
  <2> QED  BY <2>1, <2>2, <2>3, HeadRuns
<1>2. CASE StopRetrying \/ FailToCheck
  <2>1. /\ ready # <<>> /\ Head(ready) = Retrier /\ waiter' = waiter
        /\ ready' = Append(Rest, Retrier)
        /\ pc'[Retrier] = "ended" /\ pc'[Updater] = pc[Updater]
        /\ \A u \in Client : u # Retrier => pc'[u] = pc[u]
        /\ closed' = closed
        /\ buffer' = buffer \/ buffer' = Differing(buffer, state)
    BY <1>0, <1>2, ClientNames
       DEF StopRetrying, FailToCheck, EndRetry, Runs, PlacesOK
  <2>2. Differing(NoValues, state) = NoValues
    BY DEF Differing, NoValues
  <2>3. Served => Served'
    BY <2>1, <2>2 DEF Served
  <2>4. \A u \in Client : u \in Queued' <=> u \in ToSet(Rest) \cup {Retrier}
    BY <1>0, <2>1, RestType, AppendQueue DEF Queued
  <2> QED  BY <2>1, <2>3, <2>4, HeadRuns
<1>3. CASE Retry
  BY <1>0, <1>3, ProceedWait DEF Retry, Runs
<1>4. CASE BackoffElapses
  <2>1. /\ ready' = Append(ready, Retrier) /\ waiter' = waiter /\ pc' = pc
        /\ pc[Retrier] = "backoff" /\ buffer' = buffer /\ closed' = closed
    BY <1>4 DEF BackoffElapses, Suspended
  <2>2. Queued' = Queued \cup {Retrier}
    BY <1>0, <2>1, AppendQueue DEF Queued
  <2>3. Retrier \notin Waiters
    BY <2>1 DEF Waiters, Suspended
  <2>4. Waiters' = Waiters
    BY <2>1, <2>2, <2>3, SameWaiters
  <2> QED  BY <2>1, <2>4, WaitKept DEF Served
<1> QED  BY <1>1, <1>2, <1>3, <1>4

\* The call returns: all that await the future are woken.
LEMMA CompleteWait ==
  ASSUME SafeInv, WaitInv, PlacesOK(pc'), ready # <<>>, Head(ready) = Updater, Complete
  PROVE  WaitInv'
<1> DEFINE W == IF waiter = "pending" THEN Suspended("waiter") ELSE {}
<1>1. W = Waiters /\ Waiters \in SUBSET Task /\ Rest \in Seq(Handle)
  BY SuspendedType, RestKeeps DEF WaitInv, Waiters
<1>2. PICK queue \in Wake(Rest, W) :
        ready' \in Wake(IF StartsRetry THEN Append(queue, Retrier) ELSE queue,
                       Suspended("finished"))
  BY DEF Complete
<1> HIDE DEF W
<1>3. queue \in Seq(Handle) /\ ToSet(queue) = ToSet(Rest) \cup Waiters
  BY <1>1, <1>2, WakeAll
<1> DEFINE r == IF StartsRetry THEN Append(queue, Retrier) ELSE queue
<1>4. r \in Seq(Handle) /\ ToSet(queue) \subseteq ToSet(r)
  BY <1>3, AppendQueue, TaskNames DEF Handle
<1>5. ready' \in Wake(r, Suspended("finished")) /\ Suspended("finished") \in SUBSET Task
  BY <1>2, SuspendedType
<1> HIDE DEF r
<1>6. ToSet(Rest) \cup Waiters \subseteq ToSet(ready')
  BY <1>3, <1>4, <1>5, WakeAll
<1>7. \A u \in Client : pc'[u] = "waiter" => pc[u] = "waiter"
  BY TypeParts, ClientNames, TaskNames DEF Complete, PlacesOK, SafeInv
<1>8. Waiters' = {}
  <2> SUFFICES ASSUME NEW u \in Waiters'  PROVE FALSE
    OBVIOUS
  <2>1. u \in Client /\ pc'[u] = "waiter" /\ u \notin ToSet(ready')
    BY TaskNames
       DEF Waiters, Suspended, Queued, PlacesOK, Place, UpdaterPlaces, Task, Client
  <2>2. u \notin Queued /\ pc[u] = "waiter"
    BY <1>6, <1>7, <2>1, RestKeeps, ClientNames
  <2> QED  BY <1>6, <2>1, <2>2, ClientNames DEF Waiters, Suspended
<1> QED  BY <1>8 DEF WaitInv, Complete

LEMMA UpdaterWait ==
  ASSUME SafeInv, WaitInv, PlacesOK(pc'),
         \/ Delay \/ NothingToSend \/ Send \/ Sent \/ SendAtOnce \/ UnwindSend \/ Bury
         \/ DelayElapses \/ SendReturns
  PROVE  WaitInv'
<1>0. /\ PlacesOK(pc) /\ ready \in Seq(Handle) /\ TypeInv
      /\ Updater \in Task /\ Updater \in Handle /\ Updater \notin Client
      /\ Dead \notin Client /\ Unwinder \notin Client
  BY TypeParts, TaskNames, ClientNames DEF SafeInv, Handle
<1>1. CASE Delay \/ NothingToSend \/ Send
  <2>1. /\ ready # <<>> /\ Head(ready) = Updater /\ ready' = Rest /\ waiter' = waiter
        /\ \A u \in Client : pc'[u] = pc[u]
        /\ buffer' = buffer /\ closed' = closed
        /\ buffer = NoValues \/ pc'[Updater] # "idle"
    BY <1>0, <1>1, ClientNames DEF Delay, NothingToSend, Send, SendsNow, Runs, PlacesOK
  <2>2. Served => Served'
    BY <2>1 DEF Served
  <2>3. \A u \in Client : u \in Queued' <=> u \in ToSet(Rest) \cup {}
    BY <2>1 DEF Queued
  <2> QED  BY <1>0, <2>1, <2>2, <2>3, HeadRuns
<1>2. CASE Sent \/ SendAtOnce
  BY <1>2, CompleteWait DEF Sent, SendAtOnce, SendsNow, Runs
<1>3. CASE UnwindSend
  <2>1. \A u \in Task : pc'[u] = "waiter" => pc[u] = "waiter" /\ u \notin Waiters
    BY <1>3 DEF UnwindSend, Waiters
  <2>2. /\ ready # <<>> /\ Head(ready) = Unwinder
        /\ ready' \in Wake(Rest, Suspended("finished"))
    BY <1>3 DEF UnwindSend, Runs
  <2>3. ToSet(Rest) \subseteq Queued'
    BY <2>2, RestKeeps, WakeAll, SuspendedType DEF Queued
  <2>4. Waiters' = {}
    <3> SUFFICES ASSUME NEW u \in Waiters'  PROVE FALSE
      OBVIOUS
    <3>1. u \in Client /\ u \in Task /\ pc'[u] = "waiter" /\ u \notin Queued'
      BY TaskNames
         DEF Waiters, Suspended, PlacesOK, Place, UpdaterPlaces, Task, Client
    <3>2. u \in Queued /\ u # Unwinder
      BY <1>0, <2>1, <3>1 DEF Waiters, Suspended
    <3> QED  BY <2>2, <2>3, <3>1, <3>2, RestKeeps
  <2> QED  BY <1>3, <2>4 DEF WaitInv, UnwindSend
<1>4. CASE Bury
  <2>1. /\ ready # <<>> /\ Head(ready) = Dead /\ ready' = Rest /\ pc' = pc
        /\ waiter' = waiter /\ buffer' = buffer /\ closed' = closed
    BY <1>4 DEF Bury
  <2>2. \A u \in Client : u \in Queued' <=> u \in ToSet(Rest) \cup {}
    BY <2>1 DEF Queued
  <2>3. Served => Served'
    BY <2>1 DEF Served
  <2> QED  BY <1>0, <2>1, <2>2, <2>3, HeadRuns
<1>5. CASE DelayElapses \/ SendReturns
  <2>1. /\ ready' = Append(ready, Updater) /\ waiter' = waiter /\ pc' = pc
        /\ buffer' = buffer /\ closed' = closed
        /\ pc[Updater] \in {"delay", "sending"}
    BY <1>5 DEF DelayElapses, SendReturns, Suspended
  <2>2. Queued' = Queued \cup {Updater}
    BY <1>0, <2>1, AppendQueue DEF Queued
  <2>3. Updater \notin Waiters
    BY <2>1 DEF Waiters, Suspended
  <2>4. Waiters' = Waiters
    BY <2>1, <2>2, <2>3, SameWaiters
  <2> QED  BY <2>1, <2>4, WaitKept DEF Served
<1> QED  BY <1>1, <1>2, <1>3, <1>4, <1>5

-----------------------------------------------------------------------------
(* What happens outside the coroutines.                                     *)

\* To cancel one that awaits the future wakes all that do.
LEMMA CancelWait ==
  ASSUME SafeInv, WaitInv, PlacesOK(pc'), NEW S \in SUBSET Client, NEW q \in Seq(Handle),
         Cancel(S, q), ToSet(q) \cap Client = Queued \cap Client,
         \A u \in Client : pc'[u] = pc[u],
         Served => Served'
  PROVE  WaitInv'
<1> DEFINE shared == S \cap Waiters # {}
           hit == IF shared THEN S \cup Waiters ELSE S
<1>1. /\ waiter' = IF shared THEN "cancelled" ELSE waiter
      /\ ready' \in Wake(q, hit \ Queued)
  BY DEF Cancel, Waiters
<1>2. Waiters \subseteq Client /\ hit \ Queued \in SUBSET Task
  BY SuspendedNames, ClientNames DEF SafeInv, Waiters
<1>3. ToSet(ready') = ToSet(q) \cup (hit \ Queued)
  BY <1>1, <1>2, WakeAll
<1>4. CASE shared
  <2>1. Waiters' = {}
    <3> SUFFICES ASSUME NEW u \in Waiters'  PROVE FALSE
      OBVIOUS
    <3>1. u \in Client /\ pc'[u] = "waiter" /\ u \notin ToSet(ready')
      BY TaskNames
         DEF Waiters, Suspended, Queued, PlacesOK, Place, UpdaterPlaces, Task, Client
    <3>2. u \notin Queued /\ pc[u] = "waiter"
      BY <1>3, <3>1
    <3> QED  BY <1>3, <1>4, <3>1, <3>2, ClientNames DEF Waiters, Suspended
  <2> QED  BY <1>1, <1>4, <2>1 DEF WaitInv
<1>5. CASE ~shared
  <2>1. \A u \in Client : pc[u] = "waiter" => (u \in Queued' <=> u \in Queued)
    BY <1>3, <1>5, ClientNames DEF Waiters, Suspended, Queued
  <2>2. Dead \notin Waiters /\ Dead \notin Client
    BY <1>2, ClientNames
  <2>3. Waiters' = Waiters
    BY <2>1, <2>2, SameWaiters
  <2> QED  BY <1>1, <1>5, <2>3, WaitKept
<1> QED  BY <1>4, <1>5

LEMMA OutsideWait ==
  ASSUME SafeInv, WaitInv, PlacesOK(pc'),
         Report \/ Close \/ \E c \in Caller : Timeout(c)
  PROVE  WaitInv'
<1>0. PlacesOK(pc) /\ ready \in Seq(Handle) /\ Dead \notin Client /\ Dead \notin Task
  BY TypeParts, ClientNames, TaskNames DEF SafeInv
<1>1. CASE Report
  <2>1. /\ ready' \in Wake(ready, Suspended("state")) /\ waiter' = waiter /\ pc' = pc
        /\ buffer' = buffer /\ closed' = closed
    BY <1>1 DEF Report
  <2>2. Queued' = Queued \cup Suspended("state")
    BY <1>0, <2>1, WakeAll, SuspendedType DEF Queued
  <2>3. \A u \in Client : pc[u] = "waiter" => (u \in Queued' <=> u \in Queued)
    BY <2>2 DEF Suspended
  <2>4. Waiters' = Waiters
    BY <1>0, <2>1, <2>3, SameWaiters DEF Waiters, Suspended
  <2> QED  BY <2>1, <2>4, WaitKept DEF Served
<1>2. CASE Close
  <2>1. PICK S \in SUBSET Client : Cancel(S, CancelledQueue(ready))
    <3>1. {} \in SUBSET Client /\ {Retrier} \in SUBSET Client
      BY DEF Client
    <3> QED  BY <1>2, <3>1 DEF Close
  <2>2. /\ \A u \in Client : pc'[u] = pc[u]
        /\ Served'
    BY <1>0, <1>2, ClientNames DEF Close, CancelledPlaces, PlacesOK, Served
  <2>3. /\ CancelledQueue(ready) \in Seq(Handle)
        /\ ToSet(CancelledQueue(ready)) \cap Client = Queued \cap Client
    BY <1>0, CancelledKeeps DEF Queued
  <2> QED  BY <2>1, <2>2, <2>3, CancelWait
<1>3. ASSUME NEW c \in Caller, Timeout(c)  PROVE WaitInv'
  <2>1. {c} \in SUBSET Client /\ Cancel({c}, ready) /\ pc' = pc
    BY <1>3 DEF Timeout, Client
  <2>2. Served => Served'
    BY <1>3 DEF Timeout, Served
  <2> QED  BY <1>0, <2>1, <2>2, CancelWait DEF Queued
<1> QED  BY <1>1, <1>2, <1>3

-----------------------------------------------------------------------------

LEMMA WaitInvariant == Spec => []WaitInv
<1>1. Init => WaitInv
  BY TaskNames DEF Init, WaitInv, Waiters, Suspended
<1>2. SafeInv /\ WaitInv /\ [Next]_vars => WaitInv'
  <2> SUFFICES ASSUME SafeInv, WaitInv, [Next]_vars PROVE WaitInv'
    OBVIOUS
  <2>1. TypeInv'
    BY StepType DEF SafeInv
  <2>2. PlacesOK(pc')
    BY <2>1, TaskNames DEF TypeInv, TypeOK, PlacesOK, Place, Task
  <2>3. ASSUME NEW c \in Caller,
               AwaitState(c) \/ Store(c) \/ FailToStore(c) \/ Flush(c) \/ Submit(c)
        PROVE  WaitInv'
    BY <2>2, <2>3, CallerWait
  <2>4. ASSUME NEW t \in Caller \cup {Retrier}, Resume(t) \/ Return(t) \/ Unwind(t)
        PROVE  WaitInv'
    BY <2>2, <2>4, ClientWait DEF Client
  <2>5. ASSUME \/ Delay \/ NothingToSend \/ Send \/ Sent \/ SendAtOnce \/ UnwindSend
               \/ Bury \/ DelayElapses \/ SendReturns
        PROVE  WaitInv'
    BY <2>2, <2>5, UpdaterWait
  <2>6. ASSUME StartRetry \/ StopRetrying \/ FailToCheck \/ Retry \/ Cleanup \/ BackoffElapses
        PROVE  WaitInv'
    BY <2>2, <2>6, RetrierWait
  <2>7. ASSUME Report \/ Close \/ \E c \in Caller : Timeout(c)  PROVE WaitInv'
    BY <2>2, <2>7, OutsideWait
  <2>8. CASE UNCHANGED vars
    BY <2>8 DEF vars, WaitInv, Waiters, Served, Suspended, Queued
  <2> QED  BY <2>3, <2>4, <2>5, <2>6, <2>7, <2>8 DEF Next, LoopStep
<1> QED  BY <1>1, <1>2, SafeInvariant, PTL DEF Spec

(* Whoever awaits the shared future while there is something to send has an  *)
(* update task that will resolve it, until close() (buffer.py, lines 64 to   *)
(* 103): whatever the commands, the timeouts and the retries.                *)
THEOREM WaitersAreServed == Spec => []WaitingIsServed
<1>1. WaitInv => WaitingIsServed
  BY DEF WaitInv, Waiters, Served, WaitingIsServed
<1> QED  BY <1>1, WaitInvariant, PTL

(* The future that update() shares is dropped only once it is resolved or    *)
(* cancelled: nobody awaits one that is not there, and a pending one is      *)
(* awaited (buffer.py, lines 65 to 69 and 93 to 103).                        *)
THEOREM WaitersHaveTheirFuture == Spec => []WaitersHaveFuture
<1>1. WaitInv => WaitersHaveFuture
  BY DEF WaitInv, Waiters, WaitersHaveFuture
<1> QED  BY <1>1, WaitInvariant, PTL
=============================================================================
