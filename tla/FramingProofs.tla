---------------------------- MODULE FramingProofs ----------------------------
(***************************************************************************)
(* What unpack accepts is one message, whole, however the network cuts and *)
(* loses, and only a message that was cut misleads it: theorems on Framing *)
(* for any header and any messages.                                        *)
(***************************************************************************)
EXTENDS Framing, WellFoundedInduction, TLAPS

Piece == {u \in Unit : u.place \in 1..(Header + u.message.length)}
Pieces == Piece \cup {Reset}

Kinds ==
  /\ link \in {"up", "down"}
  /\ wire \in Seq(Piece) /\ buffer \in Seq(Pieces)
  /\ expected \in Message \cup {NoMessage}
  /\ expected # NoMessage => expected.length # 0

Left(u) == Header + u.message.length - u.place
\* No link ends from i to j.
OneLink(s, i, j) == \A h \in i..j : s[h].place # 0

\* A unit is followed by those of its message, while the link lasts.
Chained(s) ==
  \A i, j \in 1..Len(s) :
    i <= j /\ OneLink(s, i, j) /\ j - i <= Left(s[i])
      => s[j].message = s[i].message /\ s[j].place = s[i].place + (j - i)
\* All of them are there.
Whole(s) ==
  \A i \in 1..Len(s) : OneLink(s, i, Len(s)) => i + Left(s[i]) <= Len(s)
\* The payload of m comes first.
Payload(s, m) ==
  m # NoMessage =>
    \A j \in 1..Len(s) : j <= m.length /\ OneLink(s, 1, j)
      => s[j].message = m /\ s[j].place = Header + j
WholePayload(s, m) ==
  m # NoMessage /\ OneLink(s, 1, Len(s)) => m.length <= Len(s)

Stream == buffer \o wire

StreamInv ==
  /\ Chained(Stream) /\ Payload(Stream, expected)
  /\ link = "up" => Whole(Stream) /\ WholePayload(Stream, expected)
  /\ link = "down" => wire = <<>>

\* Behind the end of a message, or of a link, another begins.
Follows(s) ==
  \A i \in 1..(Len(s) - 1) :
    s[i].place = 0 \/ Left(s[i]) = 0 => s[i + 1].place \in {0, 1}
\* What arrived ends with the end of a message or with a unit that was cut,
\* on the link and on those before it.
EndsCut(s) ==
  \A i \in 1..Len(s) :
    i = Len(s) \/ s[i + 1].place = 0 => s[i].place = 0 \/ Left(s[i]) = 0 \/ s[i].cut
\* A header is awaited where one begins.
AtStart ==
  ~misled /\ expected = NoMessage /\ Stream # <<>> => Stream[1].place \in {0, 1}

GuideInv == Follows(Stream) /\ EndsCut(buffer) /\ AtStart

-----------------------------------------------------------------------------
(* Units.                                                                   *)

LEMMA Resets ==
  /\ Reset.place = 0 /\ NoMessage \notin Message /\ Reset \notin Piece
  /\ \A u \in Pieces : u.place = 0 <=> u = Reset
  /\ \A u \in Piece : /\ u.message \in Message /\ u.place \in Nat
                      /\ u.place >= 1 /\ Left(u) \in Nat
  /\ \A u \in Pieces : u.place \in Nat /\ Left(u) \in Int
<1>1. NoMessage \notin Message /\ \A m \in Message : m.length \in Nat
  BY MessageAssumption
<1> QED  BY <1>1, HeaderAssumption DEF Reset, NoMessage, Piece, Pieces, Unit, Left

LEMMA UnitsOf ==
  ASSUME NEW m \in Message
  PROVE  /\ Units(m) \in Seq(Piece)
         /\ Len(Units(m)) = Header + m.length
         /\ \A i \in 1..(Header + m.length) :
              Units(m)[i].message = m /\ Units(m)[i].place = i
<1>1. m.length \in Nat /\ Header + m.length \in Nat
  BY MessageAssumption, HeaderAssumption
<1> DEFINE u(i) == [message |-> m, place |-> i, cut |-> FALSE]
<1>2. \A i \in 1..(Header + m.length) :
        u(i) \in Piece /\ u(i).message = m /\ u(i).place = i
  BY <1>1 DEF Piece, Unit
<1>3. Units(m) = [i \in 1..(Header + m.length) |-> u(i)]
  BY DEF Units
<1> HIDE DEF u
<1>4. Units(m) \in Seq(Piece) /\ Len(Units(m)) = Header + m.length
  BY <1>1, <1>2, <1>3
<1> QED  BY <1>2, <1>3, <1>4

-----------------------------------------------------------------------------
(* What happens to a stream.                                                *)

LEMMA Shifted ==
  ASSUME NEW s \in Seq(Pieces), NEW t \in Seq(Pieces), NEW k \in Nat,
         Len(s) = Len(t) + k, \A i \in 1..Len(t) : t[i] = s[i + k], Chained(s)
  PROVE  /\ Chained(t)
         /\ Whole(s) => Whole(t)
<1>1. ASSUME NEW i \in 1..Len(t), NEW j \in 1..Len(t), OneLink(t, i, j)
      PROVE  OneLink(s, i + k, j + k)
  <2>1. \A h \in (i + k)..(j + k) : h - k \in i..j /\ h - k \in 1..Len(t) /\ t[h - k] = s[h]
    OBVIOUS
  <2> QED  BY <1>1, <2>1 DEF OneLink
<1>2. Chained(t)
  <2> SUFFICES ASSUME NEW i \in 1..Len(t), NEW j \in 1..Len(t), i <= j,
                      OneLink(t, i, j), j - i <= Left(t[i])
               PROVE  t[j].message = t[i].message /\ t[j].place = t[i].place + (j - i)
    BY DEF Chained
  <2>1. i + k \in 1..Len(s) /\ j + k \in 1..Len(s) /\ i + k <= j + k
        /\ (j + k) - (i + k) = j - i
    OBVIOUS
  <2>2. OneLink(s, i + k, j + k) /\ s[i + k] = t[i] /\ s[j + k] = t[j]
    BY <1>1
  <2> DEFINE a == i + k
             b == j + k
  <2>3. a \in 1..Len(s) /\ b \in 1..Len(s) /\ a <= b /\ OneLink(s, a, b)
        /\ b - a <= Left(s[a])
    BY <2>1, <2>2
  <2> HIDE DEF a, b
  <2>4. s[b].message = s[a].message /\ s[b].place = s[a].place + (b - a)
    BY <2>3, Chained(s) DEF Chained
  <2> QED  BY <2>1, <2>2, <2>4 DEF a, b
<1>3. ASSUME Whole(s)  PROVE Whole(t)
  <2> SUFFICES ASSUME NEW i \in 1..Len(t), OneLink(t, i, Len(t))
               PROVE  i + Left(t[i]) <= Len(t)
    BY DEF Whole
  <2>1. i + k \in 1..Len(s) /\ Len(t) \in 1..Len(t) /\ t[i] \in Pieces
    OBVIOUS
  <2>2. OneLink(s, i + k, Len(s)) /\ s[i + k] = t[i]
    BY <1>1, <2>1
  <2>3. i + k + Left(s[i + k]) <= Len(s)
    BY <1>3, <2>1, <2>2 DEF Whole
  <2>4. Left(t[i]) \in Int /\ Len(t) \in Nat /\ Len(s) = Len(t) + k
    BY <2>1, Resets
  <2>5. i + k + Left(t[i]) <= Len(t) + k
    BY <2>2, <2>3, <2>4
  <2> QED  BY <2>4, <2>5
<1> QED  BY <1>2, <1>3

LEMMA Shortened ==
  ASSUME NEW s \in Seq(Pieces), NEW t \in Seq(Pieces), NEW m,
         Len(t) <= Len(s), \A i \in 1..Len(t) : t[i] = s[i],
         Chained(s), Payload(s, m)
  PROVE  Chained(t) /\ Payload(t, m)
<1>1. \A i, j \in 1..Len(t) : OneLink(t, i, j) => OneLink(s, i, j)
  BY DEF OneLink
<1>2. \A i \in 1..Len(t) : i \in 1..Len(s)
  OBVIOUS
<1>3. Chained(t)
  BY <1>1, <1>2 DEF Chained
<1>4. Payload(t, m)
  <2>1. Len(t) > 0 => 1 \in 1..Len(t)
    OBVIOUS
  <2> QED  BY <1>1, <1>2, <2>1 DEF Payload
<1> QED  BY <1>3, <1>4

\* The places and the messages are what counts.
LEMMA SamePlaces ==
  ASSUME NEW s \in Seq(Pieces), NEW t \in Seq(Pieces), NEW m, Len(t) = Len(s),
         \A i \in 1..Len(s) : t[i].place = s[i].place /\ t[i].message = s[i].message
  PROVE  /\ Chained(s) => Chained(t)
         /\ Payload(s, m) => Payload(t, m)
         /\ Whole(s) => Whole(t)
         /\ WholePayload(s, m) => WholePayload(t, m)
<1>1. \A i, j \in 1..Len(s) : OneLink(t, i, j) => OneLink(s, i, j)
  BY DEF OneLink
<1>2. \A i \in 1..Len(s) : Left(t[i]) = Left(s[i])
  BY DEF Left
<1>3. OneLink(t, 1, Len(s)) => OneLink(s, 1, Len(s))
  BY DEF OneLink
<1>4. \A i \in 1..Len(s) : 1 \in 1..Len(s) /\ Len(s) \in 1..Len(s)
  OBVIOUS
<1>5. Chained(s) => Chained(t)
  BY <1>1, <1>2 DEF Chained
<1>6. Payload(s, m) => Payload(t, m)
  BY <1>1, <1>4 DEF Payload
<1>7. Whole(s) => Whole(t)
  BY <1>1, <1>2, <1>4 DEF Whole
<1>8. WholePayload(s, m) => WholePayload(t, m)
  BY <1>3 DEF WholePayload
<1> QED  BY <1>5, <1>6, <1>7, <1>8

LEMMA Reconnected ==
  ASSUME NEW s \in Seq(Pieces), NEW m, Chained(s), Payload(s, m)
  PROVE  LET t == Append(s, Reset)
         IN  Chained(t) /\ Payload(t, m) /\ Whole(t) /\ WholePayload(t, m)
<1> DEFINE t == Append(s, Reset)
           n == Len(s) + 1
<1>1. t \in Seq(Pieces) /\ Len(t) = n /\ t[n].place = 0
      /\ \A i \in 1..Len(s) : t[i] = s[i]
  BY Resets DEF Pieces
<1>2. \A i, j \in 1..n : OneLink(t, i, j) /\ i <= j => j \in 1..Len(s) /\ OneLink(s, i, j)
  BY <1>1 DEF OneLink
<1>3. \A i \in 1..n : ~OneLink(t, i, Len(t))
  BY <1>1 DEF OneLink
<1>4. ~OneLink(t, 1, Len(t)) /\ Len(s) \in Nat
  BY <1>1 DEF OneLink
<1> HIDE DEF t, n
<1>5. Chained(t)
  <2> SUFFICES ASSUME NEW i \in 1..n, NEW j \in 1..n, i <= j,
                      OneLink(t, i, j), j - i <= Left(t[i])
               PROVE  t[j].message = t[i].message /\ t[j].place = t[i].place + (j - i)
    BY <1>1 DEF Chained
  <2>1. j \in 1..Len(s) /\ OneLink(s, i, j)
    BY <1>2
  <2>2. i \in 1..Len(s) /\ t[i] = s[i] /\ t[j] = s[j]
    BY <1>1, <1>4, <2>1
  <2> QED  BY <2>1, <2>2 DEF Chained
<1>6. Payload(t, m)
  <2> SUFFICES ASSUME m # NoMessage, NEW j \in 1..n, j <= m.length, OneLink(t, 1, j)
               PROVE  t[j].message = m /\ t[j].place = Header + j
    BY <1>1 DEF Payload
  <2>1. 1 \in 1..n /\ 1 <= j
    BY <1>4 DEF n
  <2>2. j \in 1..Len(s) /\ OneLink(s, 1, j)
    BY <1>2, <2>1
  <2> QED  BY <1>1, <2>2 DEF Payload
<1>7. Whole(t) /\ WholePayload(t, m)
  BY <1>1, <1>3, <1>4 DEF Whole, WholePayload
<1> QED  BY <1>5, <1>6, <1>7 DEF t

LEMMA Continued ==
  ASSUME NEW s \in Seq(Pieces), NEW e \in Message \cup {NoMessage}, NEW m \in Message,
         Chained(s), Payload(s, e), Whole(s), WholePayload(s, e)
  PROVE  LET t == s \o Units(m)
         IN  Chained(t) /\ Payload(t, e) /\ Whole(t) /\ WholePayload(t, e)
<1> DEFINE t == s \o Units(m)
           l == Header + m.length
           n == Len(s)
<1>1. l \in Nat /\ l > 0 /\ n \in Nat
  BY HeaderAssumption, MessageAssumption
<1>2. /\ t \in Seq(Pieces) /\ Len(t) = n + l
      /\ \A i \in 1..n : t[i] = s[i]
      /\ \A i \in (n + 1)..(n + l) : t[i].message = m /\ t[i].place = i - n
  <2> DEFINE q == Units(m)
  <2>1. /\ q \in Seq(Pieces) /\ Len(q) = l
        /\ \A i \in 1..l : q[i].message = m /\ q[i].place = i
    BY UnitsOf DEF Pieces
  <2> HIDE DEF q, l
  <2>2. s \o q \in Seq(Pieces) /\ Len(s \o q) = n + l
        /\ \A i \in 1..n : (s \o q)[i] = s[i]
    BY <1>1, <2>1
  <2>3. \A i \in (n + 1)..(n + l) : (s \o q)[i] = q[i - n] /\ i - n \in 1..l
    BY <1>1, <2>1
  <2> QED  BY <2>1, <2>2, <2>3 DEF q
<1> HIDE DEF t, l, n
<1>3. ASSUME NEW i \in 1..(n + l), NEW j \in i..n, OneLink(t, i, j)
      PROVE  OneLink(s, i, j)
  BY <1>1, <1>2, <1>3 DEF OneLink
<1>4. \A i \in 1..n, j \in (n + 1)..(n + l) : OneLink(t, i, j) => OneLink(t, i, n)
  BY <1>1 DEF OneLink
<1>5. \A u \in Pieces : Left(u) \in Int
  BY Resets, HeaderAssumption DEF Left, Pieces, Reset, NoMessage
<1>6. \A i \in (n + 1)..(n + l) : Left(t[i]) = n + l - i
  <2>1. m.length \in Nat /\ Header \in Nat
    BY HeaderAssumption, MessageAssumption
  <2>2. \A i \in (n + 1)..(n + l) : Left(t[i]) = Header + m.length - (i - n)
    BY <1>2 DEF Left
  <2> QED  BY <1>1, <2>1, <2>2, SMTT(40) DEF l
<1>7. Chained(t)
  <2> SUFFICES ASSUME NEW i \in 1..(n + l), NEW j \in 1..(n + l), i <= j,
                      OneLink(t, i, j), j - i <= Left(t[i])
               PROVE  t[j].message = t[i].message /\ t[j].place = t[i].place + (j - i)
    BY <1>2 DEF Chained
  <2>1. CASE i > n
    BY <1>1, <1>2, <2>1
  <2>2. CASE j <= n
    BY <1>1, <1>2, <1>3, <2>2 DEF Chained, n
  <2>3. CASE i <= n /\ j > n
    <3>1. OneLink(s, i, n)
      BY <1>1, <1>3, <1>4, <2>3
    <3>2. i + Left(s[i]) <= n
      BY <1>1, <2>3, <3>1 DEF Whole, n
    <3> QED  BY <1>1, <1>2, <1>5, <2>3, <3>2
  <2> QED  BY <1>1, <2>1, <2>2, <2>3
<1>8. Whole(t)
  <2> SUFFICES ASSUME NEW i \in 1..(n + l), OneLink(t, i, n + l)
               PROVE  i + Left(t[i]) <= n + l
    BY <1>2 DEF Whole
  <2>1. CASE i > n
    BY <1>1, <1>6, <2>1
  <2>2. CASE i <= n
    <3>1. OneLink(s, i, n)
      BY <1>1, <1>3, <1>4, <2>2
    <3>2. i + Left(s[i]) <= n
      BY <1>1, <2>2, <3>1 DEF Whole, n
    <3> QED  BY <1>1, <1>2, <1>5, <2>2, <3>2
  <2> QED  BY <1>1, <2>1, <2>2
<1>9. OneLink(t, 1, n) => OneLink(s, 1, n)
  BY <1>1, <1>2 DEF OneLink
<1>10. e # NoMessage => e.length \in Nat
  BY MessageAssumption
<1>11. \A j \in (n + 1)..(n + l) : OneLink(t, 1, j) => OneLink(t, 1, n)
  BY <1>1 DEF OneLink
<1>12. Payload(t, e)
  <2> SUFFICES ASSUME e # NoMessage, NEW j \in 1..(n + l), j <= e.length, OneLink(t, 1, j)
               PROVE  t[j].message = e /\ t[j].place = Header + j
    BY <1>2 DEF Payload
  <2>1. CASE j <= n
    BY <1>1, <1>2, <1>3, <2>1 DEF Payload, n
  <2>2. CASE j > n
    BY <1>1, <1>9, <1>10, <1>11, <2>2 DEF WholePayload, n
  <2> QED  BY <1>1, <2>1, <2>2
<1>13. WholePayload(t, e)
  <2>1. OneLink(t, 1, n + l) => OneLink(t, 1, n)
    BY <1>1 DEF OneLink
  <2> QED  BY <1>1, <1>2, <1>9, <1>10, <2>1 DEF WholePayload, n
<1> QED  BY <1>7, <1>8, <1>12, <1>13 DEF t

-----------------------------------------------------------------------------
(* Reads.                                                                   *)

LEMMA Least ==
  ASSUME NEW T \in SUBSET Nat, T # {}
  PROVE  Min(T) \in T /\ \A y \in T : Min(T) <= y
<1>1. \E x \in T : \A y \in T : <<y, x>> \notin OpToRel(<, Nat)
  BY NatLessThanWellFounded, WFMin
<1>2. \A x, y \in T : <<y, x>> \notin OpToRel(<, Nat) => x <= y
  BY DEF OpToRel
<1>3. \E x \in T : \A y \in T : x <= y
  BY <1>1, <1>2
<1> QED  BY <1>3 DEF Min

LEMMA DataRead ==
  ASSUME Kinds, NEW n \in Nat
  PROVE  /\ Data(n) \in Seq(Pieces)
         /\ Len(Data(n)) <= Len(buffer) /\ Len(Data(n)) <= n
         /\ \A i \in 1..Len(Data(n)) : Data(n)[i] = buffer[i] /\ buffer[i].place # 0
         /\ \/ Len(Data(n)) = n \/ Len(Data(n)) = Len(buffer)
            \/ buffer[Len(Data(n)) + 1].place = 0
         /\ Available > 0 /\ n > 0 => Len(Data(n)) > 0
<1> DEFINE I == {i \in 1..Len(buffer) : buffer[i] = Reset}
<1>1. buffer \in Seq(Pieces) /\ Len(buffer) \in Nat
  BY DEF Kinds
<1>2. Available = IF (IF I # {} THEN Min(I) ELSE 0) = 0 THEN Len(buffer)
                  ELSE (IF I # {} THEN Min(I) ELSE 0) - 1
  BY DEF Available, SelectInSeq
<1>3. I # {} => Min(I) \in I /\ \A i \in I : Min(I) <= i
  <2>1. I \in SUBSET Nat
    BY <1>1
  <2> HIDE DEF I
  <2> QED  BY <2>1, Least
<1>4. /\ Available \in 0..Len(buffer) /\ \A i \in 1..Available : buffer[i] # Reset
      /\ Available = Len(buffer) \/ buffer[Available + 1] = Reset
  <2> DEFINE first == Min(I)
  <2> HIDE DEF first
  <2>1. CASE I = {}
    BY <1>1, <1>2, <2>1
  <2>2. CASE I # {}
    <3>1. first \in 1..Len(buffer) /\ \A i \in I : first <= i
      BY <1>3, <2>2 DEF first
    <3>2. Available = first - 1
      BY <1>1, <1>2, <2>2, <3>1 DEF first
    <3>3. buffer[first] = Reset
      BY <1>3, <2>2 DEF first
    <3> QED  BY <1>1, <3>1, <3>2, <3>3
  <2> QED  BY <2>1, <2>2
<1> HIDE DEF I
<1> DEFINE k == IF n <= Available THEN n ELSE Available
<1>5. /\ k \in 0..Len(buffer) /\ k <= n /\ k <= Available
      /\ k = n \/ k = Available
      /\ Available > 0 /\ n > 0 => k > 0
  BY <1>1, <1>4
<1>6. Data(n) = SubSeq(buffer, 1, k)
  BY DEF Data
<1> HIDE DEF k
<1>7. /\ SubSeq(buffer, 1, k) \in Seq(Pieces) /\ Len(SubSeq(buffer, 1, k)) = k
      /\ \A i \in 1..k : SubSeq(buffer, 1, k)[i] = buffer[i]
  BY <1>1, <1>5
<1>8. \A i \in 1..k : buffer[i] \in Pieces /\ buffer[i] # Reset
  BY <1>1, <1>4, <1>5
<1>9. k = n \/ k = Len(buffer) \/ buffer[k + 1].place = 0
  BY <1>4, <1>5, Resets
<1>10. \A i \in 1..k : buffer[i].place # 0
  BY <1>8, Resets
<1> QED  BY <1>1, <1>5, <1>6, <1>7, <1>9, <1>10

LEMMA StreamIs ==
  ASSUME Kinds
  PROVE  /\ Stream \in Seq(Pieces) /\ Len(Stream) = Len(buffer) + Len(wire)
         /\ Len(buffer) \in Nat /\ Len(wire) \in Nat
         /\ \A i \in 1..Len(buffer) : Stream[i] = buffer[i]
         /\ \A i \in 1..Len(wire) : Stream[Len(buffer) + i] = wire[i]
<1>1. buffer \in Seq(Pieces) /\ wire \in Seq(Pieces)
  BY DEF Kinds, Pieces
<1> QED  BY <1>1 DEF Stream

\* What arrives leaves the stream as it is, but for the unit that is cut.
LEMMA Arrived ==
  ASSUME Kinds, Arrive
  PROVE  /\ Kinds' /\ Len(wire) > 0 /\ Stream \in Seq(Pieces) /\ Stream' \in Seq(Pieces)
         /\ Len(Stream') = Len(Stream) /\ Len(Stream) > 0
         /\ \A i \in 1..Len(Stream) :
              Stream'[i].place = Stream[i].place /\ Stream'[i].message = Stream[i].message
         /\ EndsCut(buffer) => EndsCut(buffer')
<1>2. PICK k \in 1..Len(wire) :
        /\ buffer' = buffer \o SubSeq(wire, 1, k - 1) \o
               <<[wire[k] EXCEPT !.cut = ~(wire[k].place = Header + wire[k].message.length)]>>
        /\ wire' = SubSeq(wire, k + 1, Len(wire))
  BY DEF Arrive
<1> DEFINE c == ~(wire[k].place = Header + wire[k].message.length)
           u == [wire[k] EXCEPT !.cut = c]
           b == buffer
           n == Len(b)
           q == SubSeq(wire, 1, k - 1)
           r == SubSeq(wire, k + 1, Len(wire))
           d == Append(b \o q, u)
           s == Stream
           t == d \o r
<1>3. b \in Seq(Pieces) /\ wire \in Seq(Piece) /\ wire \in Seq(Pieces) /\ n \in Nat
      /\ Len(wire) \in Nat /\ k \in Nat /\ k >= 1 /\ k <= Len(wire)
  BY DEF Kinds, Pieces
<1>4. wire[k] \in Piece /\ c \in BOOLEAN
  BY <1>3
<1>5. u \in Pieces /\ u.place = wire[k].place /\ u.message = wire[k].message /\ u.cut = c
  <2>1. u \in Piece /\ u.place = wire[k].place /\ u.message = wire[k].message /\ u.cut = c
    BY <1>4 DEF Piece, Unit
  <2> QED  BY <2>1 DEF Pieces
<1>6. Left(u) = 0 \/ u.cut
  <2>1. /\ wire[k].place \in Nat /\ wire[k].message.length \in Nat /\ Header \in Nat
    BY <1>4, Resets, HeaderAssumption, MessageAssumption
  <2>2. ~c => Left(u) = 0
    BY <1>5, <2>1 DEF Left
  <2>3. u.cut = c
    BY <1>5
  <2> QED  BY <2>2, <2>3
<1>7. q \in Seq(Pieces) /\ Len(q) = k - 1 /\ \A i \in 1..(k - 1) : q[i] = wire[i]
  BY <1>3
<1>8. r \in Seq(Pieces) /\ Len(r) = Len(wire) - k /\ \A i \in 1..Len(r) : r[i] = wire[i + k]
  BY <1>3
<1>9. buffer' = d /\ Stream' = t
  <2> HIDE DEF u, q, r
  <2>1. b \o q \o <<u>> = Append(b \o q, u)
    BY <1>3, <1>5, <1>7
  <2> QED  BY <1>2, <2>1 DEF Stream, u, q, r
<1>10. /\ Len(s) = n + Len(wire) /\ s \in Seq(Pieces)
       /\ \A i \in 1..n : s[i] = b[i]
       /\ \A i \in 1..Len(wire) : s[n + i] = wire[i]
  BY StreamIs
<1> HIDE DEF u, q, r, s, b
<1>12. /\ d \in Seq(Pieces) /\ Len(d) = n + k
       /\ \A i \in 1..n : d[i] = b[i]
       /\ \A i \in 1..(k - 1) : d[n + i] = wire[i]
       /\ d[n + k] = u
  <2> DEFINE e == b \o q
  <2>1. /\ e \in Seq(Pieces) /\ Len(e) = n + k - 1
        /\ \A i \in 1..n : e[i] = b[i]
        /\ \A i \in 1..(k - 1) : e[n + i] = q[i]
    BY <1>3, <1>7, SMTT(40)
  <2> HIDE DEF e
  <2>2. /\ d \in Seq(Pieces) /\ Len(d) = n + k /\ d[n + k] = u
        /\ \A i \in 1..(n + k - 1) : d[i] = e[i]
    BY <1>3, <1>5, <2>1 DEF e
  <2> HIDE DEF d, n
  <2>3. \A i \in 1..n : i \in 1..(n + k - 1)
    BY <1>3
  <2>4. \A i \in 1..(k - 1) : n + i \in 1..(n + k - 1)
    BY <1>3
  <2> QED  BY <1>7, <2>1, <2>2, <2>3, <2>4
<1> HIDE DEF d
<1>13. /\ Len(t) = n + k + Len(r)
       /\ \A i \in 1..(n + k) : t[i] = d[i]
       /\ \A i \in 1..Len(r) : t[n + k + i] = r[i]
  <2>1. d \in Seq(Pieces) /\ r \in Seq(Pieces) /\ Len(d) = n + k
    BY <1>8, <1>12
  <2>2. /\ Len(t) = Len(d) + Len(r)
        /\ \A i \in 1..Len(d) : t[i] = d[i]
        /\ \A i \in 1..Len(r) : t[Len(d) + i] = r[i]
    BY <2>1
  <2> QED  BY <2>1, <2>2
<1> HIDE DEF t
<1>14. Len(t) = Len(s) /\ Len(s) \in Nat
  BY <1>3, <1>8, <1>10, <1>13
<1>15. ASSUME NEW i \in 1..Len(s)
       PROVE  t[i].place = s[i].place /\ t[i].message = s[i].message
  <2>1. CASE i <= n
    BY <1>3, <1>10, <1>12, <1>13, <2>1
  <2>2. CASE i > n /\ i < n + k
    <3> DEFINE j == i - n
    <3>1. j \in 1..(k - 1) /\ j \in 1..Len(wire) /\ i \in 1..(n + k) /\ i = n + j
      BY <1>3, <2>2
    <3> HIDE DEF j
    <3> QED  BY <1>10, <1>12, <1>13, <3>1
  <2>3. CASE i = n + k
    BY <1>3, <1>5, <1>10, <1>12, <1>13, <2>3
  <2>4. CASE i > n + k
    <3> DEFINE j == i - n - k
    <3>1. j \in 1..Len(r) /\ i = n + k + j
      BY <1>3, <1>8, <1>10, <2>4
    <3>2. j + k \in 1..Len(wire) /\ i = n + (j + k)
      BY <1>3, <1>8, <3>1
    <3> HIDE DEF j
    <3>3. t[i] = wire[j + k]
      BY <1>8, <1>13, <3>1
    <3>4. s[i] = wire[j + k]
      BY <1>10, <3>2
    <3> QED  BY <3>3, <3>4
  <2> QED  BY <1>3, <2>1, <2>2, <2>3, <2>4
<1>16. ASSUME EndsCut(b)  PROVE EndsCut(d)
  <2> SUFFICES ASSUME NEW i \in 1..Len(d), i = Len(d) \/ d[i + 1].place = 0
               PROVE  d[i].place = 0 \/ Left(d[i]) = 0 \/ d[i].cut
    BY DEF EndsCut
  <2>1. CASE i = n + k
    BY <1>6, <1>12, <2>1
  <2>2. CASE i # n + k
    <3>1. d[i + 1].place = 0 /\ i + 1 \in 1..(n + k)
      <4>1. Len(d) = n + k
        BY <1>12
      <4>2. i + 1 \in 1..(n + k)
        BY <1>3, <2>2, <4>1
      <4> QED  BY <2>2, <4>1, <4>2
    <3>2. i + 1 <= n
      <4> SUFFICES ASSUME i + 1 > n  PROVE FALSE
        BY <1>3, <3>1
      <4> DEFINE j == i + 1 - n
      <4>1. j \in 1..k /\ j \in 1..Len(wire) /\ i + 1 = n + j
        BY <1>3, <3>1
      <4> HIDE DEF j
      <4>2. wire[j] \in Piece
        BY <1>3, <4>1
      <4>3. d[i + 1].place = wire[j].place
        <5>1. j = k \/ j \in 1..(k - 1)
          BY <1>3, <4>1
        <5> QED  BY <1>5, <1>12, <4>1, <5>1
      <4> QED  BY <3>1, <4>2, <4>3, Resets
    <3>3. i \in 1..n /\ i + 1 \in 1..n
      BY <1>3, <3>2
    <3> QED  BY <1>12, <1>16, <3>1, <3>3 DEF EndsCut, n
  <2> QED  BY <2>1, <2>2
<1>17. t \in Seq(Pieces)
  BY <1>8, <1>12 DEF t
<1>18. Kinds'
  <2>1. wire' \in Seq(Piece)
    BY <1>2, <1>3
  <2>2. UNCHANGED <<link, expected>>
    BY DEF Arrive
  <2> QED  BY <1>9, <1>12, <2>1, <2>2 DEF Kinds
<1>19. Len(s) > 0 /\ Len(wire) > 0
  BY <1>3, <1>10
<1> QED  BY <1>9, <1>10, <1>14, <1>15, <1>16, <1>17, <1>18, <1>19 DEF s, b

\* k units are read, and the link goes on.
LEMMA ReadOn ==
  ASSUME Kinds, StreamInv, NEW k \in 0..Len(buffer),
         buffer' = SubSeq(buffer, k + 1, Len(buffer)), wire' = wire
  PROVE  /\ buffer' \in Seq(Pieces)
         /\ Stream' \in Seq(Pieces) /\ Len(Stream) = Len(Stream') + k
         /\ \A i \in 1..Len(Stream') : Stream'[i] = Stream[i + k]
         /\ Chained(Stream') /\ (Whole(Stream) => Whole(Stream'))
<1>1. buffer \in Seq(Pieces) /\ wire \in Seq(Pieces)
  BY DEF Kinds, Pieces
<1>2. /\ buffer' \in Seq(Pieces) /\ Len(buffer') = Len(buffer) - k
      /\ \A i \in 1..Len(buffer') : buffer'[i] = buffer[i + k]
  BY <1>1
<1>3. Stream' \in Seq(Pieces) /\ Len(Stream) = Len(Stream') + k
  <2>1. Stream' = buffer' \o wire
    BY DEF Stream
  <2>2. Stream' \in Seq(Pieces) /\ Len(Stream') = Len(buffer') + Len(wire)
    BY <1>1, <1>2, <2>1
  <2> QED  BY <1>1, <1>2, <2>2, StreamIs
<1>4. \A i \in 1..Len(Stream') : Stream'[i] = Stream[i + k]
  BY <1>1, <1>2 DEF Stream
<1> QED  BY <1>2, <1>3, <1>4, StreamIs, Shifted DEF StreamInv

\* k units are read, and the link is given up.
LEMMA ReadAndDrop ==
  ASSUME Kinds, StreamInv, NEW k \in 0..Len(buffer),
         buffer' = SubSeq(buffer, k + 1, Len(buffer)), wire' = <<>>
  PROVE  buffer' \in Seq(Pieces) /\ Chained(Stream')
<1>1. buffer \in Seq(Pieces)
  BY DEF Kinds
<1>2. /\ buffer' \in Seq(Pieces) /\ Len(buffer') = Len(buffer) - k
      /\ \A i \in 1..Len(buffer') : buffer'[i] = buffer[i + k]
  BY <1>1
<1>3. Stream' = buffer'
  BY <1>2 DEF Stream
<1>4. Chained(buffer)
  BY <1>1, StreamIs, Shortened, SMTT(40) DEF StreamInv
<1>5. k \in Nat /\ Len(buffer) = Len(buffer') + k
  BY <1>1, <1>2
<1>6. Chained(buffer')
  BY <1>1, <1>2, <1>4, <1>5, Shifted
<1> QED  BY <1>2, <1>3, <1>6

LEMMA FailInv ==
  ASSUME Kinds, StreamInv, NEW k \in 0..Len(buffer),
         buffer' = SubSeq(buffer, k + 1, Len(buffer)), Fail
  PROVE  (Kinds /\ StreamInv /\ Genuine)'
<1>1. expected' = NoMessage /\ received' = <<>>
  BY DEF Fail
<1>2. Payload(Stream', expected') /\ WholePayload(Stream', expected') /\ Genuine'
  BY <1>1 DEF Payload, WholePayload, Genuine
<1>3. CASE link' = "down" /\ wire' = <<>>
  BY <1>1, <1>2, <1>3, ReadAndDrop DEF Kinds, StreamInv
<1>4. CASE link' = link /\ wire' = wire
  BY <1>1, <1>2, <1>4, ReadOn DEF Kinds, StreamInv
<1> QED  BY <1>3, <1>4 DEF Fail

-----------------------------------------------------------------------------
(* The actions.                                                             *)

Inv == Kinds /\ StreamInv /\ Genuine

LEMMA InitInv == Init => Inv
<1> SUFFICES ASSUME Init  PROVE Inv
  OBVIOUS
<1>1. Stream = <<>> /\ Len(Stream) = 0
  BY DEF Init, Stream
<1>2. Kinds /\ Genuine
  BY DEF Init, Kinds, Genuine
<1>3. StreamInv
  BY <1>1 DEF Init, StreamInv, Chained, Payload
<1> QED  BY <1>2, <1>3 DEF Inv

LEMMA SendInv == Inv /\ Send => Inv'
<1> SUFFICES ASSUME Inv, Send  PROVE Inv'
  OBVIOUS
<1>1. PICK m \in Message : wire' = wire \o Units(m)
  BY DEF Send
<1>2. UNCHANGED <<link, buffer, expected, received>> /\ link = "up"
  BY DEF Send
<1>3. Kinds' /\ Genuine'
  BY <1>1, <1>2, UnitsOf DEF Inv, Kinds, Genuine
<1>4. Stream' = Stream \o Units(m)
  <2>1. wire \in Seq(Pieces) /\ buffer \in Seq(Pieces) /\ Units(m) \in Seq(Pieces)
    BY UnitsOf DEF Inv, Kinds, Pieces
  <2>2. (buffer \o wire) \o Units(m) = buffer \o (wire \o Units(m))
    BY <2>1
  <2> QED  BY <1>1, <1>2, <2>2 DEF Stream
<1>5. Stream \in Seq(Pieces) /\ expected \in Message \cup {NoMessage}
  BY StreamIs DEF Inv, Kinds
<1>6. /\ Chained(Stream') /\ Payload(Stream', expected)
      /\ Whole(Stream') /\ WholePayload(Stream', expected)
  BY <1>2, <1>4, <1>5, Continued DEF Inv, StreamInv
<1> QED  BY <1>2, <1>3, <1>6 DEF Inv, StreamInv

LEMMA ArriveInv == Inv /\ Arrive => Inv'
<1> SUFFICES ASSUME Inv, Arrive  PROVE Inv'
  OBVIOUS
<1>1. UNCHANGED <<link, expected, received>>
  BY DEF Arrive
<1>2. /\ Kinds' /\ wire # <<>> /\ Stream \in Seq(Pieces) /\ Stream' \in Seq(Pieces)
      /\ Len(Stream') = Len(Stream)
      /\ \A i \in 1..Len(Stream) :
           Stream'[i].place = Stream[i].place /\ Stream'[i].message = Stream[i].message
  BY Arrived DEF Inv
<1>3. /\ Chained(Stream) => Chained(Stream')
      /\ Payload(Stream, expected) => Payload(Stream', expected)
      /\ Whole(Stream) => Whole(Stream')
      /\ WholePayload(Stream, expected) => WholePayload(Stream', expected)
  BY <1>2, SamePlaces
<1> QED  BY <1>1, <1>2, <1>3 DEF Inv, StreamInv, Genuine

LEMMA DropInv == Inv /\ Drop => Inv'
<1> SUFFICES ASSUME Inv, Drop  PROVE Inv'
  OBVIOUS
<1>1. UNCHANGED <<buffer, expected, received>> /\ link' = "down" /\ wire' = <<>>
  BY DEF Drop
<1>2. Kinds' /\ Genuine'
  BY <1>1 DEF Inv, Kinds, Genuine
<1>3. buffer \in Seq(Pieces) /\ Stream' = buffer
  BY <1>1 DEF Inv, Kinds, Stream
<1>4. Chained(Stream') /\ Payload(Stream', expected)
  BY <1>3, StreamIs, Shortened DEF Inv, StreamInv
<1> QED  BY <1>1, <1>2, <1>4 DEF Inv, StreamInv

LEMMA ConnectInv == Inv /\ Connect => Inv'
<1> SUFFICES ASSUME Inv, Connect  PROVE Inv'
  OBVIOUS
<1>1. PICK left \in {<<>>, buffer} : buffer' = Append(left, Reset)
  BY DEF Connect
<1>2. UNCHANGED <<wire, expected, received>> /\ link = "down" /\ link' = "up"
  BY DEF Connect
<1>3. wire = <<>>
  BY <1>2 DEF Inv, StreamInv
<1>4. buffer \in Seq(Pieces) /\ left \in Seq(Pieces) /\ buffer' \in Seq(Pieces)
  <2>1. buffer \in Seq(Pieces) /\ <<>> \in Seq(Pieces) /\ Reset \in Pieces
    BY DEF Inv, Kinds, Pieces
  <2>2. left \in Seq(Pieces)
    BY <2>1
  <2> QED  BY <1>1, <2>1, <2>2
<1>5. Kinds' /\ Genuine'
  BY <1>2, <1>4 DEF Inv, Kinds, Genuine
<1>6. Stream = buffer /\ Stream' = Append(left, Reset)
  BY <1>1, <1>2, <1>3, <1>4 DEF Stream
<1>7. Chained(left) /\ Payload(left, expected)
  BY <1>4, <1>6 DEF Inv, StreamInv, Chained, Payload
<1>8. /\ Chained(Stream') /\ Payload(Stream', expected)
      /\ Whole(Stream') /\ WholePayload(Stream', expected)
  BY <1>4, <1>6, <1>7, Reconnected
<1> QED  BY <1>2, <1>5, <1>8 DEF Inv, StreamInv

LEMMA ReadResetInv == Inv /\ ReadReset => Inv'
<1> SUFFICES ASSUME Inv, ReadReset  PROVE Inv'
  OBVIOUS
<1>1. buffer # <<>> /\ buffer' = Tail(buffer)
      /\ expected' = NoMessage /\ received' = <<>> /\ UNCHANGED <<link, wire>>
  BY DEF ReadReset
<1>2. 1 \in 0..Len(buffer) /\ buffer' = SubSeq(buffer, 1 + 1, Len(buffer))
  BY <1>1 DEF Inv, Kinds
<1>3. Payload(Stream', expected') /\ WholePayload(Stream', expected') /\ Genuine'
  BY <1>1 DEF Payload, WholePayload, Genuine
<1>4. buffer' \in Seq(Pieces) /\ Chained(Stream') /\ (Whole(Stream) => Whole(Stream'))
  BY <1>1, <1>2, ReadOn DEF Inv
<1> QED  BY <1>1, <1>3, <1>4 DEF Inv, Kinds, StreamInv

LEMMA ReadHeaderInv == Inv /\ ReadHeader => Inv'
<1> SUFFICES ASSUME Inv, ReadHeader  PROVE Inv'
  OBVIOUS
<1> DEFINE data == Data(Header)
           k == Len(data)
           m == data[1].message
<1>1. /\ data \in Seq(Pieces) /\ k \in 0..Len(buffer) /\ k <= Header
      /\ \A i \in 1..k : data[i] = buffer[i] /\ buffer[i].place # 0
  BY DataRead, HeaderAssumption DEF Inv
<1>2. buffer' = SubSeq(buffer, k + 1, Len(buffer))
  BY DEF ReadHeader, Consume
<1>3. CASE IsHeader(data)
  <2>1. k = Header /\ data[1].place = 1
    BY <1>3 DEF IsHeader
  <2>2. /\ expected' = (IF m.length = 0 THEN NoMessage ELSE m) /\ received' = <<>>
        /\ UNCHANGED <<link, wire>>
    BY <1>3 DEF ReadHeader, Expect
  <2> HIDE DEF data
  <2>3. 1 \in 1..k /\ data[1] \in Pieces
    BY <1>1, <2>1, HeaderAssumption
  <2>4. data[1] \in Piece
    BY <2>1, <2>3, Resets DEF Pieces
  <2>5. m \in Message
    BY <2>4, Resets
  <2>6. /\ buffer' \in Seq(Pieces)
        /\ Stream' \in Seq(Pieces) /\ Len(Stream) = Len(Stream') + k
        /\ \A i \in 1..Len(Stream') : Stream'[i] = Stream[i + k]
        /\ Chained(Stream') /\ (Whole(Stream) => Whole(Stream'))
    BY <1>1, <1>2, <2>2, ReadOn DEF Inv
  <2>7. \A i \in 1..k : Stream[i] = data[i] /\ Stream[i].place # 0
    BY <1>1, StreamIs DEF Inv
  <2>8. Stream[1].place = 1 /\ Stream[1].message = m /\ Left(Stream[1]) = Header + m.length - 1
    BY <2>1, <2>3, <2>7 DEF Left
  <2>9. Header \in Nat \ {0} /\ m.length \in Nat
    BY <2>5, MessageAssumption, HeaderAssumption
  <2> HIDE DEF k, m
  <2>10. ASSUME NEW j \in 1..Len(Stream'), OneLink(Stream', 1, j)
         PROVE  OneLink(Stream, 1, j + k)
    <3> SUFFICES ASSUME NEW h \in 1..(j + k)  PROVE Stream[h].place # 0
      BY DEF OneLink
    <3>1. CASE h <= k
      BY <2>1, <2>7, <2>9, <3>1
    <3>2. CASE h > k
      <4>1. h - k \in 1..j /\ h - k \in 1..Len(Stream') /\ h - k + k = h
        BY <2>1, <2>6, <2>9, <3>2
      <4> QED  BY <2>6, <2>10, <4>1 DEF OneLink
    <3> QED  BY <2>1, <2>9, <3>1, <3>2
  <2>11. Payload(Stream', m)
    <3> SUFFICES ASSUME NEW j \in 1..Len(Stream'), j <= m.length, OneLink(Stream', 1, j)
                 PROVE  Stream'[j].message = m /\ Stream'[j].place = Header + j
      BY DEF Payload
    <3>1. /\ 1 \in 1..Len(Stream) /\ j + k \in 1..Len(Stream) /\ 1 <= j + k
          /\ j + k - 1 <= Left(Stream[1])
      BY <2>1, <2>6, <2>8, <2>9
    <3>2. OneLink(Stream, 1, j + k)
      BY <2>10
    <3>3. /\ Stream[j + k].message = Stream[1].message
          /\ Stream[j + k].place = Stream[1].place + (j + k - 1)
      <4> DEFINE e == j + k
      <4>1. /\ 1 \in 1..Len(Stream) /\ e \in 1..Len(Stream) /\ 1 <= e
            /\ e - 1 <= Left(Stream[1]) /\ OneLink(Stream, 1, e)
        BY <2>1, <2>6, <2>9, <3>1, <3>2
      <4> HIDE DEF e
      <4>2. /\ Stream[e].message = Stream[1].message
            /\ Stream[e].place = Stream[1].place + (e - 1)
        BY <4>1 DEF Inv, StreamInv, Chained
      <4>3. e - 1 = j + k - 1
        BY <2>1, <2>6, <2>9 DEF e
      <4> QED  BY <4>2, <4>3 DEF e
    <3> QED  BY <2>1, <2>6, <2>8, <2>9, <3>3
  <2>12. ASSUME Whole(Stream)  PROVE WholePayload(Stream', m)
    <3> SUFFICES ASSUME OneLink(Stream', 1, Len(Stream'))  PROVE m.length <= Len(Stream')
      BY DEF WholePayload
    <3>0. OneLink(Stream', 1, Len(Stream'))
      OBVIOUS
    <3>1. OneLink(Stream, 1, Len(Stream))
      <4>1. CASE Len(Stream') = 0
        <5>1. Len(Stream) = k
          BY <2>1, <2>6, <2>9, <4>1
        <5> QED  BY <2>7, <5>1 DEF OneLink
      <4>2. CASE Len(Stream') # 0
        <5>1. Len(Stream') \in 1..Len(Stream')
          BY <2>6, <4>2
        <5>2. OneLink(Stream, 1, Len(Stream') + k)
          BY <2>10, <3>0, <5>1
        <5> QED  BY <2>6, <5>2
      <4> QED  BY <4>1, <4>2
    <3>2. 1 \in 1..Len(Stream)
      BY <2>1, <2>6, <2>9
    <3>3. 1 + Left(Stream[1]) <= Len(Stream)
      BY <2>12, <3>1, <3>2 DEF Whole
    <3> QED  BY <2>1, <2>6, <2>8, <2>9, <3>3
  <2>13. Kinds' /\ Genuine'
    BY <2>2, <2>5, <2>6 DEF Inv, Kinds, Genuine
  <2>14. Payload(Stream', NoMessage) /\ WholePayload(Stream', NoMessage)
    BY DEF Payload, WholePayload
  <2>15. Payload(Stream', expected') /\ (Whole(Stream) => WholePayload(Stream', expected'))
    BY <2>2, <2>11, <2>12, <2>14
  <2> QED  BY <2>2, <2>6, <2>13, <2>15 DEF Inv, StreamInv
<1>4. CASE ~IsHeader(data)
  <2>1. Fail
    BY <1>4 DEF ReadHeader
  <2> QED  BY <1>1, <1>2, <2>1, FailInv DEF Inv
<1> QED  BY <1>3, <1>4

LEMMA ReadPayloadInv == Inv /\ ReadPayload => Inv'
<1> SUFFICES ASSUME Inv, ReadPayload  PROVE Inv'
  OBVIOUS
<1> DEFINE data == Data(expected.length)
           k == Len(data)
<1>1. expected \in Message /\ expected # NoMessage /\ expected.length \in Nat \ {0}
  BY MessageAssumption DEF ReadPayload, Inv, Kinds
<1>2. /\ data \in Seq(Pieces) /\ k \in 0..Len(buffer) /\ k <= expected.length
      /\ \A i \in 1..k : data[i] = buffer[i] /\ buffer[i].place # 0
  <2> DEFINE n == expected.length
  <2> HIDE DEF n
  <2>1. Kinds /\ n \in Nat
    BY <1>1 DEF Inv, n
  <2>2. /\ Data(n) \in Seq(Pieces)
        /\ Len(Data(n)) <= Len(buffer) /\ Len(Data(n)) <= n
        /\ \A i \in 1..Len(Data(n)) : Data(n)[i] = buffer[i] /\ buffer[i].place # 0
    BY <2>1, DataRead
  <2>3. Len(Data(n)) \in Nat /\ Len(buffer) \in Nat
    BY <2>1, <2>2 DEF Kinds
  <2> QED  BY <2>2, <2>3 DEF n
<1>3. buffer' = SubSeq(buffer, k + 1, Len(buffer))
  BY DEF ReadPayload, Consume
<1>4. CASE Decodes(data)
  <2>1. k = expected.length /\ expected.sound
    BY <1>4 DEF Decodes
  <2>2. received' = data /\ expected' = NoMessage /\ UNCHANGED <<link, wire>>
    BY <1>4 DEF ReadPayload
  <2> HIDE DEF data
  <2>3. /\ buffer' \in Seq(Pieces)
        /\ Chained(Stream') /\ (Whole(Stream) => Whole(Stream'))
    BY <1>2, <1>3, <2>2, ReadOn DEF Inv
  <2>4. \A i \in 1..k : Stream[i] = data[i] /\ Stream[i].place # 0 /\ i \in 1..Len(Stream)
    BY <1>2, StreamIs DEF Inv
  <2>5. \A i \in 1..k : data[i].message = expected /\ data[i].place = Header + i
    <3>1. \A i \in 1..k : OneLink(Stream, 1, i)
      BY <1>2, <2>4 DEF OneLink
    <3> QED  BY <1>1, <2>1, <2>4, <3>1 DEF Inv, StreamInv, Payload
  <2>6. Genuine'
    BY <1>1, <1>2, <2>1, <2>2, <2>5 DEF Genuine
  <2>7. Payload(Stream', expected') /\ WholePayload(Stream', expected')
    BY <2>2 DEF Payload, WholePayload
  <2> QED  BY <2>2, <2>3, <2>6, <2>7 DEF Inv, Kinds, StreamInv
<1>5. CASE ~Decodes(data)
  <2>1. Fail
    BY <1>5 DEF ReadPayload
  <2> QED  BY <1>2, <1>3, <2>1, FailInv DEF Inv
<1> QED  BY <1>4, <1>5

-----------------------------------------------------------------------------

LEMMA StepInv == Inv /\ [Next]_vars => Inv'
<1> SUFFICES ASSUME Inv, [Next]_vars  PROVE Inv'
  OBVIOUS
<1>1. CASE UNCHANGED vars
  <2>1. UNCHANGED <<link, wire, buffer, expected, received>>
    BY <1>1 DEF vars
  <2>2. Stream' = Stream /\ expected' = expected
    BY <2>1 DEF Stream
  <2>3. StreamInv'
    BY <2>1, <2>2 DEF Inv, StreamInv, Chained, Payload, Whole, WholePayload, OneLink, Left
  <2> QED  BY <2>1, <2>3 DEF Inv, Kinds, Genuine
<1> QED  BY <1>1, SendInv, ArriveInv, DropInv, ConnectInv, ReadResetInv, ReadHeaderInv,
           ReadPayloadInv DEF Next, Read

(* Whatever the network cuts and loses, what unpack accepts are the units   *)
(* of one sound message, all of them and in order.                          *)
THEOREM AcceptedIsGenuine == Spec => []Genuine
<1> QED  BY InitInv, StepInv, PTL DEF Spec, Inv

\* What the type invariant says of the count and of what was accepted.
Tally == errors \in 0..3 /\ received \in Seq(Unit) /\ misled \in BOOLEAN

LEMMA FailTally == ASSUME Tally, Fail  PROVE errors' \in 0..3 /\ received' \in Seq(Unit)
BY DEF Tally, Fail

LEMMA ReadPayloadTally == Inv /\ Tally /\ ReadPayload => Tally'
<1> SUFFICES ASSUME Inv, Tally, ReadPayload  PROVE Tally'
  OBVIOUS
<1> DEFINE data == Data(expected.length)
<1>1. misled' \in BOOLEAN
  BY DEF ReadPayload, Consume
<1>2. CASE Decodes(data)
  <2>1. Kinds /\ expected.length \in Nat
    BY MessageAssumption DEF ReadPayload, Inv, Kinds
  <2>2. /\ data \in Seq(Pieces) /\ Len(data) <= Len(buffer)
        /\ \A i \in 1..Len(data) : data[i] = buffer[i] /\ buffer[i].place # 0
    <3> DEFINE n == expected.length
    <3> HIDE DEF n
    <3>1. Kinds /\ n \in Nat
      BY <2>1 DEF n
    <3>2. /\ Data(n) \in Seq(Pieces) /\ Len(Data(n)) <= Len(buffer)
          /\ \A i \in 1..Len(Data(n)) : Data(n)[i] = buffer[i] /\ buffer[i].place # 0
      BY <3>1, DataRead
    <3> QED  BY <3>2 DEF n
  <2>3. received' = data /\ errors' = 0
    BY <1>2 DEF ReadPayload
  <2> HIDE DEF data
  <2>4. \A i \in 1..Len(data) : data[i] \in Pieces /\ data[i].place # 0
    BY <2>2
  <2>5. \A i \in 1..Len(data) : data[i] \in Unit
    BY <2>4, Resets DEF Pieces, Piece
  <2>6. data \in Seq(Unit)
    BY <2>2, <2>5
  <2> QED  BY <1>1, <2>3, <2>6 DEF Tally
<1>3. CASE ~Decodes(data)
  <2>1. Fail
    BY <1>3 DEF ReadPayload
  <2> QED  BY <1>1, <2>1, FailTally DEF Tally
<1> QED  BY <1>2, <1>3

LEMMA StepTally == Inv /\ Tally /\ [Next]_vars => Tally'
<1> SUFFICES ASSUME Inv, Tally, [Next]_vars  PROVE Tally'
  OBVIOUS
<1>1. CASE Send \/ Arrive \/ Drop \/ Connect \/ UNCHANGED vars
  BY <1>1 DEF Send, Arrive, Drop, Connect, vars, Tally
<1>2. CASE ReadReset
  <2>1. misled' = FALSE /\ errors' = 0 /\ received' = <<>>
    BY <1>2 DEF ReadReset
  <2>2. 0 \in 0..3 /\ <<>> \in Seq(Unit)
    OBVIOUS
  <2> QED  BY <2>1, <2>2 DEF Tally
<1>3. CASE ReadHeader
  <2>1. misled' \in BOOLEAN
    BY <1>3 DEF ReadHeader, Consume
  <2>2. (received' = <<>> /\ errors' \in {errors, 0}) \/ Fail
    BY <1>3 DEF ReadHeader, Expect
  <2>3. CASE received' = <<>> /\ errors' \in {errors, 0}
    BY <2>1, <2>3 DEF Tally
  <2>4. CASE Fail
    BY <2>1, <2>4, FailTally DEF Tally
  <2> QED  BY <2>2, <2>3, <2>4
<1> QED  BY <1>1, <1>2, <1>3, ReadPayloadTally DEF Next, Read

(* The types; in particular the receive loop never counts more than three   *)
(* errors in a row before it gives the link up (transport.py:160).          *)
THEOREM FramingTypes == Spec => []TypeOK
<1>1. Init => Tally
  <2>1. 0 \in 0..3 /\ <<>> \in Seq(Unit) /\ FALSE \in BOOLEAN
    OBVIOUS
  <2> QED  BY <2>1 DEF Init, Tally
<1>2. Kinds /\ Tally => TypeOK
  <2>1. ASSUME NEW s \in Seq(Piece)  PROVE s \in Seq(Unit)
    <3>1. \A i \in 1..Len(s) : s[i] \in Unit
      BY DEF Piece
    <3> QED  BY <3>1
  <2>2. \A s : s \in Seq(Pieces) => s \in Seq(Unit \cup {Reset})
    BY DEF Piece, Pieces
  <2> QED  BY <2>1, <2>2 DEF Kinds, Tally, TypeOK
<1> QED  BY <1>1, <1>2, InitInv, StepInv, StepTally, PTL DEF Spec, Inv

-----------------------------------------------------------------------------
(* What misleads the reader.                                                 *)

LEMMA Prefix ==
  ASSUME NEW s \in Seq(Pieces), NEW t \in Seq(Pieces),
         Len(t) <= Len(s), \A i \in 1..Len(t) : t[i] = s[i]
  PROVE  Follows(s) => Follows(t)
<1>1. \A i \in 1..(Len(t) - 1) : i \in 1..(Len(s) - 1) /\ i \in 1..Len(t) /\ i + 1 \in 1..Len(t)
  OBVIOUS
<1> QED  BY <1>1 DEF Follows

LEMMA Behind ==
  ASSUME NEW b \in Seq(Pieces), NEW k \in 0..Len(b), NEW w \in Seq(Pieces), NEW v \in {w, <<>>}
  PROVE  LET s == b \o w
             c == SubSeq(b, k + 1, Len(b))
             t == c \o v
         IN  /\ Follows(s) => Follows(t)
             /\ EndsCut(b) => EndsCut(c)
             /\ t # <<>> => k + 1 \in 1..Len(s) /\ t[1] = s[k + 1]
<1> DEFINE s == b \o w
           c == SubSeq(b, k + 1, Len(b))
           t == c \o v
<1>1. Len(b) \in Nat /\ Len(w) \in Nat /\ k \in Nat /\ k <= Len(b)
  OBVIOUS
<1>2. c \in Seq(Pieces) /\ Len(c) = Len(b) - k /\ \A i \in 1..Len(c) : c[i] = b[i + k]
  <2>1. Len(c) = Len(b) - k /\ \A i \in 1..(Len(b) - k) : c[i] = b[i + k]
    BY <1>1
  <2>2. \A i \in (k + 1)..Len(b) : b[i] \in Pieces
    BY <1>1
  <2>3. c \in Seq(Pieces)
    BY <1>1, <2>2
  <2> HIDE DEF c
  <2> QED  BY <2>1, <2>3
<1>3. v \in Seq(Pieces) /\ Len(v) \in 0..Len(w) /\ \A i \in 1..Len(v) : v[i] = w[i]
  <2>1. CASE v = w
    BY <2>1
  <2>2. CASE v = <<>>
    BY <2>2
  <2> QED  BY <2>1, <2>2
<1>4. /\ Len(s) = Len(b) + Len(w)
      /\ \A i \in 1..Len(b) : s[i] = b[i]
      /\ \A i \in 1..Len(w) : s[Len(b) + i] = w[i]
  OBVIOUS
<1> HIDE DEF s, c
<1>5. /\ t \in Seq(Pieces) /\ Len(t) = Len(c) + Len(v)
      /\ \A i \in 1..Len(c) : t[i] = c[i]
      /\ \A i \in 1..Len(v) : t[Len(c) + i] = v[i]
  <2>1. c \in Seq(Pieces) /\ v \in Seq(Pieces)
    BY <1>2, <1>3
  <2> QED  BY <2>1
<1> HIDE DEF t
<1>6. Len(t) \in Nat /\ Len(s) \in Nat /\ Len(t) + k <= Len(s)
  BY <1>1, <1>2, <1>3, <1>4, <1>5
<1>7. ASSUME NEW i \in 1..Len(t)  PROVE t[i] = s[i + k]
  <2>1. CASE i <= Len(c)
    <3>1. i \in 1..Len(c) /\ i + k \in 1..Len(b)
      BY <1>1, <1>2, <2>1
    <3> QED  BY <1>2, <1>4, <1>5, <3>1
  <2>2. CASE i > Len(c)
    <3> DEFINE j == i - Len(c)
    <3>1. j \in 1..Len(v) /\ j \in 1..Len(w) /\ i = Len(c) + j /\ i + k = Len(b) + j
      BY <1>1, <1>2, <1>3, <1>5, <2>2
    <3> HIDE DEF j
    <3> QED  BY <1>3, <1>4, <1>5, <3>1
  <2> QED  BY <1>1, <1>2, <2>1, <2>2
<1>8. Follows(s) => Follows(t)
  <2> SUFFICES ASSUME Follows(s), NEW i \in 1..(Len(t) - 1),
                      t[i].place = 0 \/ Left(t[i]) = 0
               PROVE  t[i + 1].place \in {0, 1}
    BY DEF Follows
  <2>1. /\ i \in 1..Len(t) /\ i + 1 \in 1..Len(t)
        /\ i + k \in 1..(Len(s) - 1) /\ i + 1 + k = i + k + 1
    BY <1>1, <1>6
  <2>2. t[i] = s[i + k] /\ t[i + 1] = s[i + k + 1]
    BY <1>7, <2>1
  <2> QED  BY <2>1, <2>2 DEF Follows
<1>9. EndsCut(b) => EndsCut(c)
  <2> SUFFICES ASSUME EndsCut(b), NEW i \in 1..Len(c),
                      i = Len(c) \/ c[i + 1].place = 0
               PROVE  c[i].place = 0 \/ Left(c[i]) = 0 \/ c[i].cut
    BY DEF EndsCut
  <2>1. i + k \in 1..Len(b) /\ c[i] = b[i + k]
    BY <1>1, <1>2
  <2>2. i + k = Len(b) \/ b[i + k + 1].place = 0
    <3>1. CASE i = Len(c)
      BY <1>1, <1>2, <3>1
    <3>2. CASE i # Len(c)
      <4>1. i + 1 \in 1..Len(c) /\ i + 1 + k = i + k + 1
        BY <1>1, <1>2, <3>2
      <4> QED  BY <1>2, <3>2, <4>1
    <3> QED  BY <3>1, <3>2
  <2> QED  BY <2>1, <2>2 DEF EndsCut
<1>10. t # <<>> => k + 1 \in 1..Len(s) /\ t[1] = s[k + 1]
  <2> SUFFICES ASSUME t # <<>>  PROVE k + 1 \in 1..Len(s) /\ t[1] = s[k + 1]
    OBVIOUS
  <2>1. 1 \in 1..Len(t) /\ 1 + k = k + 1
    BY <1>1, <1>5
  <2> QED  BY <1>1, <1>6, <1>7, <2>1
<1> QED  BY <1>8, <1>9, <1>10 DEF s, t, c

\* k units are read.
LEMMA Guided ==
  ASSUME Kinds, GuideInv, NEW k \in 0..Len(buffer), wire' \in {wire, <<>>},
         buffer' = SubSeq(buffer, k + 1, Len(buffer)),
         ~misled' /\ expected' = NoMessage /\ k + 1 \in 1..Len(Stream)
           => Stream[k + 1].place \in {0, 1}
  PROVE  GuideInv'
<1> DEFINE v == wire'
<1>1. buffer \in Seq(Pieces) /\ wire \in Seq(Pieces) /\ v \in {wire, <<>>}
  BY DEF Kinds, Pieces
<1>2. Stream' = SubSeq(buffer, k + 1, Len(buffer)) \o v
  BY DEF Stream
<1> HIDE DEF v
<1> QED  BY <1>1, <1>2, Behind DEF GuideInv, AtStart, Stream

\* A read that is short takes the unit that was cut.
LEMMA ShortIsCut ==
  ASSUME Kinds, EndsCut(buffer), NEW n \in Nat, n > 0, Available > 0,
         Len(Data(n)) # n, Consume(Data(n)),
         Left(buffer[Len(Data(n))]) # 0
  PROVE  misled'
<1> DEFINE k == Len(Data(n))
<1>1. /\ Data(n) \in Seq(Pieces) /\ k \in Nat /\ k > 0 /\ k <= Len(buffer)
      /\ \A i \in 1..k : Data(n)[i] = buffer[i] /\ buffer[i].place # 0
      /\ k = Len(buffer) \/ buffer[k + 1].place = 0
  <2>1. /\ Data(n) \in Seq(Pieces) /\ Len(Data(n)) <= Len(buffer)
        /\ \A i \in 1..Len(Data(n)) : Data(n)[i] = buffer[i] /\ buffer[i].place # 0
        /\ \/ Len(Data(n)) = n \/ Len(Data(n)) = Len(buffer)
           \/ buffer[Len(Data(n)) + 1].place = 0
        /\ Len(Data(n)) > 0
    BY DataRead
  <2>2. k \in Nat
    BY <2>1
  <2> QED  BY <2>1, <2>2
<1> HIDE DEF k
<1>2. k \in 1..k /\ k \in 1..Len(buffer)
  BY <1>1 DEF Kinds
<1>3. buffer[k].cut
  BY <1>1, <1>2 DEF EndsCut, k
<1>4. Data(n)[k] \in ToSet(Data(n)) /\ Data(n)[k].cut
  BY <1>1, <1>2, <1>3 DEF ToSet, k
<1> QED  BY <1>4 DEF Consume

-----------------------------------------------------------------------------
(* The actions keep the reader on its way.                                   *)

LEMMA InitGuided == Init => GuideInv
<1> SUFFICES ASSUME Init  PROVE GuideInv
  OBVIOUS
<1>1. Stream = <<>> /\ Len(Stream) = 0 /\ Len(buffer) = 0
  BY DEF Init, Stream
<1> QED  BY <1>1 DEF GuideInv, Follows, EndsCut, AtStart

LEMMA SendGuided == Inv /\ GuideInv /\ Send => GuideInv'
<1> SUFFICES ASSUME Inv, GuideInv, Send  PROVE GuideInv'
  OBVIOUS
<1>1. PICK m \in Message : wire' = wire \o Units(m)
  BY DEF Send
<1>2. UNCHANGED <<buffer, expected, misled>> /\ Whole(Stream)
  BY DEF Send, Inv, StreamInv
<1> DEFINE s == Stream
           q == Units(m)
           l == Header + m.length
           t == s \o q
<1>3. s \in Seq(Pieces) /\ Follows(s) /\ Whole(s)
  BY <1>2, StreamIs DEF Inv, GuideInv
<1>4. /\ q \in Seq(Pieces) /\ Len(q) = l
      /\ \A i \in 1..l : q[i].message = m /\ q[i].place = i
  BY UnitsOf DEF Pieces
<1>5. l \in Nat /\ l > 0
  BY HeaderAssumption, MessageAssumption
<1>6. Stream' = t
  <2>1. wire \in Seq(Pieces) /\ buffer \in Seq(Pieces)
    BY DEF Inv, Kinds, Pieces
  <2> HIDE DEF q
  <2>2. (buffer \o wire) \o q = buffer \o (wire \o q)
    BY <1>4, <2>1
  <2> QED  BY <1>1, <1>2, <2>2 DEF Stream, q
<1>7. AtStart => (~misled /\ expected = NoMessage /\ s # <<>> => s[1].place \in {0, 1})
  BY DEF AtStart
<1> HIDE DEF s, q, l
<1>8. /\ Len(t) = Len(s) + l /\ Len(s) \in Nat
      /\ \A i \in 1..Len(s) : t[i] = s[i]
      /\ \A i \in 1..l : t[Len(s) + i] = q[i]
  BY <1>3, <1>4, <1>5
<1> HIDE DEF t
<1>9. \A i \in 1..l : t[Len(s) + i].message = m /\ t[Len(s) + i].place = i
  BY <1>4, <1>8
<1>10. Follows(t)
  <2> SUFFICES ASSUME NEW i \in 1..(Len(t) - 1), t[i].place = 0 \/ Left(t[i]) = 0
               PROVE  t[i + 1].place \in {0, 1}
    BY DEF Follows
  <2>1. CASE i < Len(s)
    <3>1. i \in 1..(Len(s) - 1) /\ i \in 1..Len(s) /\ i + 1 \in 1..Len(s)
      BY <1>8, <2>1
    <3> QED  BY <1>3, <1>8, <3>1 DEF Follows
  <2>2. CASE i = Len(s)
    <3>1. 1 \in 1..l
      BY <1>5
    <3> QED  BY <1>8, <1>9, <2>2, <3>1
  <2>3. CASE i > Len(s)
    <3> DEFINE h == i - Len(s)
    <3>1. h \in 1..l /\ h < l /\ i = Len(s) + h
      BY <1>5, <1>8, <2>3
    <3>2. t[i].place = h /\ t[i].message = m
      BY <1>9, <3>1
    <3> HIDE DEF h
    <3>3. Left(t[i]) = l - h
      <4>1. Header \in Nat /\ m.length \in Nat /\ h \in Nat
        BY <1>5, <3>1, HeaderAssumption, MessageAssumption
      <4> QED  BY <3>2, <4>1 DEF Left, l
    <3> QED  BY <1>5, <3>1, <3>2, <3>3
  <2> QED  BY <1>8, <2>1, <2>2, <2>3
<1>11. ASSUME ~misled, expected = NoMessage  PROVE t[1].place \in {0, 1}
  <2>1. CASE s = <<>>
    <3>1. Len(s) = 0 /\ 1 \in 1..l
      BY <1>5, <2>1
    <3> QED  BY <1>8, <1>9, <3>1
  <2>2. CASE s # <<>>
    <3>1. 1 \in 1..Len(s)
      BY <1>3, <2>2
    <3> QED  BY <1>7, <1>8, <1>11, <2>2, <3>1 DEF GuideInv
  <2> QED  BY <2>1, <2>2
<1> QED  BY <1>2, <1>6, <1>10, <1>11 DEF GuideInv, AtStart

LEMMA DropGuided == Inv /\ GuideInv /\ Drop => GuideInv'
<1> SUFFICES ASSUME Inv, GuideInv, Drop  PROVE GuideInv'
  OBVIOUS
<1>1. UNCHANGED <<buffer, expected, misled>> /\ wire' = <<>>
  BY DEF Drop
<1>2. buffer \in Seq(Pieces) /\ Stream' = buffer
  BY <1>1 DEF Inv, Kinds, Stream
<1>3. Follows(buffer)
  BY <1>2, StreamIs, Prefix DEF Inv, GuideInv
<1>4. buffer # <<>> => Stream # <<>> /\ Stream[1] = buffer[1]
  <2> SUFFICES ASSUME buffer # <<>>  PROVE Stream # <<>> /\ Stream[1] = buffer[1]
    OBVIOUS
  <2>1. 1 \in 1..Len(buffer)
    BY <1>2
  <2> QED  BY <2>1, StreamIs DEF Inv
<1> QED  BY <1>1, <1>2, <1>3, <1>4 DEF GuideInv, AtStart

LEMMA ConnectGuided == Inv /\ GuideInv /\ Connect => GuideInv'
<1> SUFFICES ASSUME Inv, GuideInv, Connect  PROVE GuideInv'
  OBVIOUS
<1>1. PICK left \in {<<>>, buffer} : buffer' = Append(left, Reset)
  BY DEF Connect
<1>2. UNCHANGED <<expected, misled>> /\ wire = <<>> /\ wire' = <<>>
  BY DEF Connect, Inv, StreamInv
<1>3. buffer \in Seq(Pieces) /\ left \in Seq(Pieces) /\ buffer' \in Seq(Pieces)
  <2>1. buffer \in Seq(Pieces) /\ <<>> \in Seq(Pieces) /\ Reset \in Pieces
    BY DEF Inv, Kinds, Pieces
  <2>2. left \in Seq(Pieces)
    BY <2>1
  <2> QED  BY <1>1, <2>1, <2>2
<1>4. Stream = buffer /\ Stream' = Append(left, Reset)
  BY <1>1, <1>2, <1>3 DEF Stream
<1>5. /\ Follows(left) /\ EndsCut(left)
      /\ ~misled /\ expected = NoMessage /\ left # <<>> => left[1].place \in {0, 1}
  BY <1>4 DEF GuideInv, AtStart, Follows, EndsCut
<1> DEFINE t == Append(left, Reset)
<1>6. /\ Len(t) = Len(left) + 1 /\ Len(left) \in Nat
      /\ \A i \in 1..Len(left) : t[i] = left[i]
      /\ t[Len(t)] = Reset /\ t[Len(t)].place = 0
  BY <1>3, Resets
<1> HIDE DEF t
<1>7. Follows(t)
  <2> SUFFICES ASSUME NEW i \in 1..(Len(t) - 1), t[i].place = 0 \/ Left(t[i]) = 0
               PROVE  t[i + 1].place \in {0, 1}
    BY DEF Follows
  <2>1. CASE i = Len(left)
    BY <1>6, <2>1
  <2>2. CASE i # Len(left)
    <3>1. i \in 1..(Len(left) - 1) /\ i \in 1..Len(left) /\ i + 1 \in 1..Len(left)
      BY <1>6, <2>2
    <3> QED  BY <1>5, <1>6, <3>1 DEF Follows
  <2> QED  BY <2>1, <2>2
<1>8. EndsCut(t)
  <2> SUFFICES ASSUME NEW i \in 1..Len(t), i = Len(t) \/ t[i + 1].place = 0
               PROVE  t[i].place = 0 \/ Left(t[i]) = 0 \/ t[i].cut
    BY DEF EndsCut
  <2>1. CASE i = Len(t)
    BY <1>6, <2>1
  <2>2. CASE i # Len(t)
    <3>1. i \in 1..Len(left) /\ (i # Len(left) => i + 1 \in 1..Len(left))
      BY <1>6, <2>2
    <3>2. i = Len(left) \/ left[i + 1].place = 0
      BY <1>6, <2>2, <3>1
    <3> QED  BY <1>5, <1>6, <3>1, <3>2 DEF EndsCut
  <2> QED  BY <2>1, <2>2
<1>9. ~misled /\ expected = NoMessage => t[1].place \in {0, 1}
  <2>1. CASE left = <<>>
    BY <1>6, <2>1
  <2>2. CASE left # <<>>
    <3>1. 1 \in 1..Len(left)
      BY <1>3, <2>2
    <3> QED  BY <1>5, <1>6, <2>2, <3>1
  <2> QED  BY <2>1, <2>2
<1> QED  BY <1>1, <1>2, <1>4, <1>7, <1>8, <1>9 DEF GuideInv, AtStart, t

LEMMA ReadResetGuided == Inv /\ GuideInv /\ ReadReset => GuideInv'
<1> SUFFICES ASSUME Inv, GuideInv, ReadReset  PROVE GuideInv'
  OBVIOUS
<1>1. Kinds /\ buffer # <<>> /\ Head(buffer) = Reset /\ buffer' = Tail(buffer) /\ wire' = wire
  BY DEF Inv, ReadReset
<1>2. /\ 1 \in 0..Len(buffer) /\ 1 \in 1..Len(buffer) /\ buffer[1] = Reset
      /\ buffer' = SubSeq(buffer, 1 + 1, Len(buffer))
  BY <1>1 DEF Kinds
<1>3. Stream[1].place = 0
  BY <1>1, <1>2, StreamIs, Resets
<1>4. 1 + 1 \in 1..Len(Stream) => Stream[1 + 1].place \in {0, 1}
  <2>1. 1 + 1 \in 1..Len(Stream) => 1 \in 1..(Len(Stream) - 1)
    BY <1>1, StreamIs
  <2> QED  BY <1>3, <2>1 DEF GuideInv, Follows
<1> QED  BY <1>1, <1>2, <1>4, Guided

LEMMA ArriveGuided == Inv /\ GuideInv /\ Arrive => GuideInv'
<1> SUFFICES ASSUME Inv, GuideInv, Arrive  PROVE GuideInv'
  OBVIOUS
<1>1. UNCHANGED <<expected, misled>>
  BY DEF Arrive
<1> DEFINE s == Stream
           t == Stream'
<1>2. /\ s \in Seq(Pieces) /\ Len(t) = Len(s) /\ Len(s) > 0 /\ EndsCut(buffer')
      /\ \A i \in 1..Len(s) : t[i].place = s[i].place /\ t[i].message = s[i].message
  BY Arrived DEF Inv, GuideInv
<1>3. Follows(s) /\ (~misled /\ expected = NoMessage /\ s # <<>> => s[1].place \in {0, 1})
  BY DEF GuideInv, AtStart
<1>4. GuideInv' = (/\ Follows(t) /\ EndsCut(buffer')
                   /\ ~misled' /\ expected' = NoMessage /\ t # <<>> => t[1].place \in {0, 1})
  BY DEF GuideInv, AtStart
<1> HIDE DEF s, t
<1>5. \A i \in 1..(Len(s) - 1) : i \in 1..Len(s) /\ i + 1 \in 1..Len(s)
  BY <1>2
<1>6. \A i \in 1..Len(s) : Left(t[i]) = Left(s[i])
  BY <1>2 DEF Left
<1>7. Follows(t)
  BY <1>2, <1>3, <1>5, <1>6 DEF Follows
<1>8. s # <<>> /\ t[1].place = s[1].place
  <2>1. 1 \in 1..Len(s) /\ s # <<>>
    BY <1>2
  <2> QED  BY <1>2, <2>1
<1> QED  BY <1>1, <1>2, <1>3, <1>4, <1>7, <1>8

\* A payload that was read to its end, or in part.
LEMMA PayloadRead ==
  ASSUME Inv, GuideInv, ReadPayload
  PROVE  LET k == Len(Data(expected.length))
         IN  /\ k \in 1..Len(buffer) /\ buffer' = SubSeq(buffer, k + 1, Len(buffer))
             /\ Left(Stream[k]) = expected.length - k /\ expected.length \in Nat
             /\ k # expected.length => misled'
<1> DEFINE n == expected.length
           k == Len(Data(n))
<1>1. expected \in Message /\ expected # NoMessage /\ n \in Nat \ {0}
  BY MessageAssumption DEF ReadPayload, Inv, Kinds
<1>2. Available > 0 /\ Consume(Data(n)) /\ Kinds
  BY DEF ReadPayload, Inv
<1> HIDE DEF n
<1>3. /\ Data(n) \in Seq(Pieces) /\ k <= n /\ k <= Len(buffer) /\ k > 0
      /\ \A i \in 1..k : buffer[i].place # 0
  <2>1. n \in Nat /\ n > 0
    BY <1>1
  <2>2. /\ Data(n) \in Seq(Pieces)
        /\ Len(Data(n)) <= Len(buffer) /\ Len(Data(n)) <= n
        /\ \A i \in 1..Len(Data(n)) : Data(n)[i] = buffer[i] /\ buffer[i].place # 0
        /\ Len(Data(n)) > 0
    BY <1>2, <2>1, DataRead
  <2> QED  BY <2>2
<1>4. k \in 1..Len(buffer) /\ k \in Nat
  BY <1>2, <1>3 DEF Kinds
<1> HIDE DEF k
<1>5. \A i \in 1..k : Stream[i] = buffer[i] /\ i \in 1..Len(Stream)
  BY <1>2, <1>3, <1>4, StreamIs
<1>6. Stream[k].message = expected /\ Stream[k].place = Header + k
  <2>1. OneLink(Stream, 1, k) /\ k \in 1..Len(Stream)
    BY <1>3, <1>4, <1>5 DEF OneLink
  <2> QED  BY <1>1, <1>3, <2>1 DEF Inv, StreamInv, Payload, n
<1>7. Left(Stream[k]) = n - k
  BY <1>1, <1>4, <1>6, HeaderAssumption DEF Left, n
<1>8. ASSUME k # n  PROVE misled'
  <2>1. Left(buffer[k]) # 0
    BY <1>1, <1>4, <1>5, <1>7, <1>8
  <2> QED  BY <1>1, <1>2, <1>8, <2>1, ShortIsCut DEF GuideInv, k
<1>9. buffer' = SubSeq(buffer, k + 1, Len(buffer))
  BY <1>2 DEF Consume, k
<1> QED  BY <1>1, <1>4, <1>7, <1>8, <1>9 DEF n, k

LEMMA Dropping == ASSUME Fail  PROVE wire' \in {wire, <<>>}
BY DEF Fail

LEMMA ReadPayloadGuided == Inv /\ GuideInv /\ ReadPayload => GuideInv'
<1> SUFFICES ASSUME Inv, GuideInv, ReadPayload  PROVE GuideInv'
  OBVIOUS
<1> DEFINE k == Len(Data(expected.length))
<1>1. /\ k \in 1..Len(buffer) /\ buffer' = SubSeq(buffer, k + 1, Len(buffer))
      /\ Left(Stream[k]) = expected.length - k /\ expected.length \in Nat
      /\ k # expected.length => misled'
  BY PayloadRead
<1>2. wire' \in {wire, <<>>}
  BY Dropping DEF ReadPayload
<1> HIDE DEF k
<1>3. ASSUME ~misled', k + 1 \in 1..Len(Stream)  PROVE Stream[k + 1].place \in {0, 1}
  <2>1. Left(Stream[k]) = 0 /\ k \in 1..(Len(Stream) - 1)
    BY <1>1, <1>3, StreamIs DEF Inv
  <2> QED  BY <2>1 DEF GuideInv, Follows
<1>4. k \in 0..Len(buffer)
  BY <1>1
<1> QED  BY <1>1, <1>2, <1>3, <1>4, Guided DEF Inv

LEMMA ReadHeaderGuided == Inv /\ GuideInv /\ ReadHeader => GuideInv'
<1> SUFFICES ASSUME Inv, GuideInv, ReadHeader  PROVE GuideInv'
  OBVIOUS
<1> DEFINE k == Len(Data(Header))
<1>1. expected = NoMessage /\ Available > 0 /\ Consume(Data(Header)) /\ Kinds
  BY DEF ReadHeader, Inv
<1>2. /\ Data(Header) \in Seq(Pieces) /\ k <= Header /\ k <= Len(buffer) /\ k > 0
      /\ \A i \in 1..k : Data(Header)[i] = buffer[i] /\ buffer[i].place # 0
  <2>1. Header \in Nat /\ Header > 0
    BY HeaderAssumption
  <2>2. /\ Data(Header) \in Seq(Pieces)
        /\ Len(Data(Header)) <= Len(buffer) /\ Len(Data(Header)) <= Header
        /\ \A i \in 1..Len(Data(Header)) : Data(Header)[i] = buffer[i] /\ buffer[i].place # 0
        /\ Len(Data(Header)) > 0
    BY <1>1, <2>1, DataRead
  <2> QED  BY <2>2
<1>3. k \in 1..Len(buffer) /\ k \in Nat
  BY <1>1, <1>2 DEF Kinds
<1>4. buffer' = SubSeq(buffer, k + 1, Len(buffer))
  BY <1>1 DEF Consume
<1>5. wire' \in {wire, <<>>}
  BY Dropping DEF ReadHeader, Expect
<1>6. /\ \A i \in 1..k : Stream[i] = buffer[i] /\ i \in 1..Len(Stream)
      /\ 1 \in 1..k
  BY <1>1, <1>2, <1>3, StreamIs
<1>7. ASSUME Stream[1].place = 1
      PROVE  /\ Stream[1].message \in Message /\ Stream[1].message.length \in Nat
             /\ Left(buffer[k]) = Header + Stream[1].message.length - k
  <2> HIDE DEF k
  <2>1. buffer[1] \in Piece /\ buffer[1] = Stream[1]
    <3>1. buffer[1] \in Pieces /\ buffer[1].place # 0
      BY <1>1, <1>2, <1>3, <1>6 DEF Kinds
    <3> QED  BY <1>6, <3>1, Resets DEF Pieces
  <2>2. /\ Stream[1].message \in Message /\ Stream[1].message.length \in Nat
        /\ Left(Stream[1]) = Header + Stream[1].message.length - 1
    BY <1>7, <2>1, Resets, MessageAssumption DEF Left
  <2>3. OneLink(Stream, 1, k) /\ k \in 1..Len(Stream) /\ 1 \in 1..Len(Stream)
    BY <1>2, <1>3, <1>6 DEF OneLink
  <2>4. 1 <= k /\ k - 1 <= Left(Stream[1])
    BY <1>2, <1>3, <2>2, HeaderAssumption
  <2>5. Stream[k].message = Stream[1].message /\ Stream[k].place = Stream[1].place + (k - 1)
    BY <2>3, <2>4 DEF Inv, StreamInv, Chained
  <2>6. Stream[k].place = k
    BY <1>3, <1>7, <2>5
  <2> QED  BY <1>3, <1>6, <2>2, <2>5, <2>6 DEF Left
<1>8. CASE IsHeader(Data(Header))
  <2> DEFINE m == Stream[1].message
  <2>1. /\ expected' = (IF m.length = 0 THEN NoMessage ELSE m) /\ Stream[1].place = 1
        /\ k = Header
    BY <1>2, <1>6, <1>8 DEF ReadHeader, Expect, IsHeader
  <2>2. m \in Message /\ Left(buffer[k]) = Header + m.length - k
    BY <1>7, <2>1
  <2> HIDE DEF k, m
  <2>3. CASE m.length = 0
    <3>1. Left(Stream[k]) = 0
      BY <1>3, <1>6, <2>1, <2>2, <2>3, HeaderAssumption
    <3>2. ASSUME k + 1 \in 1..Len(Stream)  PROVE Stream[k + 1].place \in {0, 1}
      <4>1. k \in 1..(Len(Stream) - 1)
        BY <1>1, <1>3, <3>2, StreamIs
      <4> QED  BY <3>1, <4>1 DEF GuideInv, Follows
    <3>3. k \in 0..Len(buffer)
      BY <1>3
    <3> QED  BY <1>1, <1>4, <1>5, <3>2, <3>3, Guided
  <2>4. CASE m.length # 0
    <3>1. expected' # NoMessage
      BY <2>1, <2>2, <2>4, Resets
    <3>2. k \in 0..Len(buffer)
      BY <1>3
    <3> QED  BY <1>1, <1>4, <1>5, <3>1, <3>2, Guided
  <2> QED  BY <2>3, <2>4
<1>9. CASE ~IsHeader(Data(Header))
  <2>1. ASSUME ~misled'  PROVE FALSE
    <3>1. ~misled
      BY <1>1, <2>1 DEF Consume
    <3>2. Stream[1].place = 1 /\ Data(Header)[1].place = 1
      <4>1. Stream # <<>>
        BY <1>6
      <4> QED  BY <1>1, <1>2, <1>6, <3>1, <4>1 DEF GuideInv, AtStart
    <3>3. k # Header
      BY <1>9, <3>2 DEF IsHeader
    <3> HIDE DEF k
    <3>4. Left(buffer[k]) # 0
      BY <1>2, <1>3, <1>7, <3>2, <3>3, HeaderAssumption, SMTT(40)
    <3>5. Header \in Nat /\ Header > 0
      BY HeaderAssumption
    <3> QED  BY <1>1, <2>1, <3>3, <3>4, <3>5, ShortIsCut DEF GuideInv, k
  <2>2. k \in 0..Len(buffer)
    BY <1>3
  <2> QED  BY <1>1, <1>4, <1>5, <2>1, <2>2, Guided
<1> QED  BY <1>8, <1>9

-----------------------------------------------------------------------------
(* The theorems.                                                             *)

LEMMA StepGuided == Inv /\ GuideInv /\ [Next]_vars => GuideInv'
<1> SUFFICES ASSUME Inv, GuideInv, [Next]_vars  PROVE GuideInv'
  OBVIOUS
<1>1. CASE UNCHANGED vars
  BY <1>1 DEF vars, GuideInv, Follows, EndsCut, AtStart, Stream, Left
<1> QED  BY <1>1, SendGuided, ArriveGuided, DropGuided, ConnectGuided, ReadResetGuided,
           ReadHeaderGuided, ReadPayloadGuided DEF Next, Read

\* What is ahead of the reader is where the stream begins.
LEMMA AheadIs ==
  ASSUME Kinds, Ahead # <<>>
  PROVE  Stream # <<>> /\ Head(Ahead) = Stream[1] /\ Stream[1].place # 0
<1> DEFINE I == {i \in 1..Len(buffer) : buffer[i] = Reset}
           end == IF I # {} THEN Min(I) ELSE 0
<1>1. /\ buffer \in Seq(Pieces) /\ wire \in Seq(Piece) /\ wire \in Seq(Pieces)
      /\ Len(buffer) \in Nat /\ Len(wire) \in Nat
  BY DEF Kinds, Pieces
<1>2. Ahead = IF end = 0 THEN Stream ELSE SubSeq(buffer, 1, end - 1)
  BY DEF Ahead, SelectInSeq, Stream
<1>3. I # {} => Min(I) \in I /\ \A i \in I : Min(I) <= i
  <2>1. I \in SUBSET Nat
    BY <1>1
  <2> HIDE DEF I
  <2> QED  BY <2>1, Least
<1> HIDE DEF end
<1>4. CASE I = {}
  <2>1. Ahead = Stream
    BY <1>2, <1>4 DEF end
  <2>2. Stream # <<>> /\ Head(Ahead) = Stream[1] /\ 1 \in 1..Len(Stream)
    BY <1>1, <2>1, StreamIs
  <2>3. Stream[1] \in Pieces /\ Stream[1] # Reset
    <3>1. CASE 1 <= Len(buffer)
      BY <1>1, <1>4, <3>1, StreamIs
    <3>2. CASE ~(1 <= Len(buffer))
      <4>1. Len(buffer) = 0 /\ 1 \in 1..Len(wire)
        BY <1>1, <2>2, <3>2, StreamIs
      <4>2. Stream[1] = wire[1] /\ wire[1] \in Piece
        BY <1>1, <4>1, StreamIs
      <4> QED  BY <4>2, Resets DEF Pieces
    <3> QED  BY <3>1, <3>2
  <2> QED  BY <2>2, <2>3, Resets
<1>5. CASE I # {}
  <2>1. end \in 1..Len(buffer) /\ end \in Nat /\ \A i \in I : end <= i
    BY <1>3, <1>5 DEF end
  <2>2. Ahead = SubSeq(buffer, 1, end - 1)
    BY <1>2, <2>1
  <2>3. end > 1
    BY <1>1, <2>1, <2>2
  <2>4. 1 \in 1..Len(buffer) /\ 1 \notin I
    BY <1>1, <2>1, <2>3
  <2>5. Head(Ahead) = buffer[1]
    BY <1>1, <2>1, <2>2, <2>3
  <2>6. Stream[1] = buffer[1] /\ Stream # <<>>
    BY <1>1, <2>4, StreamIs
  <2> QED  BY <1>1, <2>4, <2>5, <2>6, Resets
<1> QED  BY <1>4, <1>5

\* Only a message that was cut misleads the reader, for any header, any
\* messages, and whatever else is lost, refused or given up.
THEOREM CutsMislead == Spec => []OnlyCutsMislead
<1>1. Inv /\ GuideInv => OnlyCutsMislead
  <2> SUFFICES ASSUME Inv, GuideInv, ~misled, Ahead # <<>>
               PROVE  /\ Head(Ahead).place = IF expected = NoMessage THEN 1 ELSE Header + 1
                      /\ expected # NoMessage => Head(Ahead).message = expected
    BY DEF OnlyCutsMislead, Aligned
  <2>1. Stream # <<>> /\ Head(Ahead) = Stream[1] /\ Stream[1].place # 0
    BY AheadIs DEF Inv
  <2>2. CASE expected = NoMessage
    BY <2>1, <2>2 DEF GuideInv, AtStart
  <2>3. CASE expected # NoMessage
    <3>1. 1 \in 1..Len(Stream) /\ OneLink(Stream, 1, 1)
      BY <2>1, StreamIs DEF Inv, OneLink
    <3>2. 1 <= expected.length
      BY <2>3, MessageAssumption DEF Inv, Kinds
    <3> QED  BY <2>1, <2>3, <3>1, <3>2 DEF Inv, StreamInv, Payload
  <2> QED  BY <2>2, <2>3
<1> QED  BY <1>1, InitInv, StepInv, InitGuided, StepGuided, PTL DEF Spec

\* A sound message that the network does not cut is accepted.
THEOREM UncutMessagesAreAccepted == Spec => UncutIsAccepted
<1>1. ASSUME Inv, GuideInv, ReadPayload, ~misled', expected.sound, expected.length >= Shortest
      PROVE  received' # <<>>
  <2> DEFINE k == Len(Data(expected.length))
  <2>1. k \in 1..Len(buffer) /\ (k # expected.length => misled')
    BY <1>1, PayloadRead
  <2>2. Decodes(Data(expected.length))
    BY <1>1, <2>1 DEF Decodes
  <2>3. received' = Data(expected.length)
    BY <1>1, <2>2 DEF ReadPayload
  <2> QED  BY <2>1, <2>3
<1>2. Inv /\ GuideInv /\ [Next]_vars
        => [ReadPayload /\ ~misled' /\ expected.sound /\ expected.length >= Shortest
              => received' # <<>>]_vars
  BY <1>1
<1> QED  BY <1>2, InitInv, StepInv, InitGuided, StepGuided, PTL DEF Spec, UncutIsAccepted
=============================================================================
