------------------------------ MODULE Framing ------------------------------
(***************************************************************************)
(* How messages are cut out of the bytes of a connection: unpack in        *)
(* tuya/message/handlers/v33.py with the reads, the errors and the         *)
(* reconnections of tuya/transport.py.                                     *)
(*                                                                         *)
(* A read returns what has arrived, up to what was asked for: it does not  *)
(* wait for the rest of a message that the network cuts in two.  The model *)
(* counts in units of some bytes.  The first unit of a message holds its   *)
(* prefix, which no other unit looks like.                                 *)
(***************************************************************************)
EXTENDS Naturals, Sequences, SequencesExt

CONSTANTS
  Header,    \* the units of a header
  Shortest,  \* those of the shortest payload: return code, hash and suffix
  Message,   \* the messages that the device sends: how long their payload is,
             \* and whether their type, suffix and contents are sound
  MaxFlight  \* bounds the units in flight

NoMessage == [length |-> 0, sound |-> FALSE]

ASSUME HeaderAssumption == Header \in Nat \ {0}
ASSUME ShortestAssumption == Shortest \in Nat \ {0}
\* One without a payload has nothing that is not sound.
ASSUME MessageAssumption ==
  Message \subseteq [length : Nat, sound : BOOLEAN] \ {NoMessage}
ASSUME MaxFlightAssumption == MaxFlight \in Nat

VARIABLES
  link,      \* "up" or "down"
  wire,      \* the units on their way
  buffer,    \* the units that arrived, with a Reset for each connection
  expected,  \* the message whose header was read, or NoMessage
  errors,    \* _msg_errors
  received,  \* the units of the payload that was accepted, if one just was
  misled     \* a part of a message that was cut was read since the last Reset

vars == <<link, wire, buffer, expected, errors, received, misled>>

Unit == [message : Message, place : Nat, cut : BOOLEAN]
Reset == [message |-> NoMessage, place |-> 0, cut |-> FALSE]

Units(m) == [i \in 1..(Header + m.length) |-> [message |-> m, place |-> i, cut |-> FALSE]]

TypeOK ==
  /\ link \in {"up", "down"}
  /\ wire \in Seq(Unit) /\ buffer \in Seq(Unit \cup {Reset})
  /\ expected \in Message \cup {NoMessage}
  /\ errors \in 0..3
  /\ received \in Seq(Unit)
  /\ misled \in BOOLEAN

Init ==
  /\ link = "down"
  /\ wire = <<>> /\ buffer = <<>> /\ received = <<>>
  /\ expected = NoMessage
  /\ errors = 0 /\ misled = FALSE

-----------------------------------------------------------------------------
(* The device and the network.                                              *)

Send ==
  /\ link = "up"
  /\ \E m \in Message :
       /\ Len(wire) + Len(buffer) + Header + m.length <= MaxFlight
       /\ wire' = wire \o Units(m)
  /\ UNCHANGED <<link, buffer, expected, errors, received, misled>>

\* A segment ends anywhere.
Arrive ==
  /\ \E k \in 1..Len(wire) :
       LET u == wire[k]
           whole == u.place = Header + u.message.length
       IN  /\ buffer' = buffer \o SubSeq(wire, 1, k - 1) \o <<[u EXCEPT !.cut = ~whole]>>
           /\ wire' = SubSeq(wire, k + 1, Len(wire))
  /\ UNCHANGED <<link, expected, errors, received, misled>>

Drop ==
  /\ link = "up"
  /\ link' = "down"
  /\ wire' = <<>>
  /\ UNCHANGED <<buffer, expected, errors, received, misled>>

\* What was not read of the link before may still be.
Connect ==
  /\ link = "down"
  /\ link' = "up"
  /\ \E left \in {<<>>, buffer} : Len(left) < MaxFlight /\ buffer' = Append(left, Reset)
  /\ UNCHANGED <<wire, expected, errors, received, misled>>

-----------------------------------------------------------------------------
(* The receive loop.                                                        *)

\* Transport._read: n units, or those that are there.
Available == LET end == SelectInSeq(buffer, LAMBDA u : u = Reset)
             IN  IF end = 0 THEN Len(buffer) ELSE end - 1
Data(n) == SubSeq(buffer, 1, IF n <= Available THEN n ELSE Available)

Consume(data) ==
  /\ buffer' = SubSeq(buffer, Len(data) + 1, Len(buffer))
  /\ misled' = (misled \/ \E u \in ToSet(data) : u.cut)

\* Seeded fault: the link is not given up.
FailOnly ==
  /\ expected' = NoMessage
  /\ received' = <<>>
  /\ errors' = IF errors > 2 THEN 0 ELSE errors + 1
  /\ UNCHANGED <<link, wire>>

\* Seeded fault: one more.
FailLate ==
  /\ expected' = NoMessage
  /\ received' = <<>>
  /\ IF errors > 3
     THEN link' = "down" /\ wire' = <<>> /\ errors' = 0
     ELSE errors' = errors + 1 /\ UNCHANGED <<link, wire>>

\* An error: three are allowed in a row.
Fail ==
  /\ expected' = NoMessage
  /\ received' = <<>>
  /\ IF errors > 2
     THEN /\ link' = "down"
          /\ wire' = <<>>
          /\ errors' = 0
     ELSE /\ errors' = errors + 1
          /\ UNCHANGED <<link, wire>>

\* An empty read.
ReadReset ==
  /\ buffer # <<>> /\ Head(buffer) = Reset
  /\ buffer' = Tail(buffer)
  /\ expected' = NoMessage
  /\ errors' = 0
  /\ misled' = FALSE
  /\ received' = <<>>
  /\ UNCHANGED <<link, wire>>

IsHeader(data) == Len(data) = Header /\ data[1].place = 1

\* The payload is read next.  A read of no bytes returns none, which is taken for the
\* end of a link and is no error.
Expect(m) ==
  /\ expected' = IF m.length = 0 THEN NoMessage ELSE m
  /\ errors' = IF m.length = 0 THEN 0 ELSE errors
  /\ received' = <<>>
  /\ UNCHANGED <<link, wire>>

\* Seeded fault: line 129 comes before line 117.
ReadHeaderRefusing ==
  /\ expected = NoMessage
  /\ Available > 0
  /\ LET data == Data(Header)
     IN  /\ Consume(data)
         /\ IF IsHeader(data) /\ data[1].message.sound THEN Expect(data[1].message) ELSE Fail

ReadHeader ==
  /\ expected = NoMessage
  /\ Available > 0
  /\ LET data == Data(Header)
     IN  /\ Consume(data)
         /\ IF IsHeader(data) THEN Expect(data[1].message) ELSE Fail

\* Seeded fault: line 118 is left out.
DecodesShort(data) == expected.length >= Shortest /\ expected.sound

\* Seeded fault: line 122 also refuses the shortest.
DecodesLonger(data) ==
  /\ Len(data) = expected.length
  /\ expected.length > Shortest
  /\ expected.sound

\* Lines 118 to 163.
Decodes(data) ==
  /\ Len(data) = expected.length
  /\ expected.length >= Shortest
  /\ expected.sound

ReadPayload ==
  /\ expected # NoMessage
  /\ Available > 0
  /\ LET data == Data(expected.length)
     IN  /\ Consume(data)
         /\ IF Decodes(data)
            THEN /\ received' = data
                 /\ expected' = NoMessage
                 /\ errors' = 0
                 /\ UNCHANGED <<link, wire>>
            ELSE Fail

Read == ReadReset \/ ReadHeader \/ ReadPayload

Next == Send \/ Arrive \/ Drop \/ Connect \/ Read

Spec == Init /\ [][Next]_vars

\* What is sent arrives or is lost, what arrived is read, and the stream
\* connects again.
FairSpec == Spec /\ WF_vars(Arrive) /\ WF_vars(Read) /\ WF_vars(Connect)

-----------------------------------------------------------------------------
(* Properties.                                                              *)

\* What is still to be read, up to the next Reset or the end of the link.
Ahead == LET end == SelectInSeq(buffer, LAMBDA u : u = Reset)
         IN  IF end = 0 THEN buffer \o wire ELSE SubSeq(buffer, 1, end - 1)

\* The reader is where it believes to be: at the start of a message, or behind
\* the header of the message it expects.
Aligned ==
  Ahead = <<>> \/ /\ Head(Ahead).place = IF expected = NoMessage THEN 1 ELSE Header + 1
                  /\ expected # NoMessage => Head(Ahead).message = expected

\* Whatever the network cuts and loses, what is accepted is a sound message as
\* the device sent it, whole.
Genuine ==
  received # <<>> =>
    LET m == received[1].message
    IN  /\ m.sound
        /\ Len(received) = m.length
        /\ \A i \in DOMAIN received : /\ received[i].message = m
                                      /\ received[i].place = Header + i

\* Only a message that was cut misleads the reader: it reads through a message
\* it cannot decode, and the end of a link.
OnlyCutsMislead == ~misled => Aligned

\* A sound message that the network does not cut is accepted.
UncutIsAccepted ==
  [][ReadPayload /\ ~misled' /\ expected.sound /\ expected.length >= Shortest
       => received' # <<>>]_vars

\* A reader that was misled finds the start of a message again: by the luck of
\* a short read, or by the errors that make the link be given up.
Realigns == ~Aligned ~> Aligned
=============================================================================
