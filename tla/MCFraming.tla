----------------------------- MODULE MCFraming -----------------------------
(* Framing with a header of two units.                                       *)
EXTENDS Framing

\* One that is accepted, one that is not, of another length, and one without payload.
MCMessage == {[length |-> 2, sound |-> TRUE], [length |-> 1, sound |-> FALSE],
              [length |-> 0, sound |-> TRUE]}
=============================================================================
