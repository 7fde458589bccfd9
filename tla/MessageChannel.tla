--------------------------- MODULE MessageChannel ---------------------------
(***************************************************************************)
(* What the event loop may rely on: the messages handed to the writer at   *)
(* the other end of a connection arrive whole, in order and once, until    *)
(* the connection is over or something else than a message of the session  *)
(* was written.  Codec implements this.                                    *)
(***************************************************************************)
EXTENDS Naturals, Sequences

CONSTANTS
    Items,   \* what may be written
    Session  \* the messages of the session among it

VARIABLES
    sent,       \* what was handed to the writer
    delivered,  \* messages the reader got
    over        \* whether the reader has given up

vars == <<sent, delivered, over>>

Init == sent = <<>> /\ delivered = <<>> /\ over = FALSE

Send ==
    /\ \E m \in Items : sent' = Append(sent, m)
    /\ UNCHANGED <<delivered, over>>

Deliver ==
    /\ ~over
    /\ Len(delivered) < Len(sent)
    /\ sent[Len(delivered) + 1] \in Session
    /\ delivered' = Append(delivered, sent[Len(delivered) + 1])
    /\ UNCHANGED <<sent, over>>

End ==
    /\ ~over
    /\ over' = TRUE
    /\ UNCHANGED <<sent, delivered>>

Next == Send \/ Deliver \/ End

Spec == Init /\ [][Next]_vars
=============================================================================
