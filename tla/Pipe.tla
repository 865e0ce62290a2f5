---------------------------------- MODULE Pipe ----------------------------------
(***************************************************************************)
(* What a relayed connection promises of one direction: the receiver has a  *)
(* prefix of what the sender has sent, byte by byte, and nothing is sent    *)
(* after the sender has ended.  The n-th byte is n.                         *)
(***************************************************************************)
EXTENDS Naturals, Sequences

VARIABLES
    sent,       \* the bytes sent
    received,   \* the bytes the receiver has, in the order of their arrival
    ended       \* the sender has ended its direction

vars == <<sent, received, ended>>

Init == sent = 0 /\ received = << >> /\ ended = FALSE

Send ==
    /\ ~ended
    /\ sent' = sent + 1
    /\ UNCHANGED <<received, ended>>

Deliver ==
    /\ Len(received) < sent
    /\ received' = Append(received, Len(received) + 1)
    /\ UNCHANGED <<sent, ended>>

End ==
    /\ ~ended
    /\ ended' = TRUE
    /\ UNCHANGED <<sent, received>>

Next == Send \/ Deliver \/ End

Spec == Init /\ [][Next]_vars

=============================================================================
