------------------------------ MODULE Mailbox ------------------------------
(***************************************************************************)
(* What a one-message mailbox between two threads promises: messages are   *)
(* received in the order they were sent, none is lost, repeated or         *)
(* changed, and the sender is at most Room messages ahead.                 *)
(***************************************************************************)
EXTENDS Naturals, Sequences

CONSTANTS Message, Room

VARIABLES sent, got

Init == sent = <<>> /\ got = <<>>

Send(m) == /\ Len(sent) - Len(got) < Room
           /\ sent' = Append(sent, m) /\ UNCHANGED got

Receive == /\ Len(got) < Len(sent)
           /\ got' = Append(got, sent[Len(got) + 1]) /\ UNCHANGED sent

Next == Receive \/ \E m \in Message : Send(m)

Spec == Init /\ [][Next]_<<sent, got>>
=============================================================================
