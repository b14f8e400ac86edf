------------------------------- MODULE Stream -------------------------------
(***************************************************************************)
(* What one direction of a relayed connection promises: the units a peer   *)
(* sends, numbered 1, 2, ..., reach the other in that order, each once.    *)
(* Both directions of socks_server are compared with it.                   *)
(***************************************************************************)
EXTENDS Naturals, Sequences

VARIABLES sent, got

Init == sent = 0 /\ got = <<>>

Send == sent' = sent + 1 /\ got' = got

Deliver == /\ Len(got) < sent /\ sent' = sent
           /\ got' = Append(got, Len(got) + 1)

Next == Send \/ Deliver

Spec == Init /\ [][Next]_<<sent, got>>
=============================================================================
