----------------------------- MODULE MCNpSimple -----------------------------
(* Three users, so that one stays while another has left and a third waits. *)
EXTENDS NpSimple

CONSTANTS u1, u2, u3

MCUser == {u1, u2, u3}
MCMaxLeft == [u \in MCUser |-> IF u = u1 THEN 1 ELSE 0]
=============================================================================
