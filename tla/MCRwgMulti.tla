----------------------------- MODULE MCRwgMulti -----------------------------
(* Small instances of RwgMulti for TLC. *)
EXTENDS RwgMulti

Send(n, t) == [from |-> 0, to |-> t, size |-> n, filter |-> FALSE]
Read(f, t) == [from |-> f, to |-> t, size |-> 0, filter |-> TRUE]
Ignore(f) == [from |-> f, to |-> 0, size |-> 0, filter |-> FALSE]

MCId == 1 .. 2
(* Sending to either user, oneself included, more than the FIFO holds for  *)
(* user 2; receiving from user 2, to read, to ignore and to send on to     *)
(* user 1.                                                                 *)
MCLines == {Send(1, 1), Send(2, 2), Read(2, 0), Read(2, 1), Ignore(2)}

\* User 2 sends, user 1 receives.
AgainLines == {Send(1, 1), Read(2, 0)}
=============================================================================
