----------------------------- MODULE MCConsole -----------------------------
(* Small instances of Console for TLC. *)
EXTENDS Console

CONSTANTS s1, s2

(* One shell with a script of two lines, the second of them "exit";        *)
(* another with an empty one, at which a user says something.              *)
MCShell == {s1, s2}
MCLines == [s \in Shell |-> IF s = s1 THEN 2 ELSE 0]
MCExit == [s \in Shell |-> Lines[s] + IF s = s1 THEN 0 ELSE 1]
MCMaxTyped == [s \in Shell |-> IF s = s1 THEN 2 ELSE 0]
MCMaxChat == [s \in Shell |-> IF s = s1 THEN 0 ELSE 1]

\* A message that looks like a prompt.
MCChats == {<<"%", "sp">>}
=============================================================================
