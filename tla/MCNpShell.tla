------------------------------ MODULE MCNpShell ------------------------------
(* Small instances of NpShell for TLC. *)
EXTENDS NpShell

Ord == [k |-> "ord", n |-> 0]
Num(n) == [k |-> "num", n |-> n]
Both(n) == [k |-> "both", n |-> n]
File == [k |-> "file", n |-> 0]

\* Three children at most, so that fork also fails; "large" overfills a pipe of one unit.
MCPid == 1 .. 3
MCPipe == 1 .. 4
MCProg == {"ls", "large", "cat", "ctt", "f"}
MCEmit == [g \in MCProg |-> CASE g = "ls" -> 1 [] g = "large" -> 2 [] OTHER -> 0]

(* A plain command, a pipe over a line, an unknown command with both its   *)
(* outputs piped, a reader, a pipeline, and a line whose first command     *)
(* pipes to the second as a numbered pipe and whose second goes to a file. *)
MCLines ==
  { [cmds |-> <<"ls">>, meds |-> <<>>],
    [cmds |-> <<"ls">>, meds |-> <<Num(2)>>],
    [cmds |-> <<"ctt">>, meds |-> <<Both(1)>>],
    [cmds |-> <<"cat">>, meds |-> <<>>],
    [cmds |-> <<"ls", "cat", "cat">>, meds |-> <<Ord, Ord>>],
    [cmds |-> <<"ls", "cat", "f">>, meds |-> <<Num(1), File>>] }

\* The example of a large file, its reader two lines further.
LargeLines ==
  { [cmds |-> <<"large">>, meds |-> <<Num(2)>>],
    [cmds |-> <<"ls">>, meds |-> <<>>],
    [cmds |-> <<"cat">>, meds |-> <<>>] }
=============================================================================
