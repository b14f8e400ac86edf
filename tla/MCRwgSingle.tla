----------------------------- MODULE MCRwgSingle -----------------------------
(* Small instances of RwgSingle for TLC. *)
EXTENDS RwgSingle

Ord == [k |-> "ord", n |-> 0]
Num(n) == [k |-> "num", n |-> n]
Both(n) == [k |-> "both", n |-> n]
NoUp == [from |-> 0, to |-> 0]
Up(a, b) == [from |-> a, to |-> b]
Plain(g) == [cmds |-> <<g>>, meds |-> <<>>, ups |-> <<NoUp>>]

MCPid == 1 .. 3
MCPipe == 1 .. 4
MCId == 1 .. 2
MCFd == 1 .. 2
MCProg == {"ls", "large", "cat", "ctt"}
MCEmit == [g \in MCProg |-> CASE g = "ls" -> 1 [] g = "large" -> 2 [] OTHER -> 0]
MCInitEnv == [v \in Var |-> Unset]

(* A numbered pipe from a program that is not found, its reader, a user    *)
(* pipe that is overfilled, one at the end of a line that counts as two, a *)
(* user pipe read and passed on, and a pipeline fed by a user pipe.        *)
MCLines ==
  { [cmds |-> <<"ctt">>, meds |-> <<Both(1)>>, ups |-> <<NoUp>>],
    Plain("cat"),
    [cmds |-> <<"large">>, meds |-> <<>>, ups |-> <<Up(0, 1)>>],
    [cmds |-> <<"ls", "cat">>, meds |-> <<Num(1)>>, ups |-> <<NoUp, Up(0, 2)>>],
    [cmds |-> <<"cat">>, meds |-> <<>>, ups |-> <<Up(2, 2)>>],
    [cmds |-> <<"cat", "cat">>, meds |-> <<Ord>>, ups |-> <<Up(1, 0), NoUp>>] }

StaleLines == { [cmds |-> <<"ls">>, meds |-> <<>>, ups |-> <<Up(0, 1)>>] }
=============================================================================
