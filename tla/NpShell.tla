------------------------------- MODULE NpShell -------------------------------
(***************************************************************************)
(* npshell (src/311552007_np_project1/npshell.cpp): one shell process that *)
(* reads a line, forks a child for each command of it, wires ordinary and  *)
(* numbered pipes between them, waits for the last one and prompts again.  *)
(* Its children run, block on pipes and exit concurrently, and each exit   *)
(* raises SIGCHLD, whose handler reaps with a blocking waitpid.            *)
(*                                                                         *)
(* A command line is the value parseLine returns: its commands and the     *)
(* mediums after them.  A program is what its pipes can tell: how many     *)
(* units it writes, and whether it first copies its input to its output.   *)
(***************************************************************************)
EXTENDS Naturals, Sequences, FiniteSets

CONSTANTS
  Pid,       \* child slots: as many processes as the user may run
  Pipe,      \* kernel pipes
  Cap,       \* units a pipe holds before a writer blocks
  Prog,      \* programs named on command lines
  Emit,      \* Emit[g]: units program g writes of its own
  Filter,    \* programs that copy standard input until end of file
  Missing,   \* names execvp does not find
  Lines,     \* command lines the user may type
  MaxLines   \* bound: lines typed in one behaviour

Med == [k : {"ord", "num", "both", "file"}, n : Nat]

IsNum(m) == m.k \in {"num", "both"}

(* What parseLine returns for the lines the assignment allows: a command   *)
(* follows every medium but a last numbered one, a file name follows the   *)
(* only redirection, and a numbered pipe points at a later line.           *)
ASSUME ConstantAssumption ==
  /\ Pid \subseteq Nat \ {0} /\ Pipe \subseteq Nat \ {0}
  /\ Cap \in Nat \ {0} /\ MaxLines \in Nat
  /\ Emit \in [Prog -> Nat] /\ Filter \subseteq Prog /\ Missing \subseteq Prog
  /\ \A l \in Lines :
       /\ l \in [cmds : Seq(Prog), meds : Seq(Med)]
       /\ Len(l.cmds) >= 1
       /\ Len(l.meds) \in {Len(l.cmds) - 1, Len(l.cmds)}
       /\ \A j \in 1 .. Len(l.meds) :
            /\ IsNum(l.meds[j]) => l.meds[j].n >= 1
            /\ l.meds[j].k = "file" => j + 1 = Len(l.cmds) /\ j = Len(l.meds)
            /\ j = Len(l.cmds) => IsNum(l.meds[j])

VARIABLES
  pc,              \* "prompt" (in getline), "loop", "wait" (waitpid) or "done"
  line, i,         \* the parsed line and the loop's index, from 1
  lineIdx,         \* the program's line counter
  pipes,           \* line number -> numbered pipe
  ordinary_pipes,  \* queue of ordinary pipes
  lastWaitChild,   \* child the shell waits for at the end of the line, or 0
  sigchld,         \* SIGCHLD is pending
  inHandler,       \* signalHandler is running, in waitpid(-1)
  kid,             \* the child in each slot
  buf,             \* content of each pipe: the destinations of its units
  typed,           \* lines typed so far
  base,            \* ghost: lines that count for numbered pipes, by the text
  builtins         \* ghost: those of them that were setenv or printenv

shellVars == <<pc, line, i, lineIdx, pipes, ordinary_pipes, lastWaitChild>>
vars == <<shellVars, sigchld, inHandler, kid, buf, typed, base, builtins>>

-----------------------------------------------------------------------------
(* Lines as text.  Where the user meant each command's output to go, read  *)
(* off the line alone: a count of the numbered lines before the command,   *)
(* never the shell's own counter.                                          *)

NoLine == [cmds |-> <<>>, meds |-> <<>>]
NoMed == [k |-> "none", n |-> 0]
MedOf(l, j) == IF j \in 1 .. Len(l.meds) THEN l.meds[j] ELSE NoMed
AtHead(l, j) == j = 1 \/ IsNum(MedOf(l, j - 1))

\* Mid-line numbered pipes before command j: each counts as a line of its own.
Counted(l, j) == Cardinality({h \in 1 .. (j - 1) : IsNum(MedOf(l, h))})
CountOf(l) == 1 + Counted(l, Len(l.cmds))

NumTag(k) == <<"num", k, 0>>     \* the first command of counted line k
OrdTag(s, j) == <<"ord", s, j>>  \* command j of the s-th typed line
TtyTag == <<"tty", 0, 0>>
Tag == {"num", "ord", "tty"} \X Nat \X Nat

Takes(l, s, b, j) == IF AtHead(l, j) THEN NumTag(b + Counted(l, j)) ELSE OrdTag(s, j)
Aims(l, s, b, j) ==
  LET m == MedOf(l, j)
  IN  IF m.k = "ord" THEN OrdTag(s, j + 1)
      ELSE IF IsNum(m) THEN NumTag(b + Counted(l, j) + m.n) ELSE TtyTag

-----------------------------------------------------------------------------
(* The kernel: pipes and processes.  Tty stands for a descriptor that is   *)
(* not a pipe: the terminal, the socket or a file.                         *)

Tty == 0

Kid == [st : {"free", "run", "zombie"}, prog : Prog \cup {"-"},
        in : Pipe \cup {Tty}, out : Pipe \cup {Tty}, err : Pipe \cup {Tty},
        rd : SUBSET Pipe, wr : SUBSET Pipe,   \* pipe ends it holds open
        left : Nat,                           \* units it has yet to write
        takes : Tag, to : Tag]                \* ghosts: what its text says

Gone(s) == [st |-> s, prog |-> "-", in |-> Tty, out |-> Tty, err |-> Tty,
            rd |-> {}, wr |-> {}, left |-> 0, takes |-> TtyTag, to |-> TtyTag]

Running == {p \in Pid : kid[p].st = "run"}
Zombies == {p \in Pid : kid[p].st = "zombie"}
FreePids == {p \in Pid : kid[p].st = "free"}

ShellOpen == {pipes[k] : k \in DOMAIN pipes}
             \cup {ordinary_pipes[j] : j \in 1 .. Len(ordinary_pipes)}
HasReader(q) == q \in ShellOpen \/ \E p \in Running : q \in kid[p].rd
HasWriter(q) == q \in ShellOpen \/ \E p \in Running : q \in kid[p].wr
FreePipes == {q \in Pipe : ~HasReader(q) /\ ~HasWriter(q)}

Lowest(S) == {x \in S : \A y \in S : x <= y}

\* Where program p writes: an unknown command only has its error message.
Sink(p) == IF kid[p].prog \in Missing THEN kid[p].err ELSE kid[p].out

KidRead(p) ==
  /\ kid[p].st = "run" /\ kid[p].prog \in Filter /\ kid[p].left = 0
  /\ kid[p].in # Tty /\ buf[kid[p].in] # <<>>
  /\ kid' = [kid EXCEPT ![p].left = 1]
  /\ buf' = [buf EXCEPT ![kid[p].in] = Tail(@)]
  /\ UNCHANGED <<shellVars, sigchld, inHandler, typed, base, builtins>>

\* A full pipe blocks its writer.
KidWrite(p) ==
  /\ kid[p].st = "run" /\ kid[p].left > 0
  /\ \/ Sink(p) = Tty /\ buf' = buf
     \/ /\ Sink(p) # Tty /\ HasReader(Sink(p)) /\ Len(buf[Sink(p)]) < Cap
        /\ buf' = [buf EXCEPT ![Sink(p)] = Append(@, kid[p].to)]
  /\ kid' = [kid EXCEPT ![p].left = @ - 1]
  /\ UNCHANGED <<shellVars, sigchld, inHandler, typed, base, builtins>>

AtEof(p) == kid[p].in # Tty /\ buf[kid[p].in] = <<>> /\ ~HasWriter(kid[p].in)
Broken(p) == kid[p].left > 0 /\ Sink(p) # Tty /\ ~HasReader(Sink(p))

\* The end of a child, by exit or by SIGPIPE; init reaps it once the shell is gone.
KidExit(p) ==
  /\ kid[p].st = "run"
  /\ \/ kid[p].left = 0 /\ (kid[p].prog \in Filter => AtEof(p))
     \/ Broken(p)
  /\ kid' = [kid EXCEPT ![p] = Gone(IF pc = "done" THEN "free" ELSE "zombie")]
  /\ sigchld' = (pc # "done")
  /\ UNCHANGED <<shellVars, inHandler, buf, typed, base, builtins>>

KidStep(p) == KidRead(p) \/ KidWrite(p) \/ KidExit(p)

Reap(p) == kid' = [kid EXCEPT ![p] = Gone("free")]

-----------------------------------------------------------------------------
(* signalHandler, installed with BSD semantics: SIGCHLD is blocked while   *)
(* it runs, pending signals do not add up, and main is suspended until its *)
(* waitpid(-1) has a child to reap or finds that there is none.  A pending *)
(* signal is delivered before main goes on, but a wait that it interrupts  *)
(* may already have found the child that ended.                            *)

Undisturbed == ~sigchld /\ ~inHandler

HandlerEnter ==
  /\ sigchld /\ ~inHandler /\ pc # "done"
  /\ sigchld' = FALSE /\ inHandler' = TRUE
  /\ UNCHANGED <<shellVars, kid, buf, typed, base, builtins>>

HandlerReap ==
  /\ inHandler /\ inHandler' = FALSE
  /\ \/ \E p \in Zombies : Reap(p)
     \/ FreePids = Pid /\ kid' = kid
  /\ UNCHANGED <<shellVars, sigchld, buf, typed, base, builtins>>

-----------------------------------------------------------------------------
(* main.                                                                   *)

NoPipes == [k \in {} |-> Tty]
Put(f, k, v) == [x \in DOMAIN f \cup {k} |-> IF x = k THEN v ELSE f[x]]
Keep(f, k) == f
Drop(f, k) == [x \in DOMAIN f \ {k} |-> f[x]]

\* A filter that starts a line reads what a numbered pipe brings, not the keyboard.
UserMeans(l) == l.cmds[1] \in Filter => lineIdx \in DOMAIN pipes

ReadLine ==
  /\ pc = "prompt" /\ Undisturbed /\ typed < MaxLines
  /\ \E l \in Lines : UserMeans(l) /\ line' = l
  /\ pc' = "loop" /\ i' = 1 /\ lastWaitChild' = 0 /\ typed' = typed + 1
  /\ UNCHANGED <<lineIdx, pipes, ordinary_pipes, sigchld, inHandler, kid, buf, base, builtins>>

ReadBlankCounts ==
  /\ pc = "prompt" /\ Undisturbed /\ typed < MaxLines
  /\ typed' = typed + 1 /\ lineIdx' = lineIdx + 1
  /\ UNCHANGED <<pc, line, i, pipes, ordinary_pipes, lastWaitChild,
                 sigchld, inHandler, kid, buf, base, builtins>>
ReadBlank ==
  /\ pc = "prompt" /\ Undisturbed /\ typed < MaxLines
  /\ typed' = typed + 1
  /\ UNCHANGED <<shellVars, sigchld, inHandler, kid, buf, base, builtins>>

(* setenv and printenv, alone on their line: it counts, but its numbered   *)
(* pipe, if it has one, is neither read nor closed.                        *)
ReadBuiltin ==
  /\ pc = "prompt" /\ Undisturbed /\ typed < MaxLines
  /\ typed' = typed + 1 /\ lineIdx' = lineIdx + 1
  /\ base' = base + 1 /\ builtins' = builtins \cup {base}
  /\ UNCHANGED <<pc, line, i, pipes, ordinary_pipes, lastWaitChild,
                 sigchld, inHandler, kid, buf>>

\* exit, or end of file on standard input.
ReadExit ==
  /\ pc = "prompt" /\ Undisturbed
  /\ pc' = "done" /\ pipes' = NoPipes /\ ordinary_pipes' = <<>>
  /\ kid' = [p \in Pid |-> IF p \in Zombies THEN Gone("free") ELSE kid[p]]
  /\ UNCHANGED <<line, i, lineIdx, lastWaitChild, sigchld, inHandler, buf, typed, base, builtins>>

M(j) == MedOf(line, j)
FromOrd == i > 1 /\ M(i - 1).k = "ord"
NextI == IF M(i).k = "file" THEN i + 2 ELSE i + 1  \* the file name is skipped

\* pipe() is called for an ordinary medium, and for a numbered one whose line has no pipe yet.
NeedsPipe == \/ M(i).k = "ord"
             \/ IsNum(M(i)) /\ (lineIdx + M(i).n) \notin DOMAIN pipes
FreshNone == {Tty}
Fresh == IF NeedsPipe THEN Lowest(FreePipes) ELSE {Tty}

\* The tables once the pipes of command i exist, q being the new one.
Made(q) == IF NeedsPipe /\ IsNum(M(i)) THEN Put(pipes, lineIdx + M(i).n, q) ELSE pipes
Queue(q) == IF M(i).k = "ord" THEN Append(ordinary_pipes, q) ELSE ordinary_pipes
FromNum(q) == AtHead(line, i) /\ lineIdx \in DOMAIN Made(q)

\* The child's descriptors: what it dups, after closing the ends it replaces.
In(q) == IF FromOrd THEN Head(ordinary_pipes)
         ELSE IF FromNum(q) THEN Made(q)[lineIdx] ELSE Tty
Out(q) == IF M(i).k = "ord" THEN Head(IF FromOrd THEN Tail(Queue(q)) ELSE Queue(q))
          ELSE IF IsNum(M(i)) THEN Made(q)[lineIdx + M(i).n] ELSE Tty
Open(q) == ShellOpen \cup ({q} \ {Tty})

\* Ends the child still holds when it runs: those of every pipe of the shell,
\* save the read end of the one it writes and the write end of the one it reads.
KeptRd(q) == Open(q) \ {Out(q)}
KeptWrAll(q) == Open(q)
KeptWr(q) == Open(q) \ {In(q)}

Child(q) ==
  LET g == line.cmds[i]
  IN  [st |-> "run", prog |-> g, in |-> In(q), out |-> Out(q),
       err |-> IF M(i).k = "both" THEN Out(q) ELSE Tty,
       rd |-> KeptRd(q), wr |-> KeptWr(q),
       left |-> IF g \in Missing THEN 1 ELSE Emit[g],
       takes |-> Takes(line, typed, base, i), to |-> Aims(line, typed, base, i)]

\* The commands whose child is the lastWaitChild of the line.
AwaitedNoFile == i = Len(line.meds) + 1
Awaited == i = Len(line.meds) + 1 \/ M(i).k = "file"

(* One iteration of the loop over the commands of the line: pipe, fork,    *)
(* the parent's bookkeeping, and the child's dups up to its execvp.  The   *)
(* child's part only closes copies of descriptors the parent still holds   *)
(* or has just closed, so that it can stand at the same point.             *)
ForkCmd ==
  /\ pc = "loop" /\ Undisturbed
  /\ \E p \in Lowest(FreePids), q \in Fresh :
       /\ kid' = [kid EXCEPT ![p] = Child(q)]
       /\ buf' = IF q = Tty THEN buf ELSE [buf EXCEPT ![q] = <<>>]
       /\ ordinary_pipes' = IF FromOrd THEN Tail(Queue(q)) ELSE Queue(q)
       /\ pipes' = IF FromNum(q) THEN Drop(Made(q), lineIdx) ELSE Made(q)
       /\ lastWaitChild' = IF Awaited THEN p ELSE lastWaitChild
  /\ lineIdx' = IF i < Len(line.cmds) /\ IsNum(M(i)) THEN lineIdx + 1 ELSE lineIdx
  /\ i' = NextI
  /\ pc' = IF NextI > Len(line.cmds) THEN "wait" ELSE "loop"
  /\ UNCHANGED <<line, sigchld, inHandler, typed, base, builtins>>

\* fork fails at the process limit: wait for any child, then try again.
ForkRetry ==
  /\ pc = "loop" /\ ~inHandler /\ FreePids = {}
  /\ \E p \in Zombies : Reap(p)
  /\ UNCHANGED <<shellVars, sigchld, inHandler, buf, typed, base, builtins>>

\* waitpid(lastWaitChild): reaps it, or fails at once when the handler already has.
WaitLast ==
  /\ pc = "wait" /\ ~inHandler
  /\ IF lastWaitChild = 0 THEN kid' = kid
     ELSE lastWaitChild \notin Running /\ Reap(lastWaitChild)
  /\ pc' = "prompt" /\ lineIdx' = lineIdx + 1 /\ base' = base + CountOf(line)
  /\ line' = NoLine /\ i' = 0 /\ lastWaitChild' = 0
  /\ UNCHANGED <<pipes, ordinary_pipes, sigchld, inHandler, buf, typed, builtins>>

-----------------------------------------------------------------------------
Init ==
  /\ pc = "prompt" /\ line = NoLine /\ i = 0 /\ lineIdx = 0
  /\ pipes = NoPipes /\ ordinary_pipes = <<>> /\ lastWaitChild = 0
  /\ sigchld = FALSE /\ inHandler = FALSE
  /\ kid = [p \in Pid |-> Gone("free")] /\ buf = [q \in Pipe |-> <<>>]
  /\ typed = 0 /\ base = 0 /\ builtins = {}

User == ReadLine \/ ReadBlank \/ ReadBuiltin \/ ReadExit
Main == ForkCmd \/ ForkRetry \/ WaitLast
Handler == HandlerEnter \/ HandlerReap
Kids == \E p \in Pid : KidStep(p)

\* The shell is gone and so are all its children.
Terminated == pc = "done" /\ FreePids = Pid /\ UNCHANGED vars

Next == User \/ Main \/ Handler \/ Kids \/ Terminated

(* The kernel schedules every process that can run and delivers a pending  *)
(* signal; nothing makes the user type.                                    *)
Fairness == /\ WF_vars(Main) /\ WF_vars(Handler)
            /\ \A p \in Pid : WF_vars(KidStep(p))

Spec == Init /\ [][Next]_vars
FairSpec == Spec /\ Fairness

-----------------------------------------------------------------------------
(* Properties.                                                             *)

\* Every variable has its type (the globals of npshell.cpp and its children).
TypeOK ==
  /\ pc \in {"prompt", "loop", "wait", "done"}
  /\ line \in Lines \cup {NoLine} /\ i \in Nat /\ lineIdx \in Nat
  /\ DOMAIN pipes \subseteq Nat /\ pipes \in [DOMAIN pipes -> Pipe]
  /\ ordinary_pipes \in Seq(Pipe) /\ lastWaitChild \in Pid \cup {0}
  /\ sigchld \in BOOLEAN /\ inHandler \in BOOLEAN
  /\ kid \in [Pid -> Kid] /\ buf \in [Pipe -> Seq(Tag)]
  /\ typed \in Nat /\ base \in Nat /\ builtins \subseteq Nat

(* A command that reads a pipe is the one the text of the lines designates *)
(* for it: everything in the pipe, and everything its writers may still    *)
(* put there, was meant for that command (the bookkeeping of pipes,        *)
(* ordinary_pipes and lineIdx across lines, mid-line numbers and blanks).  *)
RoutedAsWritten ==
  \A r \in Running : kid[r].in # Tty =>
    /\ \A j \in 1 .. Len(buf[kid[r].in]) : buf[kid[r].in][j] = kid[r].takes
    /\ \A w \in Running : kid[r].in \in {kid[w].out, kid[w].err}
                            => kid[w].to = kid[r].takes

(* No numbered pipe is passed over: at the prompt every open one is for    *)
(* this line or a later one, and no ordinary pipe is left open.  The       *)
(* exception is a pipe to a line that turned out to be setenv or printenv, *)
(* which the shell leaves open behind it for ever.                         *)
NoMissedPipe ==
  pc = "prompt" =>
    ordinary_pipes = <<>> /\ \A k \in DOMAIN pipes : k >= base \/ k \in builtins

(* Whoever waits for end of file on a pipe is not waiting for itself or    *)
(* for the shell that waits for it: neither holds the pipe's write end,    *)
(* and no two readers hold each other's.                                   *)
EofIsReachable ==
  \A r \in Running : kid[r].in # Tty =>
    /\ kid[r].in \notin ShellOpen
    /\ kid[r].in \notin kid[r].wr
    /\ \A w \in Running : ~(kid[r].in \in kid[w].wr /\ kid[w].in \in kid[r].wr)

\* The prompt comes back only after a command that writes to the user has ended,
\* whether main or the handler reaped it (waitpid at the end of the line).
PromptAfterOutput ==
  pc = "prompt" => \A p \in Running : kid[p].to # TtyTag

(* Every line the user types is done with at last and the shell reads the  *)
(* next one: neither waitpid(lastWaitChild) nor the handler's waitpid(-1)  *)
(* ever waits for a child that cannot end.                                 *)
PromptReturns == (pc \in {"loop", "wait"} \/ inHandler) ~> (pc = "prompt" /\ Undisturbed)
=============================================================================
