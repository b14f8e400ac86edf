---------------------------- MODULE NpShell_proofs ----------------------------
(***************************************************************************)
(* Safety of NpShell for every set of lines, programs, processes and pipes *)
(* and every pipe capacity.  The invariants of the runs are not inductive: *)
(* that a reader gets what was meant for it depends on what the shell's    *)
(* tables hold between the fork of the writers and that of the reader, so  *)
(* the induction goes through those tables and the line counter.           *)
(*                                                                         *)
(* The second half is about waiting: children are ordered as they were     *)
(* forked, so that none waits in a circle and a line always has somebody   *)
(* to go on.                                                               *)
(***************************************************************************)
EXTENDS NpShell, TLAPS, FiniteSetTheorems, SequenceTheorems, WellFoundedInduction

\* Everything in pipe q, now or later, is meant for t, and nobody reads q yet.
Wired(q, t) ==
  /\ \A j \in 1 .. Len(buf[q]) : buf[q][j] = t
  /\ \A w \in Running : q \in {kid[w].out, kid[w].err} => kid[w].to = t
  /\ \A r \in Running : kid[r].in # q

\* The shell's counter agrees with the count made from the text.
Cursor ==
  /\ pc = "prompt" => lineIdx = base
  /\ pc = "loop" => /\ line \in Lines /\ i \in 1 .. Len(line.cmds)
                    /\ lineIdx = base + Counted(line, i)
  /\ pc = "wait" => line \in Lines /\ lineIdx + 1 = base + CountOf(line)

\* The numbered pipes are distinct, each wired to its line, and none but
\* those that lead to built-ins is overdue.
NumTable ==
  /\ \A k, h \in DOMAIN pipes : pipes[k] = pipes[h] => k = h
  /\ \A k \in DOMAIN pipes : (k >= lineIdx \/ k \in builtins) /\ Wired(pipes[k], NumTag(k))
  /\ pc = "wait" \/ (pc = "loop" /\ ~AtHead(line, i)) => lineIdx \notin DOMAIN pipes

\* An ordinary pipe is open only between the forks of its two commands.
OrdQueue ==
  IF pc = "loop" /\ FromOrd
  THEN \E q \in Pipe : /\ ordinary_pipes = <<q>>
                       /\ Wired(q, OrdTag(typed, i))
                       /\ \A k \in DOMAIN pipes : pipes[k] # q
  ELSE ordinary_pipes = <<>>

\* A child holds the ends it uses.
Ends ==
  \A p \in Running : /\ kid[p].in # Tty => kid[p].in \in kid[p].rd
                     /\ kid[p].out # Tty => kid[p].out \in kid[p].wr
                     /\ kid[p].err \in {Tty, kid[p].out}

\* The child that writes to the user is the one the shell is waiting for.
Await ==
  \A p \in Running : kid[p].to = TtyTag => pc = "wait" /\ lastWaitChild = p

IInv == /\ TypeOK /\ Cursor /\ NumTable /\ OrdQueue /\ Ends /\ Await
        /\ RoutedAsWritten /\ EofIsReachable

-----------------------------------------------------------------------------
(* Types of the pieces.                                                    *)

LEMMA GoneType == \A s \in {"free", "run", "zombie"} : Gone(s) \in Kid
  BY DEF Gone, Kid, Tty, TtyTag, Tag

LEMMA TagTypes ==
  /\ TtyTag \in Tag
  /\ \A k \in Nat : NumTag(k) \in Tag
  /\ \A s, j \in Nat : OrdTag(s, j) \in Tag
  BY DEF TtyTag, NumTag, OrdTag, Tag

\* The medium after a command, where a line is one the user may type.
LEMMA MedType ==
  ASSUME NEW l \in Lines, NEW j \in Nat
  PROVE  /\ MedOf(l, j) \in [k : {"ord", "num", "both", "file", "none"}, n : Nat]
         /\ IsNum(MedOf(l, j)) => MedOf(l, j).n >= 1
<1>1. CASE j \in 1 .. Len(l.meds)
  <2>1. l.meds \in Seq(Med) /\ (IsNum(l.meds[j]) => l.meds[j].n >= 1)
    BY <1>1, ConstantAssumption
  <2>2. l.meds[j] \in Med
    BY <1>1, <2>1
  <2>3. MedOf(l, j) = l.meds[j]
    BY <1>1 DEF MedOf
  <2> QED BY <2>1, <2>2, <2>3 DEF Med
<1>2. CASE j \notin 1 .. Len(l.meds)
  BY <1>2 DEF MedOf, NoMed, IsNum
<1> QED BY <1>1, <1>2

\* Counting on by one command adds one exactly when a numbered pipe follows it.
LEMMA CountedStep ==
  ASSUME NEW l \in Lines, NEW j \in Nat \ {0}
  PROVE  /\ Counted(l, j) \in Nat
         /\ Counted(l, 1) = 0
         /\ Counted(l, j + 1) = IF IsNum(MedOf(l, j)) THEN Counted(l, j) + 1 ELSE Counted(l, j)
<1> DEFINE H(x) == {h \in 1 .. (x - 1) : IsNum(MedOf(l, h))}
<1>1. IsFiniteSet(H(j)) /\ Cardinality(H(j)) \in Nat
  <2>1. IsFiniteSet(1 .. (j - 1))
    BY FS_Interval
  <2>2. IsFiniteSet(H(j))
    BY <2>1, FS_Subset
  <2> QED BY <2>2, FS_CardinalityType
<1>2. H(1) = {}
  OBVIOUS
<1>3. H(j + 1) = IF IsNum(MedOf(l, j)) THEN H(j) \cup {j} ELSE H(j)
  OBVIOUS
<1>4. j \notin H(j)
  OBVIOUS
<1>5. Counted(l, 1) = 0
  BY <1>2, FS_EmptySet DEF Counted
<1>6. CASE IsNum(MedOf(l, j))
  <2>1. Cardinality(H(j + 1)) = Cardinality(H(j)) + 1
    BY <1>1, <1>3, <1>4, <1>6, FS_AddElement
  <2> QED BY <1>1, <1>5, <1>6, <2>1 DEF Counted
<1>7. CASE ~IsNum(MedOf(l, j))
  BY <1>1, <1>3, <1>5, <1>7 DEF Counted
<1> QED BY <1>6, <1>7

-----------------------------------------------------------------------------
(* Children only leave: what an exit, a reap and the handler preserve.     *)

Kept == buf' = buf /\ \A p \in Pid : kid'[p] = kid[p] \/ kid'[p].st # "run"

LEMMA WiredKept ==
  ASSUME Kept, NEW q, NEW t, Wired(q, t)
  PROVE  Wired(q, t)'
  BY DEF Kept, Wired, Running

LEMMA ReadersKept ==
  ASSUME IInv, Kept, ShellOpen' \subseteq ShellOpen
  PROVE  RoutedAsWritten' /\ EofIsReachable' /\ Ends'
<1>1. \A p \in Running' : p \in Running /\ kid'[p] = kid[p]
  BY DEF Kept, Running
<1>2. RoutedAsWritten'
  BY <1>1 DEF IInv, Kept, RoutedAsWritten
<1>3. EofIsReachable'
  BY <1>1 DEF IInv, EofIsReachable
<1>4. Ends'
  BY <1>1 DEF IInv, Ends
<1> QED BY <1>2, <1>3, <1>4

LEMMA KidsLeave ==
  ASSUME IInv, Kept, UNCHANGED <<shellVars, base, builtins>>, kid' \in [Pid -> Kid],
         sigchld' \in BOOLEAN, inHandler' \in BOOLEAN,
         typed' \in Nat, typed' = typed \/ pc = "prompt"
  PROVE  IInv'
<1>1. TypeOK'
  BY DEF IInv, TypeOK, Kept, shellVars
<1>2. Cursor'
  BY DEF IInv, Cursor, shellVars
<1>3. NumTable'
  BY WiredKept DEF IInv, NumTable, shellVars
<1>4. OrdQueue'
  <2>1. CASE pc = "loop" /\ FromOrd
    <3>1. PICK q \in Pipe : /\ ordinary_pipes = <<q>>
                            /\ Wired(q, OrdTag(typed, i))
                            /\ \A k \in DOMAIN pipes : pipes[k] # q
      BY <2>1 DEF IInv, OrdQueue
    <3>2. Wired(q, OrdTag(typed, i))'
      BY <2>1, <3>1, WiredKept DEF shellVars, OrdTag
    <3> QED BY <2>1, <3>1, <3>2 DEF OrdQueue, FromOrd, M, shellVars
  <2>2. CASE ~(pc = "loop" /\ FromOrd)
    BY <2>2 DEF IInv, OrdQueue, FromOrd, M, shellVars
  <2> QED BY <2>1, <2>2
<1>5. Await'
  BY DEF IInv, Await, Kept, Running, shellVars
<1>6. ShellOpen' = ShellOpen
  BY DEF ShellOpen, shellVars
<1> QED BY <1>1, <1>2, <1>3, <1>4, <1>5, <1>6, ReadersKept DEF IInv

LEMMA KidExitInv == ASSUME IInv, NEW p \in Pid, KidExit(p) PROVE IInv'
<1>1. kid' \in [Pid -> Kid]
  BY GoneType DEF KidExit, IInv, TypeOK
<1>2. Kept
  BY DEF KidExit, Kept, IInv, TypeOK, Gone
<1> QED BY <1>1, <1>2, KidsLeave DEF KidExit, IInv, TypeOK

LEMMA HandlerInv == ASSUME IInv, Handler PROVE IInv'
<1>1. CASE HandlerEnter
  BY <1>1, KidsLeave DEF HandlerEnter, Kept, IInv, TypeOK
<1>2. CASE HandlerReap
  <2>1. kid' \in [Pid -> Kid]
    BY <1>2, GoneType DEF HandlerReap, Reap, Zombies, IInv, TypeOK
  <2>2. Kept
    BY <1>2 DEF HandlerReap, Reap, Zombies, Kept, IInv, TypeOK, Gone
  <2> QED BY <1>2, <2>1, <2>2, KidsLeave DEF HandlerReap, IInv, TypeOK
<1> QED BY <1>1, <1>2 DEF Handler

LEMMA ForkRetryInv == ASSUME IInv, ForkRetry PROVE IInv'
<1>1. kid' \in [Pid -> Kid]
  BY GoneType DEF ForkRetry, Reap, Zombies, IInv, TypeOK
<1>2. Kept
  BY DEF ForkRetry, Reap, Zombies, Kept, IInv, TypeOK, Gone
<1> QED BY <1>1, <1>2, KidsLeave DEF ForkRetry, IInv, TypeOK

LEMMA ReadBlankInv == ASSUME IInv, ReadBlank PROVE IInv'
  BY KidsLeave DEF ReadBlank, Kept, IInv, TypeOK

-----------------------------------------------------------------------------
(* Children move data: only units change place, and a unit carries the     *)
(* destination of the child that wrote it.                                 *)

SameKids ==
  \A p \in Pid : /\ kid'[p].st = kid[p].st /\ kid'[p].to = kid[p].to
                 /\ kid'[p].in = kid[p].in /\ kid'[p].out = kid[p].out
                 /\ kid'[p].err = kid[p].err /\ kid'[p].takes = kid[p].takes
                 /\ kid'[p].rd = kid[p].rd /\ kid'[p].wr = kid[p].wr

\* Every unit that a pipe gains was meant for where a child that writes there aims.
Units ==
  \A q \in Pipe : \A j \in 1 .. Len(buf'[q]) :
     \/ \E h \in 1 .. Len(buf[q]) : buf'[q][j] = buf[q][h]
     \/ \E w \in Running : q \in {kid[w].out, kid[w].err} /\ buf'[q][j] = kid[w].to

LEMMA KidsMove ==
  ASSUME IInv, SameKids, Units, UNCHANGED <<shellVars, sigchld, inHandler, typed, base, builtins>>,
         kid' \in [Pid -> Kid], buf' \in [Pipe -> Seq(Tag)]
  PROVE  IInv'
<1>1. TypeOK'
  BY DEF IInv, TypeOK, shellVars
<1>2. Cursor'
  BY DEF IInv, Cursor, shellVars
<1>3. Running' = Running
  BY DEF Running, SameKids
<1>4. ASSUME NEW q \in Pipe, NEW t, Wired(q, t) PROVE Wired(q, t)'
  <2>1. \A j \in 1 .. Len(buf'[q]) : buf'[q][j] = t
    BY <1>4 DEF Wired, Units
  <2>2. \A w \in Running : q \in {kid'[w].out, kid'[w].err} => kid'[w].to = t
    BY <1>4 DEF Wired, SameKids, Running
  <2>3. \A r \in Running : kid'[r].in # q
    BY <1>4 DEF Wired, SameKids, Running
  <2> QED BY <1>3, <2>1, <2>2, <2>3 DEF Wired
<1>5. NumTable'
  <2>1. \A k \in DOMAIN pipes : pipes[k] \in Pipe
    BY DEF IInv, TypeOK
  <2> QED BY <1>4, <2>1 DEF IInv, NumTable, shellVars
<1>6. OrdQueue'
  <2>1. CASE pc = "loop" /\ FromOrd
    <3>1. PICK q \in Pipe : /\ ordinary_pipes = <<q>>
                            /\ Wired(q, OrdTag(typed, i))
                            /\ \A k \in DOMAIN pipes : pipes[k] # q
      BY <2>1 DEF IInv, OrdQueue
    <3>2. Wired(q, OrdTag(typed, i))'
      BY <2>1, <3>1, <1>4 DEF shellVars, OrdTag
    <3> QED BY <2>1, <3>1, <3>2 DEF OrdQueue, FromOrd, M, shellVars
  <2>2. CASE ~(pc = "loop" /\ FromOrd)
    BY <2>2 DEF IInv, OrdQueue, FromOrd, M, shellVars
  <2> QED BY <2>1, <2>2
<1>7. Ends' /\ Await' /\ EofIsReachable'
  <2>1. ShellOpen' = ShellOpen
    BY DEF ShellOpen, shellVars
  <2>2. \A p \in Running : p \in Pid
    BY DEF Running
  <2>3. Ends'
    BY <1>3, <2>2 DEF IInv, Ends, SameKids
  <2>4. Await'
    BY <1>3, <2>2 DEF IInv, Await, SameKids, shellVars
  <2>5. EofIsReachable'
    BY <1>3, <2>1, <2>2 DEF IInv, EofIsReachable, SameKids
  <2> QED BY <2>3, <2>4, <2>5
<1>8. RoutedAsWritten'
  <2> SUFFICES ASSUME NEW r \in Running, kid'[r].in # Tty
               PROVE  /\ \A j \in 1 .. Len(buf'[kid'[r].in]) :
                            buf'[kid'[r].in][j] = kid'[r].takes
                      /\ \A w \in Running : kid'[r].in \in {kid'[w].out, kid'[w].err}
                            => kid'[w].to = kid'[r].takes
    BY <1>3 DEF RoutedAsWritten
  <2>1. r \in Pid /\ kid[r].in \in Pipe /\ kid'[r].in = kid[r].in /\ kid'[r].takes = kid[r].takes
    BY DEF Running, SameKids, IInv, TypeOK, Kid
  <2>2. \A j \in 1 .. Len(buf[kid[r].in]) : buf[kid[r].in][j] = kid[r].takes
    BY <2>1 DEF IInv, RoutedAsWritten
  <2>3. \A w \in Running : kid[r].in \in {kid[w].out, kid[w].err} => kid[w].to = kid[r].takes
    BY <2>1 DEF IInv, RoutedAsWritten
  <2>4. \A j \in 1 .. Len(buf'[kid[r].in]) : buf'[kid[r].in][j] = kid[r].takes
    BY <2>1, <2>2, <2>3 DEF Units
  <2>5. \A w \in Running : kid[r].in \in {kid'[w].out, kid'[w].err} => kid'[w].to = kid[r].takes
    BY <2>3 DEF SameKids, Running
  <2> QED BY <2>1, <2>4, <2>5
<1> QED BY <1>1, <1>2, <1>5, <1>6, <1>7, <1>8 DEF IInv

LEMMA KidReadInv == ASSUME IInv, NEW p \in Pid, KidRead(p) PROVE IInv'
<1>1. kid \in [Pid -> Kid] /\ buf \in [Pipe -> Seq(Tag)] /\ kid[p].in \in Pipe
  BY DEF IInv, TypeOK, KidRead, Kid
<1>2. kid' \in [Pid -> Kid] /\ SameKids
  BY <1>1 DEF KidRead, Kid, SameKids
<1>3. buf' \in [Pipe -> Seq(Tag)]
  BY <1>1 DEF KidRead
<1>4. Units
  <2> SUFFICES ASSUME NEW q \in Pipe, NEW j \in 1 .. Len(buf'[q])
               PROVE  \E h \in 1 .. Len(buf[q]) : buf'[q][j] = buf[q][h]
    BY DEF Units
  <2>1. CASE q = kid[p].in
    <3>1. buf'[q] = Tail(buf[q]) /\ buf[q] \in Seq(Tag) /\ buf[q] # <<>>
      BY <1>1, <2>1 DEF KidRead
    <3>2. j + 1 \in 1 .. Len(buf[q]) /\ buf'[q][j] = buf[q][j + 1]
      BY <3>1
    <3> QED BY <3>2
  <2>2. CASE q # kid[p].in
    BY <1>1, <2>2 DEF KidRead
  <2> QED BY <2>1, <2>2
<1> QED BY <1>2, <1>3, <1>4, KidsMove DEF KidRead

LEMMA KidWriteInv == ASSUME IInv, NEW p \in Pid, KidWrite(p) PROVE IInv'
<1>1. kid \in [Pid -> Kid] /\ buf \in [Pipe -> Seq(Tag)] /\ p \in Running
  BY DEF IInv, TypeOK, KidWrite, Running
<1>2. kid' \in [Pid -> Kid] /\ SameKids
  <2>1. kid' = [kid EXCEPT ![p].left = kid[p].left - 1] /\ kid[p].left > 0
    BY <1>1 DEF KidWrite
  <2>2. kid[p].left \in Nat
    BY <1>1 DEF Kid, Running
  <2>3. kid[p].left - 1 \in Nat
    BY <2>1, <2>2
  <2> QED BY <1>1, <2>1, <2>3 DEF Kid, SameKids
<1>3. CASE Sink(p) = Tty
  BY <1>1, <1>2, <1>3, KidsMove DEF KidWrite, Units
<1>4. CASE Sink(p) # Tty
  <2>1. Sink(p) \in {kid[p].out, kid[p].err} /\ Sink(p) \in Pipe /\ kid[p].to \in Tag
    BY <1>1, <1>4 DEF Sink, Kid
  <2>2. buf' = [buf EXCEPT ![Sink(p)] = Append(@, kid[p].to)]
    BY <1>4 DEF KidWrite
  <2>3. buf' \in [Pipe -> Seq(Tag)]
    BY <1>1, <2>1, <2>2
  <2>4. Units
    <3> SUFFICES ASSUME NEW q \in Pipe, NEW j \in 1 .. Len(buf'[q])
                 PROVE  \/ \E h \in 1 .. Len(buf[q]) : buf'[q][j] = buf[q][h]
                        \/ \E w \in Running : q \in {kid[w].out, kid[w].err}
                                              /\ buf'[q][j] = kid[w].to
      BY DEF Units
    <3>1. CASE q = Sink(p)
      <4>1. buf'[q] = Append(buf[q], kid[p].to) /\ buf[q] \in Seq(Tag)
        BY <1>1, <2>2, <3>1
      <4>2. CASE j = Len(buf[q]) + 1
        BY <1>1, <2>1, <3>1, <4>1, <4>2
      <4>3. CASE j \in 1 .. Len(buf[q])
        BY <4>1, <4>3
      <4> QED BY <4>1, <4>2, <4>3
    <3>2. CASE q # Sink(p)
      BY <2>2, <3>2, <1>1
    <3> QED BY <3>1, <3>2
  <2> QED BY <1>2, <2>3, <2>4, KidsMove DEF KidWrite
<1> QED BY <1>3, <1>4

-----------------------------------------------------------------------------
(* The prompt.                                                             *)

LEMMA InitInv == Init => IInv
<1> SUFFICES ASSUME Init PROVE IInv
  OBVIOUS
<1>1. TypeOK
  <2>1. DOMAIN pipes = {}
    BY DEF Init, NoPipes
  <2>2. pipes \in [DOMAIN pipes -> Pipe] /\ DOMAIN pipes \subseteq Nat
    BY <2>1 DEF Init, NoPipes
  <2>3. kid \in [Pid -> Kid] /\ buf \in [Pipe -> Seq(Tag)]
    BY GoneType DEF Init
  <2>4. /\ pc = "prompt" /\ line = NoLine /\ i = 0 /\ lineIdx = 0
        /\ ordinary_pipes = <<>> /\ lastWaitChild = 0 /\ sigchld = FALSE
        /\ inHandler = FALSE /\ typed = 0 /\ base = 0 /\ builtins = {}
    BY DEF Init
  <2>5. ordinary_pipes \in Seq(Pipe)
    BY <2>4
  <2>6. /\ pc \in {"prompt", "loop", "wait", "done"} /\ line \in Lines \cup {NoLine}
        /\ sigchld \in BOOLEAN /\ inHandler \in BOOLEAN /\ lastWaitChild \in Pid \cup {0}
        /\ i \in Nat /\ lineIdx \in Nat /\ typed \in Nat /\ base \in Nat /\ builtins \subseteq Nat
    BY <2>4
  <2> QED BY ONLY <2>2, <2>3, <2>5, <2>6 DEF TypeOK
<1>2. Running = {}
  BY DEF Init, Running, Gone
<1>3. NumTable
  <2>1. DOMAIN pipes = {}
    BY DEF Init, NoPipes
  <2> QED BY <2>1 DEF NumTable
<1> QED BY <1>1, <1>2, <1>3 DEF IInv, Init, Cursor, OrdQueue, Ends, Await,
           RoutedAsWritten, EofIsReachable

LEMMA ReadLineInv == ASSUME IInv, ReadLine PROVE IInv'
<1> USE DEF ReadLine
<1>1. Kept
  BY DEF Kept
<1>2. line' \in Lines /\ Len(line'.cmds) >= 1 /\ Len(line'.cmds) \in Nat
  BY ConstantAssumption
<1>3. TypeOK'
  BY <1>2 DEF IInv, TypeOK
<1>4. Cursor'
  BY <1>2, CountedStep DEF IInv, TypeOK, Cursor
<1>5. ShellOpen' = ShellOpen
  BY DEF ShellOpen
<1>6. NumTable' /\ OrdQueue' /\ Await'
  <2>1. NumTable'
    BY <1>1, WiredKept DEF IInv, NumTable, AtHead
  <2>2. OrdQueue'
    BY DEF IInv, OrdQueue, FromOrd
  <2>3. Await'
    BY DEF IInv, Await, Running
  <2> QED BY <2>1, <2>2, <2>3
<1> QED BY <1>1, <1>3, <1>4, <1>5, <1>6, ReadersKept DEF IInv

LEMMA ReadBuiltinInv == ASSUME IInv, ReadBuiltin PROVE IInv'
<1> USE DEF ReadBuiltin
<1>1. Kept
  BY DEF Kept
<1>2. TypeOK'
  BY DEF IInv, TypeOK
<1>3. Cursor'
  BY DEF IInv, TypeOK, Cursor
<1>4. ShellOpen' = ShellOpen
  BY DEF ShellOpen
<1>5. NumTable'
  <2>1. \A k \in DOMAIN pipes : k >= lineIdx' \/ k \in builtins'
    BY DEF IInv, TypeOK, NumTable, Cursor
  <2> QED BY <1>1, <2>1, WiredKept DEF IInv, NumTable
<1>6. OrdQueue' /\ Await'
  BY DEF IInv, OrdQueue, Await, Running, FromOrd
<1> QED BY <1>1, <1>2, <1>3, <1>4, <1>5, <1>6, ReadersKept DEF IInv

LEMMA ReadExitInv == ASSUME IInv, ReadExit PROVE IInv'
<1>1. DOMAIN pipes' = {} /\ pipes' \in [DOMAIN pipes' -> Pipe]
  BY DEF ReadExit, NoPipes
<1>2. kid' \in [Pid -> Kid]
  BY GoneType DEF ReadExit, IInv, TypeOK
<1>3. /\ pc' = "done" /\ ordinary_pipes' = <<>>
      /\ UNCHANGED <<line, i, lineIdx, lastWaitChild, sigchld, inHandler, buf, typed, base, builtins>>
  BY DEF ReadExit
<1>4. Kept
  BY DEF ReadExit, Kept, IInv, TypeOK, Gone
<1>5. ShellOpen' \subseteq ShellOpen
  BY <1>1, <1>3 DEF ShellOpen
<1>6. TypeOK'
  <2>1. ordinary_pipes' \in Seq(Pipe)
    BY <1>3
  <2>2. /\ pc' \in {"prompt", "loop", "wait", "done"} /\ line' \in Lines \cup {NoLine}
        /\ sigchld' \in BOOLEAN /\ inHandler' \in BOOLEAN
        /\ lastWaitChild' \in Pid \cup {0} /\ buf' \in [Pipe -> Seq(Tag)]
        /\ i' \in Nat /\ lineIdx' \in Nat /\ typed' \in Nat /\ base' \in Nat
        /\ builtins' \subseteq Nat
    BY <1>3 DEF IInv, TypeOK
  <2> QED BY ONLY <1>1, <1>2, <2>1, <2>2 DEF TypeOK
<1>7. Cursor' /\ NumTable' /\ OrdQueue'
  BY <1>1, <1>3 DEF Cursor, NumTable, OrdQueue
<1>8. Await'
  BY <1>4 DEF ReadExit, IInv, Await, Kept, Running
<1> QED BY <1>4, <1>5, <1>6, <1>7, <1>8, ReadersKept DEF IInv

LEMMA WaitLastInv == ASSUME IInv, WaitLast PROVE IInv'
<1> USE DEF WaitLast
<1>1. kid' \in [Pid -> Kid]
  BY GoneType DEF IInv, TypeOK, Reap
<1>2. Kept
  BY DEF Kept, IInv, TypeOK, Reap, Gone
<1>3. CountOf(line) \in Nat /\ lineIdx' = base'
  <2>1. line \in Lines /\ Len(line.cmds) \in Nat \ {0}
    BY ConstantAssumption DEF IInv, Cursor
  <2>2. Counted(line, Len(line.cmds)) \in Nat
    BY <2>1, CountedStep
  <2>3. lineIdx + 1 = base + CountOf(line)
    BY DEF IInv, Cursor
  <2> QED BY <2>2, <2>3 DEF CountOf
<1>4. TypeOK'
  BY <1>1, <1>3 DEF IInv, TypeOK
<1>5. Cursor'
  BY <1>3 DEF Cursor
<1>6. ShellOpen' = ShellOpen
  BY DEF ShellOpen
<1>7. NumTable'
  <2>1. \A k \in DOMAIN pipes : k >= lineIdx' \/ k \in builtins'
    BY DEF IInv, TypeOK, NumTable
  <2> QED BY <1>2, <2>1, WiredKept DEF IInv, NumTable
<1>8. OrdQueue'
  BY DEF IInv, OrdQueue
<1>9. Await'
  <2> SUFFICES ASSUME NEW p \in Running', kid'[p].to = TtyTag PROVE FALSE
    BY DEF Await
  <2>1. p \in Running /\ kid'[p] = kid[p] /\ p \in Pid /\ p # 0
    BY <1>2, ConstantAssumption DEF Kept, Running
  <2>2. p = lastWaitChild
    BY <2>1 DEF IInv, Await
  <2> QED BY <2>1, <2>2
<1> QED BY <1>2, <1>4, <1>5, <1>6, <1>7, <1>8, <1>9, ReadersKept DEF IInv

-----------------------------------------------------------------------------
(* The loop.  First what one iteration computes, in the state it starts    *)
(* from: the line, the new pipe, and the pipes that the child reads and    *)
(* writes.                                                                 *)

LEMMA LoopLine ==
  ASSUME IInv, pc = "loop"
  PROVE  /\ line \in Lines /\ line.cmds \in Seq(Prog)
         /\ Len(line.cmds) \in Nat /\ Len(line.meds) \in Nat
         /\ i \in Nat \ {0} /\ i <= Len(line.cmds)
         /\ M(i) \in [k : {"ord", "num", "both", "file", "none"}, n : Nat]
         /\ IsNum(M(i)) => M(i).n >= 1
         /\ M(i).k = "none" => i = Len(line.meds) + 1 /\ i = Len(line.cmds)
         /\ M(i).k = "file" => i + 1 = Len(line.cmds)
         /\ M(i).k = "ord" => i < Len(line.cmds)
         /\ i = Len(line.meds) + 1 => M(i).k = "none"
<1>1. line \in Lines /\ i \in 1 .. Len(line.cmds)
  BY DEF IInv, Cursor
<1>2. line.cmds \in Seq(Prog) /\ line.meds \in Seq(Med) /\ Len(line.meds) \in {Len(line.cmds) - 1, Len(line.cmds)}
  BY <1>1, ConstantAssumption
<1>3. Len(line.cmds) \in Nat /\ Len(line.meds) \in Nat
  BY <1>2
<1>4. i \in Nat \ {0} /\ i <= Len(line.cmds)
  BY <1>1, <1>3
<1>5. M(i) \in [k : {"ord", "num", "both", "file", "none"}, n : Nat]
      /\ (IsNum(M(i)) => M(i).n >= 1)
  BY <1>1, <1>4, MedType DEF M
<1>6. CASE i \in 1 .. Len(line.meds)
  <2>1. M(i) = line.meds[i] /\ M(i) \in Med
    BY <1>2, <1>6 DEF M, MedOf
  <2>2. /\ M(i).k = "file" => i + 1 = Len(line.cmds)
        /\ i = Len(line.cmds) => IsNum(M(i))
    BY <1>1, <1>6, <2>1, ConstantAssumption
  <2> QED BY <1>1, <1>2, <1>3, <1>4, <1>5, <1>6, <2>1, <2>2 DEF Med, IsNum
<1>7. CASE i \notin 1 .. Len(line.meds)
  <2>1. M(i) = NoMed
    BY <1>7 DEF M, MedOf
  <2>2. i = Len(line.meds) + 1 /\ i = Len(line.cmds)
    BY <1>2, <1>3, <1>4, <1>7
  <2> QED BY <1>1, <1>2, <1>3, <1>4, <1>5, <2>1, <2>2 DEF NoMed
<1> QED BY <1>6, <1>7

LEMMA FreshPipe ==
  ASSUME IInv, NEW q \in Fresh
  PROVE  /\ q \in Pipe \cup {Tty} /\ (NeedsPipe <=> q # Tty)
         /\ q # Tty => /\ q \notin ShellOpen
                       /\ \A r \in Running : /\ kid[r].in # q /\ kid[r].out # q
                                             /\ kid[r].err # q
                                             /\ q \notin kid[r].rd /\ q \notin kid[r].wr
<1>1. CASE ~NeedsPipe
  BY <1>1 DEF Fresh
<1>2. CASE NeedsPipe
  <2>1. q \in FreePipes /\ q \in Pipe /\ q # Tty
    BY <1>2, ConstantAssumption DEF Fresh, Lowest, FreePipes, Tty
  <2>2. q \notin ShellOpen /\ \A r \in Running : q \notin kid[r].rd /\ q \notin kid[r].wr
    BY <2>1 DEF FreePipes, HasReader, HasWriter
  <2>3. \A r \in Running : kid[r].in # q /\ kid[r].out # q /\ kid[r].err # q
    BY <2>1, <2>2 DEF IInv, Ends
  <2> QED BY <1>2, <2>1, <2>2, <2>3
<1> QED BY <1>1, <1>2

\* The numbered pipes while command i is being forked.
LEMMA MadeTable ==
  ASSUME IInv, pc = "loop", NEW q \in Fresh
  PROVE  /\ DOMAIN Made(q) \subseteq Nat
         /\ \A k \in DOMAIN Made(q) :
              /\ k >= lineIdx \/ k \in builtins
              /\ \/ k \in DOMAIN pipes /\ Made(q)[k] = pipes[k] /\ pipes[k] \in Pipe
                    /\ pipes[k] # q /\ Wired(pipes[k], NumTag(k))
                 \/ Made(q)[k] = q /\ q \in Pipe /\ NeedsPipe
                    /\ IsNum(M(i)) /\ k = lineIdx + M(i).n
         /\ \A k, h \in DOMAIN Made(q) : Made(q)[k] = Made(q)[h] => k = h
         /\ IsNum(M(i)) => lineIdx + M(i).n \in DOMAIN Made(q)
         /\ DOMAIN pipes \subseteq DOMAIN Made(q)
         /\ Made(q) \in [DOMAIN Made(q) -> Pipe]
         /\ lineIdx \in DOMAIN Made(q) => lineIdx \in DOMAIN pipes
<1>1. /\ lineIdx \in Nat /\ DOMAIN pipes \subseteq Nat /\ pipes \in [DOMAIN pipes -> Pipe]
      /\ \A k \in DOMAIN pipes : (k >= lineIdx \/ k \in builtins) /\ Wired(pipes[k], NumTag(k))
      /\ \A k, h \in DOMAIN pipes : pipes[k] = pipes[h] => k = h
  BY DEF IInv, TypeOK, NumTable
<1>2. M(i).n \in Nat /\ (IsNum(M(i)) => M(i).n >= 1)
  BY LoopLine
<1>3. /\ q \in Pipe \cup {Tty} /\ (NeedsPipe <=> q # Tty)
      /\ q # Tty => \A k \in DOMAIN pipes : pipes[k] # q
  BY FreshPipe DEF ShellOpen
<1>4. Tty \notin Pipe
  BY ConstantAssumption DEF Tty
<1>5. CASE NeedsPipe /\ IsNum(M(i))
  <2>1. Made(q) = Put(pipes, lineIdx + M(i).n, q)
    BY <1>5 DEF Made
  <2>2. lineIdx + M(i).n \notin DOMAIN pipes
    BY <1>5 DEF NeedsPipe, IsNum
  <2>3. lineIdx + M(i).n \in Nat /\ lineIdx + M(i).n > lineIdx
    BY <1>1, <1>2, <1>5
  <2> QED BY <1>1, <1>3, <1>4, <1>5, <2>1, <2>2, <2>3 DEF Put
<1>6. CASE ~(NeedsPipe /\ IsNum(M(i)))
  <2>1. Made(q) = pipes
    BY <1>6 DEF Made
  <2>2. IsNum(M(i)) => lineIdx + M(i).n \in DOMAIN pipes
    BY <1>6 DEF NeedsPipe
  <2>3. \A k \in DOMAIN pipes : pipes[k] # q
    BY <1>1, <1>3, <1>4
  <2> QED BY <1>1, <2>1, <2>2, <2>3
<1> QED BY <1>5, <1>6

\* What the command reads is shell-held, and wired to what its text says it takes.
LEMMA InPipe ==
  ASSUME IInv, pc = "loop", NEW q \in Fresh, In(q) # Tty
  PROVE  /\ In(q) \in Pipe /\ In(q) \in ShellOpen /\ In(q) # q
         /\ Wired(In(q), Takes(line, typed, base, i))
         /\ IF FromOrd THEN ordinary_pipes = <<In(q)>> /\ \A k \in DOMAIN pipes : pipes[k] # In(q)
            ELSE FromNum(q) /\ lineIdx \in DOMAIN pipes /\ In(q) = pipes[lineIdx]
<1>1. CASE FromOrd
  <2>1. PICK x \in Pipe : /\ ordinary_pipes = <<x>> /\ Wired(x, OrdTag(typed, i))
                          /\ \A k \in DOMAIN pipes : pipes[k] # x
    BY <1>1 DEF IInv, OrdQueue
  <2>2. In(q) = x
    BY <1>1, <2>1 DEF In
  <2>3. x \in ShellOpen
    BY <2>1 DEF ShellOpen
  <2>4. ~AtHead(line, i)
    BY <1>1, LoopLine DEF FromOrd, M, AtHead, IsNum
  <2>5. x # q
    BY <2>1, <2>3, FreshPipe, ConstantAssumption DEF Tty
  <2> QED BY <1>1, <2>1, <2>2, <2>3, <2>4, <2>5 DEF Takes
<1>2. CASE ~FromOrd
  <2>1. FromNum(q) /\ In(q) = Made(q)[lineIdx]
    BY <1>2 DEF In
  <2>2. AtHead(line, i) /\ lineIdx \in DOMAIN Made(q)
    BY <2>1 DEF FromNum
  <2>3. /\ lineIdx \in DOMAIN pipes /\ lineIdx \in Nat
        /\ lineIdx + M(i).n = lineIdx => ~IsNum(M(i))
    BY <2>2, MadeTable, LoopLine DEF IInv, TypeOK
  <2>4. /\ In(q) = pipes[lineIdx] /\ pipes[lineIdx] \in Pipe /\ pipes[lineIdx] # q
        /\ Wired(pipes[lineIdx], NumTag(lineIdx))
    BY <2>1, <2>2, <2>3, MadeTable
  <2>5. Takes(line, typed, base, i) = NumTag(lineIdx)
    BY <2>2 DEF Takes, IInv, Cursor
  <2>6. pipes[lineIdx] \in ShellOpen
    BY <2>3 DEF ShellOpen
  <2> QED BY <1>2, <2>1, <2>3, <2>4, <2>5, <2>6
<1> QED BY <1>1, <1>2

OrdAfter(q) == IF FromOrd THEN Tail(Queue(q)) ELSE Queue(q)
NumAfter(q) == IF FromNum(q) THEN Drop(Made(q), lineIdx) ELSE Made(q)

LEMMA ShortSeq ==
  ASSUME NEW S, NEW x \in S, NEW y \in S
  PROVE  /\ Append(<<x>>, y) = <<x, y>> /\ Tail(<<x, y>>) = <<y>>
         /\ Tail(<<x>>) = <<>> /\ Append(<<>>, y) = <<y>>
         /\ Head(<<y>>) = y
<1>1. <<x>> \in Seq(S) /\ <<x, y>> \in Seq(S) /\ <<y>> \in Seq(S) /\ <<>> \in Seq(S)
  OBVIOUS
<1>2. Append(<<x>>, y) = <<x, y>> /\ Append(<<>>, y) = <<y>>
  <2>1. /\ Append(<<x>>, y) \in Seq(S) /\ Len(Append(<<x>>, y)) = 2
        /\ Append(<<x>>, y)[1] = x /\ Append(<<x>>, y)[2] = y
    BY <1>1
  <2>2. /\ Append(<<>>, y) \in Seq(S) /\ Len(Append(<<>>, y)) = 1
        /\ Append(<<>>, y)[1] = y
    BY <1>1
  <2>3. Append(<<x>>, y) = <<x, y>>
    <3>1. Len(<<x, y>>) = 2 /\ <<x, y>>[1] = x /\ <<x, y>>[2] = y
      OBVIOUS
    <3>2. \A n \in 1 .. 2 : Append(<<x>>, y)[n] = <<x, y>>[n]
      BY <2>1, <3>1
    <3> QED BY <1>1, <2>1, <3>1, <3>2, SeqEqual
  <2>4. Append(<<>>, y) = <<y>>
    <3>1. Len(<<y>>) = 1 /\ <<y>>[1] = y
      OBVIOUS
    <3>2. \A n \in 1 .. 1 : Append(<<>>, y)[n] = <<y>>[n]
      BY <2>2, <3>1
    <3> QED BY <1>1, <2>2, <3>1, <3>2, SeqEqual
  <2> QED BY <2>3, <2>4
<1>3. Tail(<<x, y>>) = <<y>>
  <2>1. Tail(<<x, y>>) \in Seq(S) /\ Len(Tail(<<x, y>>)) = 1 /\ Tail(<<x, y>>)[1] = y
    BY <1>1
  <2> QED BY <1>1, <2>1
<1>4. Tail(<<x>>) = <<>>
  <2>1. Tail(<<x>>) \in Seq(S) /\ Len(Tail(<<x>>)) = 0
    BY <1>1
  <2> QED BY <1>1, <2>1
<1>5. Head(<<y>>) = y
  BY <1>1
<1> QED BY <1>2, <1>3, <1>4, <1>5

\* What the command writes, and what it aims at, go together.
LEMMA OutPipe ==
  ASSUME IInv, pc = "loop", NEW q \in Fresh
  PROVE  /\ M(i).k = "ord" => /\ Out(q) = q /\ q \in Pipe /\ OrdAfter(q) = <<q>>
                              /\ Aims(line, typed, base, i) = OrdTag(typed, i + 1)
         /\ IsNum(M(i)) => /\ lineIdx + M(i).n \in DOMAIN Made(q)
                           /\ Out(q) = Made(q)[lineIdx + M(i).n] /\ OrdAfter(q) = <<>>
                           /\ Aims(line, typed, base, i) = NumTag(lineIdx + M(i).n)
         /\ M(i).k \in {"none", "file"} => /\ Out(q) = Tty /\ OrdAfter(q) = <<>>
                                           /\ Aims(line, typed, base, i) = TtyTag
<1>1. IF FromOrd THEN \E x \in Pipe : ordinary_pipes = <<x>> ELSE ordinary_pipes = <<>>
  BY DEF IInv, OrdQueue
<1>2. CASE M(i).k = "ord"
  <2>1. OrdAfter(q) = <<q>>
    <3>1. CASE FromOrd
      <4>1. PICK x \in Pipe : ordinary_pipes = <<x>>
        BY <1>1, <3>1
      <4>2. Queue(q) = <<x, q>>
        BY <1>2, <4>1, FreshPipe, ShortSeq DEF Queue
      <4>3. Tail(<<x, q>>) = <<q>>
        BY FreshPipe, ShortSeq
      <4> QED BY <3>1, <4>2, <4>3 DEF OrdAfter
    <3>2. CASE ~FromOrd
      BY <1>1, <1>2, <3>2, FreshPipe, ShortSeq DEF OrdAfter, Queue
    <3> QED BY <3>1, <3>2
  <2>2. Out(q) = q
    BY <1>2, <2>1, FreshPipe, ShortSeq DEF Out, OrdAfter
  <2>3. q \in Pipe
    BY <1>2, FreshPipe DEF NeedsPipe
  <2>4. ~IsNum(M(i)) /\ M(i).k \notin {"none", "file"}
    BY <1>2 DEF IsNum
  <2>5. Aims(line, typed, base, i) = OrdTag(typed, i + 1)
    BY <1>2 DEF Aims, M
  <2> QED BY <2>1, <2>2, <2>3, <2>4, <2>5
<1>3. CASE M(i).k # "ord"
  <2>1. OrdAfter(q) = <<>>
    <3>1. CASE FromOrd
      BY <1>1, <1>3, <3>1, ShortSeq DEF OrdAfter, Queue
    <3>2. CASE ~FromOrd
      BY <1>1, <1>3, <3>2 DEF OrdAfter, Queue
    <3> QED BY <3>1, <3>2
  <2>2. CASE IsNum(M(i))
    <3>1. Out(q) = Made(q)[lineIdx + M(i).n]
      BY <1>3, <2>2 DEF Out
    <3>2. Aims(line, typed, base, i) = NumTag(base + Counted(line, i) + M(i).n)
      BY <1>3, <2>2 DEF Aims, M
    <3>3. base + Counted(line, i) = lineIdx
      BY DEF IInv, Cursor
    <3>4. M(i).k \notin {"none", "file"}
      BY <2>2 DEF IsNum
    <3> QED BY <1>3, <2>1, <2>2, <3>1, <3>2, <3>3, <3>4, MadeTable
  <2>3. CASE ~IsNum(M(i))
    BY <1>3, <2>1, <2>3 DEF Out, Aims, M
  <2> QED BY <2>2, <2>3
<1> QED BY <1>2, <1>3

\* The new child, and every pipe but those it uses, as they are after the fork.
LEMMA ForkCmdInv == ASSUME IInv, ForkCmd PROVE IInv'
<1>1. pc = "loop"
  BY DEF ForkCmd
<1>2. PICK p \in Lowest(FreePids), q \in Fresh :
        /\ kid' = [kid EXCEPT ![p] = Child(q)]
        /\ buf' = IF q = Tty THEN buf ELSE [buf EXCEPT ![q] = <<>>]
        /\ ordinary_pipes' = OrdAfter(q)
        /\ pipes' = NumAfter(q)
        /\ lastWaitChild' = IF Awaited THEN p ELSE lastWaitChild
  BY DEF ForkCmd, OrdAfter, NumAfter
<1>3. /\ lineIdx' = IF i < Len(line.cmds) /\ IsNum(M(i)) THEN lineIdx + 1 ELSE lineIdx
      /\ i' = NextI /\ pc' = IF NextI > Len(line.cmds) THEN "wait" ELSE "loop"
      /\ UNCHANGED <<line, sigchld, inHandler, typed, base, builtins>>
  BY DEF ForkCmd
<1>4. p \in Pid /\ p \notin Running /\ p # 0
  BY ConstantAssumption DEF Lowest, FreePids, Running
<1>5. /\ kid \in [Pid -> Kid] /\ buf \in [Pipe -> Seq(Tag)] /\ Tty \notin Pipe
      /\ lineIdx \in Nat /\ typed \in Nat /\ base \in Nat
  BY ConstantAssumption DEF IInv, TypeOK, Tty
<1>6. /\ q \in Pipe \cup {Tty}
      /\ \A r \in Pipe : r # q => buf'[r] = buf[r]
      /\ q # Tty => buf'[q] = <<>>
      /\ buf' \in [Pipe -> Seq(Tag)]
  BY <1>2, <1>5, FreshPipe
<1>7. /\ Running' = Running \cup {p}
      /\ \A r \in Running : r # p /\ r \in Pid /\ kid'[r] = kid[r]
      /\ kid'[p] = Child(q)
  <2>1. Child(q).st = "run"
    BY DEF Child
  <2> QED BY <1>2, <1>4, <1>5, <2>1 DEF Running
<1>8. /\ Child(q).in = In(q) /\ Child(q).out = Out(q) /\ Child(q).err \in {Tty, Out(q)}
      /\ Child(q).rd = KeptRd(q) /\ Child(q).wr = KeptWr(q)
      /\ Child(q).takes = Takes(line, typed, base, i)
      /\ Child(q).to = Aims(line, typed, base, i)
  BY DEF Child
<1>9. /\ In(q) \in Pipe \cup {Tty} /\ Out(q) \in Pipe \cup {Tty}
      /\ Out(q) # Tty => Out(q) # In(q) /\ Out(q) \in Open(q)
      /\ In(q) # Tty => In(q) \in Open(q)
  <2>1. In(q) # Tty => In(q) \in Pipe /\ In(q) \in ShellOpen /\ In(q) # q
    BY <1>1, InPipe
  <2>2. CASE M(i).k = "ord"
    BY <1>1, <1>5, <2>1, <2>2, OutPipe DEF Open
  <2>3. CASE IsNum(M(i))
    <3> DEFINE key == lineIdx + M(i).n
    <3>1. key \in DOMAIN Made(q) /\ Out(q) = Made(q)[key] /\ key # lineIdx
      BY <1>1, <1>5, <2>3, OutPipe, LoopLine
    <3>2. \/ key \in DOMAIN pipes /\ Out(q) = pipes[key] /\ pipes[key] \in Pipe
          \/ Out(q) = q /\ q \in Pipe
      BY <1>1, <3>1, MadeTable
    <3>3. Out(q) \in Open(q) /\ Out(q) \in Pipe
      BY <1>5, <3>2 DEF Open, ShellOpen
    <3>4. ASSUME In(q) # Tty PROVE Out(q) # In(q)
      <4>1. CASE FromOrd
        BY <1>1, <2>1, <3>2, <3>4, <4>1, InPipe
      <4>2. CASE ~FromOrd
        <5>1. lineIdx \in DOMAIN Made(q) /\ In(q) = Made(q)[lineIdx]
          BY <1>1, <3>4, <4>2, InPipe DEF In, FromNum
        <5> QED BY <1>1, <3>1, <5>1, MadeTable
      <4> QED BY <4>1, <4>2
    <3> QED BY <1>5, <2>1, <3>3, <3>4 DEF Open
  <2>4. CASE M(i).k \in {"none", "file"}
    BY <1>1, <2>1, <2>4, OutPipe DEF Open
  <2> QED BY <1>1, <2>2, <2>3, <2>4, LoopLine DEF IsNum
<1>10. Child(q) \in Kid
  <2>1. line.cmds[i] \in Prog
    BY <1>1, LoopLine
  <2>2. Open(q) \subseteq Pipe
    BY <1>6 DEF IInv, TypeOK, Open, ShellOpen
  <2>3. (IF line.cmds[i] \in Missing THEN 1 ELSE Emit[line.cmds[i]]) \in Nat
    BY <2>1, ConstantAssumption
  <2>4. Counted(line, i) \in Nat /\ M(i).n \in Nat /\ i \in Nat
    BY <1>1, LoopLine, CountedStep
  <2>5. Takes(line, typed, base, i) \in Tag /\ Aims(line, typed, base, i) \in Tag
    BY <1>5, <2>4, TagTypes DEF Takes, Aims, M
  <2> QED BY <1>9, <2>1, <2>2, <2>3, <2>5 DEF Child, Kid, KeptRd, KeptWr
<1>11. /\ NextI \in Nat
       /\ NextI <= Len(line.cmds) => NextI = i + 1 /\ i < Len(line.cmds) /\ M(i).k \notin {"none", "file"}
       /\ i < Len(line.cmds) /\ M(i).k # "file" => NextI = i + 1
  BY <1>1, LoopLine DEF NextI
<1> DEFINE WiredNext(r, t) ==
      /\ \A j \in 1 .. Len(buf'[r]) : buf'[r][j] = t
      /\ \A w \in Running' : r \in {kid'[w].out, kid'[w].err} => kid'[w].to = t
      /\ \A w \in Running' : kid'[w].in # r
<1>12. ASSUME NEW r \in Pipe, NEW t, Wired(r, t) \/ r = q, r # In(q),
              r = Out(q) => Aims(line, typed, base, i) = t
       PROVE  WiredNext(r, t)
  <2>1. \A j \in 1 .. Len(buf'[r]) : buf'[r][j] = t
    BY <1>5, <1>6, <1>12 DEF Wired
  <2>2. \A w \in Running : r \in {kid[w].out, kid[w].err} => kid[w].to = t
    BY <1>5, <1>12, FreshPipe DEF Wired
  <2>3. \A w \in Running : kid[w].in # r
    BY <1>5, <1>12, FreshPipe DEF Wired
  <2>4. \A w \in Running' : r \in {kid'[w].out, kid'[w].err} => kid'[w].to = t
    BY <1>5, <1>7, <1>8, <1>12, <2>2
  <2>5. \A w \in Running' : kid'[w].in # r
    BY <1>7, <1>8, <1>12, <2>3
  <2> QED BY <2>1, <2>4, <2>5
<1>13. /\ DOMAIN pipes' \subseteq DOMAIN Made(q) /\ DOMAIN Made(q) \subseteq Nat
       /\ \A k \in DOMAIN pipes' : pipes'[k] = Made(q)[k] /\ pipes'[k] \in Pipe
                                   /\ pipes'[k] \in Open(q) /\ pipes'[k] # In(q)
       /\ lineIdx \notin DOMAIN pipes' /\ pipes' \in [DOMAIN pipes' -> Pipe]
  <2>1. /\ DOMAIN pipes' \subseteq DOMAIN Made(q)
        /\ pipes' \in [DOMAIN pipes' -> Pipe]
        /\ \A k \in DOMAIN pipes' : pipes'[k] = Made(q)[k]
        /\ FromNum(q) => lineIdx \notin DOMAIN pipes'
    BY <1>1, <1>2, MadeTable DEF NumAfter, Drop
  <2>2. lineIdx \notin DOMAIN pipes'
    BY <1>1, <2>1, MadeTable DEF FromNum, IInv, NumTable
  <2>3. \A k \in DOMAIN Made(q) : Made(q)[k] \in Pipe /\ Made(q)[k] \in Open(q)
    BY <1>1, <1>5, MadeTable DEF Open, ShellOpen
  <2>4. ASSUME NEW k \in DOMAIN pipes' PROVE pipes'[k] # In(q)
    <3>1. CASE In(q) = Tty
      BY <1>5, <2>1, <2>3, <3>1
    <3>2. CASE In(q) # Tty /\ FromOrd
      <4>1. In(q) # q /\ \A h \in DOMAIN pipes : pipes[h] # In(q)
        BY <1>1, <3>2, InPipe
      <4> QED BY <1>1, <2>1, <2>4, <4>1, MadeTable
    <3>3. CASE In(q) # Tty /\ ~FromOrd
      <4>1. lineIdx \in DOMAIN Made(q) /\ In(q) = Made(q)[lineIdx]
        BY <1>1, <3>3, InPipe DEF In, FromNum
      <4> QED BY <1>1, <2>1, <2>2, <2>4, <4>1, MadeTable
    <3> QED BY <3>1, <3>2, <3>3
  <2> QED BY <1>1, <2>1, <2>2, <2>3, <2>4, MadeTable
<1>14. \A k \in DOMAIN pipes' : WiredNext(pipes'[k], NumTag(k))
  <2> SUFFICES ASSUME NEW k \in DOMAIN pipes' PROVE WiredNext(Made(q)[k], NumTag(k))
    BY <1>13
  <2>1. k \in DOMAIN Made(q) /\ Made(q)[k] \in Pipe /\ Made(q)[k] # In(q)
    BY <1>13
  <2>2. Wired(Made(q)[k], NumTag(k)) \/ Made(q)[k] = q
    BY <1>1, <2>1, MadeTable
  <2>3. ASSUME Made(q)[k] = Out(q) PROVE Aims(line, typed, base, i) = NumTag(k)
    <3>1. CASE M(i).k = "ord"
      <4>1. Out(q) = q /\ ~IsNum(M(i))
        BY <1>1, <3>1, OutPipe DEF IsNum
      <4> QED BY <1>1, <2>1, <2>3, <4>1, MadeTable
    <3>2. CASE IsNum(M(i))
      BY <1>1, <2>1, <2>3, <3>2, OutPipe, MadeTable
    <3>3. CASE M(i).k \in {"none", "file"}
      BY <1>1, <1>5, <2>1, <2>3, <3>3, OutPipe
    <3> QED BY <1>1, <3>1, <3>2, <3>3, LoopLine DEF IsNum
  <2> QED BY <1>12, <2>1, <2>2, <2>3
<1>15. NumTable'
  <2>1. \A k, h \in DOMAIN pipes' : pipes'[k] = pipes'[h] => k = h
    BY <1>1, <1>13, MadeTable
  <2>2. \A k \in DOMAIN pipes' : k \in Nat /\ (k > lineIdx \/ k \in builtins)
    BY <1>1, <1>5, <1>13, MadeTable
  <2>3. \A k \in DOMAIN pipes' : k >= lineIdx' \/ k \in builtins'
    BY <1>3, <1>5, <2>2
  <2>4. ASSUME pc' = "wait" \/ (pc' = "loop" /\ ~AtHead(line, i)') PROVE lineIdx' = lineIdx
    <3>1. CASE pc' = "wait"
      BY <1>1, <1>3, <1>11, <3>1, LoopLine DEF IsNum
    <3>2. CASE pc' = "loop" /\ ~AtHead(line, i)'
      <4>1. i' = i + 1 /\ i' - 1 = i
        BY <1>1, <1>3, <1>11, <3>2, LoopLine
      <4>2. ~IsNum(MedOf(line, i))
        BY <1>3, <3>2, <4>1 DEF AtHead
      <4> QED BY <1>3, <4>2 DEF M
    <3> QED BY <2>4, <3>1, <3>2
  <2>5. \A k \in DOMAIN pipes' : Wired(pipes[k], NumTag(k))'
    BY <1>14 DEF Wired, NumTag
  <2>6. (pc' = "wait" \/ (pc' = "loop" /\ ~AtHead(line, i)')) => lineIdx' \notin DOMAIN pipes'
    BY <1>13, <2>4
  <2> QED BY <2>1, <2>3, <2>5, <2>6 DEF NumTable
<1>16. OrdQueue'
  <2>1. CASE M(i).k = "ord"
    <3>1. i < Len(line.cmds) /\ NextI = i + 1 /\ i \in Nat \ {0} /\ Len(line.cmds) \in Nat
      BY <1>1, <1>11, <2>1, LoopLine
    <3>2. pc' = "loop" /\ i' = i + 1 /\ i' - 1 = i /\ i' > 1
      BY <1>3, <3>1
    <3>3. FromOrd'
      BY <1>3, <2>1, <3>2 DEF FromOrd, M
    <3>4. q \in Pipe /\ Out(q) = q /\ ordinary_pipes' = <<q>>
          /\ Aims(line, typed, base, i) = OrdTag(typed, i + 1)
      BY <1>1, <1>2, <2>1, OutPipe
    <3>5. In(q) # q
      BY <1>1, <1>5, <3>4, InPipe
    <3>6. WiredNext(q, OrdTag(typed, i + 1))
      BY <1>12, <3>4, <3>5
    <3>7. Wired(q, OrdTag(typed, i))'
      BY <1>3, <3>2, <3>6 DEF Wired, OrdTag

    <3>8. \A k \in DOMAIN pipes' : pipes'[k] # q
      BY <1>1, <1>13, <2>1, MadeTable DEF IsNum
    <3> QED BY <3>2, <3>3, <3>4, <3>7, <3>8 DEF OrdQueue
  <2>2. CASE M(i).k # "ord"
    <3>1. ordinary_pipes' = <<>>
      BY <1>1, <1>2, <2>2, OutPipe, LoopLine DEF IsNum
    <3>2. ~(pc' = "loop" /\ FromOrd')
      <4> SUFFICES ASSUME pc' = "loop" PROVE ~FromOrd'
        OBVIOUS
      <4>1. i' = i + 1 /\ i' - 1 = i
        BY <1>1, <1>3, <1>11, LoopLine
      <4> QED BY <1>3, <2>2, <4>1 DEF FromOrd, M
    <3> QED BY <3>1, <3>2 DEF OrdQueue
  <2> QED BY <2>1, <2>2
<1>17. Cursor'
  <2>1. /\ line \in Lines /\ lineIdx = base + Counted(line, i)
        /\ i \in Nat \ {0} /\ i <= Len(line.cmds) /\ Len(line.cmds) \in Nat
    BY <1>1, LoopLine DEF IInv, Cursor
  <2>2. Counted(line, i) \in Nat /\ Counted(line, i + 1) =
          IF IsNum(M(i)) THEN Counted(line, i) + 1 ELSE Counted(line, i)
    BY <2>1, CountedStep DEF M
  <2>3. CASE NextI <= Len(line.cmds)
    BY <1>3, <1>5, <1>11, <2>1, <2>2, <2>3 DEF Cursor
  <2>4. CASE NextI > Len(line.cmds)
    <3>1. CASE i = Len(line.cmds)
      BY <1>3, <1>5, <2>1, <2>2, <2>4, <3>1 DEF Cursor, CountOf
    <3>2. CASE i < Len(line.cmds)
      <4>1. M(i).k = "file" /\ ~IsNum(M(i)) /\ i + 1 = Len(line.cmds)
        BY <1>1, <1>11, <2>1, <2>4, <3>2, LoopLine DEF IsNum
      <4> QED BY <1>3, <1>5, <2>1, <2>2, <2>4, <4>1 DEF Cursor, CountOf
    <3> QED BY <2>1, <3>1, <3>2
  <2> QED BY <1>11, <2>1, <2>3, <2>4
<1>18. Ends'
  BY <1>5, <1>7, <1>8, <1>9 DEF IInv, Ends, KeptRd, KeptWr
<1>19. Await'
  <2>1. \A r \in Running : kid[r].to # TtyTag
    BY <1>1 DEF IInv, Await
  <2>2. ASSUME Aims(line, typed, base, i) = TtyTag PROVE pc' = "wait" /\ lastWaitChild' = p
    <3>1. M(i).k \in {"none", "file"}
      BY <1>1, <2>2, OutPipe, LoopLine DEF IsNum, TtyTag, OrdTag, NumTag
    <3>2. Awaited
      BY <1>1, <3>1, LoopLine DEF Awaited
    <3>3. NextI > Len(line.cmds)
      BY <1>1, <1>11, <3>1, LoopLine DEF NextI
    <3> QED BY <1>2, <1>3, <3>2, <3>3
  <2> QED BY <1>7, <1>8, <2>1, <2>2 DEF Await
<1>20. ASSUME NEW r \in Running, kid[r].in # Tty
       PROVE  kid[r].in \in Pipe /\ kid[r].in \notin Open(q) /\ kid[r].in # q
  <2>1. kid[r].in \in Pipe /\ kid[r].in \notin ShellOpen
    BY <1>5, <1>7, <1>20 DEF Kid, IInv, EofIsReachable
  <2> QED BY <1>5, <2>1, <1>6, FreshPipe DEF Open
<1>21. RoutedAsWritten'
  <2>1. ASSUME NEW r \in Running, kid[r].in # Tty
        PROVE  /\ \A j \in 1 .. Len(buf'[kid[r].in]) : buf'[kid[r].in][j] = kid[r].takes
               /\ \A w \in Running' : kid[r].in \in {kid'[w].out, kid'[w].err}
                                       => kid'[w].to = kid[r].takes
    <3>1. buf'[kid[r].in] = buf[kid[r].in]
      BY <1>6, <1>20, <2>1
    <3>2. kid[r].in \notin {kid'[p].out, kid'[p].err}
      BY <1>7, <1>8, <1>9, <1>20, <2>1
    <3> QED BY <1>7, <2>1, <3>1, <3>2 DEF IInv, RoutedAsWritten
  <2>2. ASSUME In(q) # Tty
        PROVE  /\ \A j \in 1 .. Len(buf'[In(q)]) : buf'[In(q)][j] = Child(q).takes
               /\ \A w \in Running' : In(q) \in {kid'[w].out, kid'[w].err}
                                       => kid'[w].to = Child(q).takes
    <3>1. In(q) \in Pipe /\ In(q) # q /\ Wired(In(q), Child(q).takes)
      BY <1>1, <1>8, <2>2, InPipe
    <3>2. buf'[In(q)] = buf[In(q)]
      BY <1>6, <3>1
    <3>3. In(q) \notin {kid'[p].out, kid'[p].err}
      BY <1>7, <1>8, <1>9, <2>2
    <3> QED BY <1>7, <3>1, <3>2, <3>3 DEF Wired
  <2> QED BY <1>7, <1>8, <2>1, <2>2 DEF RoutedAsWritten
<1>22. EofIsReachable'
  <2>1. ShellOpen' \subseteq Open(q) /\ In(q) \notin ShellOpen'
    <3>1. ordinary_pipes' = <<>> \/ (ordinary_pipes' = <<q>> /\ q \in Pipe)
      BY <1>1, <1>2, OutPipe, LoopLine DEF IsNum
    <3>2. {ordinary_pipes'[j] : j \in 1 .. Len(ordinary_pipes')} \subseteq {q} \ {Tty}
      BY <1>5, <3>1
    <3>3. In(q) # Tty => In(q) # q
      BY <1>1, InPipe
    <3> QED BY <1>5, <1>13, <3>2, <3>3 DEF ShellOpen, Open
  <2>2. ASSUME NEW r \in Running, kid[r].in # Tty
        PROVE  /\ kid[r].in \notin ShellOpen' /\ kid[r].in \notin kid[r].wr
               /\ kid[r].in \notin KeptWr(q)
               /\ \A w \in Running : ~(kid[r].in \in kid[w].wr /\ kid[w].in \in kid[r].wr)
    BY <1>20, <2>1, <2>2 DEF KeptWr, IInv, EofIsReachable
  <2>3. In(q) \notin KeptWr(q)
    BY DEF KeptWr
  <2>4. Tty \notin KeptWr(q)
    BY <1>5 DEF KeptWr, Open, ShellOpen, IInv, TypeOK
  <2> QED BY <1>7, <1>8, <2>1, <2>2, <2>3, <2>4 DEF EofIsReachable
<1>23. TypeOK'
  <2>1. kid' \in [Pid -> Kid]
    BY <1>2, <1>4, <1>5, <1>10
  <2>2. ordinary_pipes' \in Seq(Pipe)
    <3>1. ordinary_pipes' = <<>> \/ (ordinary_pipes' = <<q>> /\ q \in Pipe)
      BY <1>1, <1>2, OutPipe, LoopLine DEF IsNum
    <3>2. ASSUME ordinary_pipes' = <<q>>, q \in Pipe PROVE ordinary_pipes' \in Seq(Pipe)
      BY ONLY <3>2
    <3> QED BY ONLY <3>1, <3>2, EmptySeq
  <2>3. /\ lastWaitChild' \in Pid \cup {0} /\ i' \in Nat /\ lineIdx' \in Nat
        /\ pc' \in {"prompt", "loop", "wait", "done"}
    BY <1>2, <1>3, <1>4, <1>5, <1>11 DEF IInv, TypeOK
  <2>4. DOMAIN pipes' \subseteq Nat /\ pipes' \in [DOMAIN pipes' -> Pipe]
    BY <1>13
  <2>5. /\ line' \in Lines \cup {NoLine} /\ sigchld' \in BOOLEAN /\ inHandler' \in BOOLEAN
        /\ typed' \in Nat /\ base' \in Nat
        /\ builtins' \subseteq Nat
    BY <1>3 DEF IInv, TypeOK
  <2> QED BY ONLY <1>6, <2>1, <2>2, <2>3, <2>4, <2>5 DEF TypeOK
<1> QED BY <1>15, <1>16, <1>17, <1>18, <1>19, <1>21, <1>22, <1>23 DEF IInv

-----------------------------------------------------------------------------
(* The theorems.                                                           *)

LEMMA NextInv == IInv /\ [Next]_vars => IInv'
<1> SUFFICES ASSUME IInv, [Next]_vars PROVE IInv'
  OBVIOUS
<1>1. CASE User
  BY <1>1, ReadLineInv, ReadBlankInv, ReadBuiltinInv, ReadExitInv DEF User
<1>2. CASE Main
  BY <1>2, ForkCmdInv, ForkRetryInv, WaitLastInv DEF Main
<1>3. CASE Handler
  BY <1>3, HandlerInv
<1>4. CASE Kids
  BY <1>4, KidReadInv, KidWriteInv, KidExitInv DEF Kids, KidStep
<1>5. CASE Terminated \/ UNCHANGED vars
  <2>1. UNCHANGED vars
    BY <1>5 DEF Terminated
  <2>2. Kept
    BY <2>1 DEF vars, Kept
  <2> QED BY <2>1, <2>2, KidsLeave DEF vars, IInv, TypeOK
<1> QED BY <1>1, <1>2, <1>3, <1>4, <1>5 DEF Next

THEOREM Invariance == Spec => []IInv
  BY InitInv, NextInv, PTL DEF Spec

\* Every variable of the shell keeps its type, whatever the user types.
THEOREM TypeCorrect == Spec => []TypeOK
<1>1. IInv => TypeOK
  BY DEF IInv
<1> QED BY <1>1, Invariance, PTL

(* Whatever is typed, whatever the programs write and however their steps  *)
(* interleave with the handler's, a command reads from a pipe only what    *)
(* the text of the lines sends to it.                                      *)
THEOREM Routed == Spec => []RoutedAsWritten
<1>1. IInv => RoutedAsWritten
  BY DEF IInv
<1> QED BY <1>1, Invariance, PTL

(* When a line is prompted for, no ordinary pipe is open and no numbered   *)
(* pipe of an earlier line, but those that led to a line that was setenv   *)
(* or printenv.                                                            *)
THEOREM NothingMissed == Spec => []NoMissedPipe
<1>1. IInv => NoMissedPipe
  BY DEF IInv, NumTable, OrdQueue, Cursor, NoMissedPipe
<1> QED BY <1>1, Invariance, PTL

\* The shell and the readers never hold open the write end a reader waits on.
THEOREM EofReachable == Spec => []EofIsReachable
<1>1. IInv => EofIsReachable
  BY DEF IInv
<1> QED BY <1>1, Invariance, PTL

\* The prompt never overtakes a command whose output goes to the user.
THEOREM PromptInOrder == Spec => []PromptAfterOutput
<1>1. IInv => PromptAfterOutput
  BY DEF IInv, Await, PromptAfterOutput
<1> QED BY <1>1, Invariance, PTL

-----------------------------------------------------------------------------
(* What PromptReturns needs besides fairness.  EofIsReachable speaks of    *)
(* one child or two; that no circle of any length waits for end of file    *)
(* takes an order of the children.                                         *)

\* r's end of file has to wait for w.
Delays(w, r) == kid[r].in # Tty /\ kid[r].in \in kid[w].wr

(* Children are in an order in which each waits for earlier ones: that of  *)
(* their forks, as a command's pipe is closed by the shell after its fork. *)
Ordered ==
  \E n \in Nat : \E rank \in [Pid -> 0 .. n] :
    \A r, w \in Running : Delays(w, r) => rank[w] < rank[r]

\* A child can read, write or end.
Moves(p) ==
  \/ kid[p].left > 0 /\ (Sink(p) = Tty \/ ~HasReader(Sink(p)) \/ Len(buf[Sink(p)]) < Cap)
  \/ kid[p].left = 0 /\ kid[p].prog \notin Filter
  \/ kid[p].left = 0 /\ kid[p].in # Tty /\ (buf[kid[p].in] # <<>> \/ ~HasWriter(kid[p].in))

\* It writes to a full pipe that somebody has open for reading, or reads the keyboard.
Clogged(p) ==
  kid[p].left > 0 /\ Sink(p) # Tty /\ HasReader(Sink(p)) /\ ~(Len(buf[Sink(p)]) < Cap)
AtKeyboard(p) == kid[p].left = 0 /\ kid[p].prog \in Filter /\ kid[p].in = Tty

\* Children wait for end of file, but never all of them.
ChildrenGoOn ==
  Running # {} => \E p \in Running : Moves(p) \/ Clogged(p) \/ AtKeyboard(p)

\* The handler or main can take its next step, or there is no pipe to be had.
ShellGoesOn ==
  \/ sigchld /\ ~inHandler
  \/ inHandler /\ (Zombies # {} \/ FreePids = Pid)
  \/ pc = "loop" /\ ~inHandler /\ (FreePids # {} \/ Zombies # {})
  \/ pc = "wait" /\ ~inHandler /\ lastWaitChild \notin Running

NeverStuck ==
  pc \in {"loop", "wait"} \/ inHandler =>
    ShellGoesOn \/ \E p \in Running : Moves(p) \/ Clogged(p) \/ AtKeyboard(p)

LEMMA Least ==
  ASSUME NEW T \in SUBSET Nat, T # {}
  PROVE  \E x \in T : \A y \in T : ~(y < x)
<1> DEFINE R == OpToRel(<, Nat)
<1>1. PICK x \in T : \A y \in T : ~(<<y, x>> \in R)
  <2>1. IsWellFoundedOn(R, Nat)
    BY NatLessThanWellFounded
  <2> HIDE DEF R
  <2> QED BY <2>1, WFMin
<1>2. ASSUME NEW a \in Nat, NEW b \in Nat, a < b PROVE <<a, b>> \in R
  <2>1. <<a, b>> \in {ss \in Nat \X Nat : ss[1] < ss[2]}
    BY <1>2
  <2> QED BY <2>1, Zenon DEF OpToRel
<1> QED BY <1>1, <1>2, Zenon

LEMMA InitOrdered == Init => Ordered
<1> SUFFICES ASSUME Init PROVE Ordered
  OBVIOUS
<1>1. Running = {}
  BY DEF Init, Running, Gone
<1>2. [p \in Pid |-> 0] \in [Pid -> 0 .. 0]
  OBVIOUS
<1> QED BY <1>1, <1>2 DEF Ordered

\* Children that go on or leave stay in their order.
SameEnds ==
  \A p \in Running' : p \in Running /\ kid'[p].in = kid[p].in /\ kid'[p].wr = kid[p].wr

LEMMA OrderKept ==
  ASSUME Ordered, SameEnds
  PROVE  Ordered'
<1>1. PICK n \in Nat : \E rank \in [Pid -> 0 .. n] :
        \A r, w \in Running : Delays(w, r) => rank[w] < rank[r]
  BY DEF Ordered
<1>2. PICK rank \in [Pid -> 0 .. n] :
        \A r, w \in Running : Delays(w, r) => rank[w] < rank[r]
  BY <1>1
<1>3. \A r, w \in Running' : Delays(w, r)' => rank[w] < rank[r]
  BY <1>2 DEF SameEnds, Delays
<1> QED BY <1>3 DEF Ordered

(* A new child comes last: nobody waits for it, as the pipes of the others *)
(* are neither the shell's any more nor the one that was just made.        *)
LEMMA ForkOrdered ==
  ASSUME IInv, Ordered, ForkCmd
  PROVE  Ordered'
<1>1. PICK p \in Lowest(FreePids), q \in Fresh : kid' = [kid EXCEPT ![p] = Child(q)]
  BY DEF ForkCmd
<1>2. p \in Pid /\ p \notin Running /\ kid \in [Pid -> Kid]
  BY DEF Lowest, FreePids, Running, IInv, TypeOK
<1>3. /\ kid'[p] = Child(q) /\ \A r \in Pid : r # p => kid'[r] = kid[r]
      /\ Running' \subseteq Running \cup {p} /\ Running \subseteq Pid
  BY <1>1, <1>2 DEF Running
<1>4. Child(q).in = In(q) /\ Child(q).wr = KeptWr(q)
  BY DEF Child
<1>5. \A r \in Running : kid[r].in # Tty => kid[r].in \notin KeptWr(q)
  BY FreshPipe DEF IInv, EofIsReachable, KeptWr, Open
<1>6. PICK n \in Nat : \E rank \in [Pid -> 0 .. n] :
        \A r, w \in Running : Delays(w, r) => rank[w] < rank[r]
  BY DEF Ordered
<1>7. PICK rank \in [Pid -> 0 .. n] :
        \A r, w \in Running : Delays(w, r) => rank[w] < rank[r]
  BY <1>6
<1> DEFINE last == [x \in Pid |-> IF x = p THEN n + 1 ELSE rank[x]]
<1>8. last \in [Pid -> 0 .. n + 1] /\ n + 1 \in Nat
  BY <1>7
<1>9. ASSUME NEW r \in Running', NEW w \in Running', Delays(w, r)' PROVE last[w] < last[r]
  <2>1. CASE r = p
    <3>1. w # p
      BY <1>3, <1>4, <1>9, <2>1 DEF Delays, KeptWr
    <3> QED BY <1>2, <1>3, <1>7, <2>1, <3>1
  <2>2. CASE r # p
    <3>1. w # p
      BY <1>3, <1>4, <1>5, <1>9, <2>2 DEF Delays
    <3>2. Delays(w, r) /\ r \in Running /\ w \in Running
      BY <1>3, <1>9, <2>2, <3>1 DEF Delays
    <3> QED BY <1>2, <1>3, <1>7, <2>2, <3>1, <3>2
  <2> QED BY <2>1, <2>2
<1> HIDE DEF last
<1> QED BY <1>8, <1>9 DEF Ordered

LEMMA NextOrdered == IInv /\ Ordered /\ [Next]_vars => Ordered'
<1> SUFFICES ASSUME IInv, Ordered, [Next]_vars PROVE Ordered'
  OBVIOUS
<1>0. kid \in [Pid -> Kid] /\ Running \subseteq Pid
  BY DEF IInv, TypeOK, Running
<1>1. CASE ForkCmd
  BY <1>1, ForkOrdered
<1>2. CASE ForkRetry \/ WaitLast \/ Handler
  <2>1. PICK p \in Pid \cup {0} : kid' = kid \/ kid' = [kid EXCEPT ![p] = Gone("free")]
    BY <1>2 DEF ForkRetry, WaitLast, Handler, HandlerEnter, HandlerReap, Reap, Zombies, IInv, TypeOK
  <2>2. SameEnds
    BY <1>0, <2>1 DEF SameEnds, Running, Gone
  <2> QED BY <2>2, OrderKept
<1>3. ASSUME NEW p \in Pid, KidStep(p) PROVE Ordered'
  <2>1. CASE KidRead(p)
    <3>1. kid' = [kid EXCEPT ![p].left = 1]
      BY <2>1 DEF KidRead
    <3> QED BY <1>0, <3>1, OrderKept DEF SameEnds, Running, Kid
  <2>2. CASE KidWrite(p)
    <3>1. kid' = [kid EXCEPT ![p].left = @ - 1]
      BY <2>2 DEF KidWrite
    <3> QED BY <1>0, <3>1, OrderKept DEF SameEnds, Running, Kid
  <2>3. CASE KidExit(p)
    <3>1. kid' = [kid EXCEPT ![p] = Gone(IF pc = "done" THEN "free" ELSE "zombie")]
      BY <2>3 DEF KidExit
    <3> QED BY <1>0, <3>1, OrderKept DEF SameEnds, Running, Gone
  <2> QED BY <1>3, <2>1, <2>2, <2>3 DEF KidStep
<1>4. CASE ReadExit
  <2>1. kid' = [p \in Pid |-> IF p \in Zombies THEN Gone("free") ELSE kid[p]]
    BY <1>4 DEF ReadExit
  <2> QED BY <1>0, <2>1, OrderKept DEF SameEnds, Running, Gone
<1>5. CASE ReadLine \/ ReadBlank \/ ReadBuiltin \/ Terminated \/ UNCHANGED vars
  <2>1. kid' = kid
    BY <1>5 DEF ReadLine, ReadBlank, ReadBuiltin, Terminated, vars
  <2> QED BY <2>1, OrderKept DEF SameEnds, Running
<1> QED BY <1>1, <1>2, <1>3, <1>4, <1>5 DEF Next, User, Main, Kids

\* The first of the children that were forked and still run waits for none.
LEMMA FirstMoves == IInv /\ Ordered => ChildrenGoOn
<1> SUFFICES ASSUME IInv, Ordered, Running # {},
                    \A p \in Running : ~Moves(p) /\ ~Clogged(p) /\ ~AtKeyboard(p)
             PROVE  FALSE
  BY DEF ChildrenGoOn
<1>1. PICK n \in Nat : \E rank \in [Pid -> 0 .. n] :
        \A r, w \in Running : Delays(w, r) => rank[w] < rank[r]
  BY DEF Ordered
<1>2. PICK rank \in [Pid -> 0 .. n] :
        \A r, w \in Running : Delays(w, r) => rank[w] < rank[r]
  BY <1>1
<1> DEFINE T == {rank[p] : p \in Running}
<1>3. T \in SUBSET Nat /\ T # {}
  BY <1>2 DEF Running
<1>4. PICK x \in T : \A y \in T : ~(y < x)
  <2> HIDE DEF T
  <2> QED BY <1>3, Least
<1>5. PICK p \in Running : rank[p] = x
  BY <1>4
<1>6. kid[p].left \in Nat
  BY DEF IInv, TypeOK, Running, Kid
<1>7. kid[p].left = 0
  BY <1>5, <1>6 DEF Moves, Clogged
<1>8. kid[p].prog \in Filter /\ kid[p].in # Tty /\ HasWriter(kid[p].in)
  BY <1>5, <1>7 DEF Moves, AtKeyboard
<1>9. kid[p].in \notin ShellOpen
  BY <1>8 DEF IInv, EofIsReachable
<1>10. PICK w \in Running : Delays(w, p)
  BY <1>8, <1>9 DEF HasWriter, Delays
<1>11. rank[w] < rank[p] /\ rank[w] \in T
  BY <1>2, <1>10
<1> QED BY <1>4, <1>5, <1>11

(* Whatever is typed, and however many children have copies of whichever   *)
(* pipes: as long as children run, one of them can read, write or end, or  *)
(* is held up by a full pipe or the keyboard.  No circle of children of    *)
(* any length waits for end of file.                                       *)
THEOREM NoCircle == Spec => []ChildrenGoOn
<1>1. Init => IInv /\ Ordered
  BY InitInv, InitOrdered
<1>2. IInv /\ Ordered /\ [Next]_vars => IInv' /\ Ordered'
  BY NextInv, NextOrdered
<1> QED BY <1>1, <1>2, FirstMoves, PTL DEF Spec

(* A line that was typed is never left with nobody to go on: the shell,    *)
(* its handler or a child can take a step, unless a pipe is full or the    *)
(* keyboard is read.  All the user needs is to be allowed one process.     *)
THEOREM NoStandstill == ASSUME Pid # {} PROVE Spec => []NeverStuck
<1>1. ASSUME TypeOK, ChildrenGoOn PROVE NeverStuck
  <2>1. Running # {} \/ Zombies # {} \/ FreePids = Pid
    BY <1>1 DEF TypeOK, Kid, Running, Zombies, FreePids
  <2>2. CASE Running # {}
    BY <1>1, <2>2 DEF ChildrenGoOn, NeverStuck
  <2>3. CASE Running = {}
    BY <2>1, <2>3 DEF NeverStuck, ShellGoesOn
  <2> QED BY <2>2, <2>3
<1> QED BY <1>1, TypeCorrect, NoCircle, PTL
=============================================================================
