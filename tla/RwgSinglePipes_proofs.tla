------------------------ MODULE RwgSinglePipes_proofs ------------------------
(***************************************************************************)
(* What holds of the pipes of np_single_proc for every number of users,    *)
(* pipes, lines and children: what a command reads was meant for it, and   *)
(* its end of file waits for nobody who waits for it.                      *)
(*                                                                         *)
(* The argument is that a pipe stands in one place.  A place is an entry   *)
(* of a user's tables, and the destination a pipe was created for names    *)
(* its place; as places have different names, a pipe that a command takes  *)
(* out of its place is in none, and the server has closed it.              *)
(*                                                                         *)
(* At the end, the same for waiting: commands are ordered as they were     *)
(* forked, and the server or one of them can always go on.                 *)
(***************************************************************************)
EXTENDS RwgSingle_proofs, WellFoundedInduction

(* A user's line counter is what the text of the lines says: the counted   *)
(* lines before this one, and the numbered pipes inside it so far.         *)
Cursors ==
  \A n \in DOMAIN clients :
    clients[n].lineIdx = clients[n].base +
      IF pc = "loop" /\ n = id THEN Sh!Counted(line, i)
      ELSE IF pc = "wait" /\ n = id THEN Sh!Counted(line, Len(line.cmds))
      ELSE 0

\* Every connection is a session of its own.
Sessions ==
  \A n \in DOMAIN clients :
    /\ clients[n].session <= sessions
    /\ \A m \in DOMAIN clients : clients[m].session = clients[n].session => m = n

\* A pipe in a user's tables was created for the place where it stands.
Tables ==
  \A n \in DOMAIN clients :
    /\ \A k \in DOMAIN clients[n].pipes :
         meant[clients[n].pipes[k]] = NumTag(clients[n].session, k)
    /\ \A m \in DOMAIN clients[n].recvMessages :
         meant[clients[n].recvMessages[m]] = UserTag(m, clients[n].session)
    /\ \A j \in DOMAIN clients[n].ordinary_pipes :
         meant[clients[n].ordinary_pipes[j]] = OrdTag(typed, i)

\* A pipe that logout lost track of was meant for a session that has ended.
Leaks ==
  \A q \in leaked : \E s \in Nat, k \in Nat :
    /\ s <= sessions /\ \A n \in DOMAIN clients : clients[n].session # s
    /\ meant[q] \in {NumTag(s, k), UserTag(k, s)}

\* A child holds the ends it uses.
Ends ==
  \A p \in Running : /\ kid[p].in \in Pipe => kid[p].in \in kid[p].rd
                     /\ kid[p].out \in Pipe => kid[p].out \in kid[p].wr

PInv == /\ IInv /\ Cursors /\ Sessions /\ Tables /\ Leaks /\ Ends
        /\ RoutedAsMeant /\ EofIsReachable

-----------------------------------------------------------------------------
(* Types of the tables, and the places of the pipes the server holds.      *)

LEMMA TableTypes ==
  ASSUME IInv, NEW n \in DOMAIN clients
  PROVE  /\ IsClient(clients[n])
         /\ clients[n].pipes \in [DOMAIN clients[n].pipes -> Pipe] /\ DOMAIN clients[n].pipes \subseteq Nat
         /\ clients[n].recvMessages \in [DOMAIN clients[n].recvMessages -> Pipe]
         /\ DOMAIN clients[n].recvMessages \subseteq Nat
         /\ clients[n].ordinary_pipes \in Seq(Pipe)
         /\ clients[n].lineIdx \in Nat /\ clients[n].base \in Nat /\ clients[n].session \in Nat
         /\ sessions \in Nat
<1>1. IsClient(clients[n]) /\ sessions \in Nat /\ Id \subseteq Nat
  BY ServerAssumption DEF IInv, TypeOK
<1> QED BY <1>1, ClientFields DEF Client

\* The tables are those of before the step, and so is what their pipes are meant for.
SameTables ==
  /\ DOMAIN clients' = DOMAIN clients
  /\ \A n \in DOMAIN clients :
       /\ clients'[n].pipes = clients[n].pipes
       /\ clients'[n].recvMessages = clients[n].recvMessages
       /\ clients'[n].ordinary_pipes = clients[n].ordinary_pipes
       /\ clients'[n].session = clients[n].session
  /\ UNCHANGED <<meant, leaked, sessions>>
  /\ InPipeline => UNCHANGED <<typed, i>>

\* No child starts, and none changes what it uses or holds.
KidsStay ==
  \A p \in Pid :
    \/ kid'[p].st # "run"
    \/ /\ kid[p].st = "run"
       /\ kid'[p].in = kid[p].in /\ kid'[p].out = kid[p].out
       /\ kid'[p].rd = kid[p].rd /\ kid'[p].wr = kid[p].wr
       /\ kid'[p].takes = kid[p].takes /\ kid'[p].to = kid[p].to

LEMMA TablesStay ==
  ASSUME PInv, SameTables
  PROVE  Sessions' /\ Tables' /\ Leaks' /\ ServerOpen' = ServerOpen
<1> USE DEF SameTables
<1>1. Sessions'
  BY DEF PInv, Sessions
<1>2. Tables'
  <2>1. ASSUME NEW n \in DOMAIN clients, NEW k \in DOMAIN clients'[n].pipes
        PROVE  meant'[clients'[n].pipes[k]] = NumTag(clients'[n].session, k)
    BY DEF PInv, Tables
  <2>2. ASSUME NEW n \in DOMAIN clients, NEW m \in DOMAIN clients'[n].recvMessages
        PROVE  meant'[clients'[n].recvMessages[m]] = UserTag(m, clients'[n].session)
    BY DEF PInv, Tables
  <2>3. ASSUME NEW n \in DOMAIN clients, NEW j \in DOMAIN clients'[n].ordinary_pipes
        PROVE  meant'[clients'[n].ordinary_pipes[j]] = OrdTag(typed', i')
    <3>1. InPipeline
      <4> SUFFICES ASSUME ~InPipeline PROVE FALSE
        OBVIOUS
      <4>1. clients[n].ordinary_pipes = <<>>
        BY DEF PInv, IInv, Queues
      <4>2. DOMAIN clients[n].ordinary_pipes = {}
        BY <4>1
      <4> QED BY <2>3, <4>2
    <3> QED BY <2>3, <3>1 DEF PInv, Tables
  <2> QED BY <2>1, <2>2, <2>3 DEF Tables, NumTag, UserTag, OrdTag
<1>3. Leaks'
  BY DEF PInv, Leaks, NumTag, UserTag
<1>4. ServerOpen' = ServerOpen
  <2>1. \A n \in DOMAIN clients : OwnPipes(n)' = OwnPipes(n)
    BY DEF OwnPipes, Ran
  <2> QED BY <2>1 DEF ServerOpen
<1> QED BY <1>1, <1>2, <1>3, <1>4

LEMMA KidsFrame ==
  ASSUME PInv, KidsStay, UNCHANGED meant, ServerOpen' \subseteq ServerOpen
  PROVE  Ends' /\ RoutedAsMeant' /\ EofIsReachable'
<1>1. \A p \in Running' :
        /\ p \in Running
        /\ kid'[p].in = kid[p].in /\ kid'[p].out = kid[p].out
        /\ kid'[p].rd = kid[p].rd /\ kid'[p].wr = kid[p].wr
        /\ kid'[p].takes = kid[p].takes /\ kid'[p].to = kid[p].to
  BY DEF KidsStay, Running
<1>2. Ends'
  BY <1>1 DEF PInv, Ends
<1>3. RoutedAsMeant'
  BY <1>1 DEF PInv, RoutedAsMeant
<1>4. EofIsReachable'
  BY <1>1 DEF PInv, EofIsReachable
<1> QED BY <1>2, <1>3, <1>4

\* A step that touches neither tables nor the ends of children.
LEMMA Frame ==
  ASSUME PInv, IInv', Cursors', SameTables, KidsStay
  PROVE  PInv'
<1>1. UNCHANGED meant
  BY DEF SameTables
<1> QED BY <1>1, TablesStay, KidsFrame DEF PInv

-----------------------------------------------------------------------------
(* The kernel, the handler and the scan.                                   *)

LEMMA InitPipes == Init => PInv
<1> SUFFICES ASSUME Init PROVE PInv
  OBVIOUS
<1>1. IInv
  BY InitInv
<1>2. DOMAIN clients = {} /\ leaked = {} /\ Running = {}
  BY DEF Init, NoClients, Running, Gone
<1> QED BY <1>1, <1>2 DEF PInv, Cursors, Sessions, Tables, Leaks, Ends, RoutedAsMeant, EofIsReachable

\* The server's own variables stay.
LEMMA KernelPipes ==
  ASSUME PInv, IInv', UNCHANGED unmoved, KidsStay
  PROVE  PInv'
<1> USE DEF unmoved, tables, service
<1>1. Cursors'
  BY DEF PInv, Cursors
<1>2. SameTables
  BY DEF SameTables
<1> QED BY <1>1, <1>2, Frame

LEMMA KidPipes ==
  ASSUME PInv, IInv', NEW p \in Pid, KidStep(p)
  PROVE  PInv'
<1>0. kid \in [Pid -> Kid]
  BY DEF PInv, IInv, TypeOK
<1>1. CASE KidRead(p)
  <2>1. KidsStay
    BY <1>0, <1>1 DEF KidRead, KidsStay, Kid
  <2> QED BY <1>1, <2>1, KernelPipes DEF KidRead
<1>2. CASE KidWrite(p)
  <2>1. KidsStay
    BY <1>0, <1>2 DEF KidWrite, KidsStay, Kid
  <2> QED BY <1>2, <2>1, KernelPipes DEF KidWrite
<1>3. CASE KidExit(p)
  <2>1. KidsStay
    BY <1>0, <1>3 DEF KidExit, KidsStay, Gone
  <2> QED BY <1>3, <2>1, KernelPipes DEF KidExit
<1> QED BY <1>1, <1>2, <1>3 DEF KidStep

LEMMA ReapStays ==
  ASSUME PInv, \/ kid' = kid
               \/ \E p \in Pid : Reap(p)
  PROVE  KidsStay
<1>1. kid \in [Pid -> Kid]
  BY DEF PInv, IInv, TypeOK
<1>2. CASE kid' = kid
  BY <1>2 DEF KidsStay
<1>3. CASE \E p \in Pid : Reap(p)
  BY <1>1, <1>3 DEF Reap, KidsStay, Gone
<1> QED BY <1>2, <1>3

LEMMA HandlerPipes ==
  ASSUME PInv, IInv', Handler \/ ForkRetry
  PROVE  PInv'
<1>1. KidsStay /\ UNCHANGED unmoved
  BY ReapStays DEF Handler, HandlerEnter, HandlerReap, ForkRetry, Zombies
<1> QED BY <1>1, KernelPipes

LEMMA StutterPipes ==
  ASSUME PInv, IInv', UNCHANGED vars
  PROVE  PInv'
<1>1. KidsStay /\ UNCHANGED unmoved
  BY ReapStays DEF vars, unmoved
<1> QED BY <1>1, KernelPipes

\* Between lines a counter is the count of the text.
LEMMA CursorsAtRest ==
  ASSUME DOMAIN clients' = DOMAIN clients, pc' \in {"select", "serve"},
         \A n \in DOMAIN clients : clients'[n].lineIdx = clients'[n].base + 0
  PROVE  Cursors'
BY DEF Cursors

LEMMA RestCursors ==
  ASSUME PInv, pc \in {"select", "serve"}, NEW n \in DOMAIN clients
  PROVE  clients[n].lineIdx = clients[n].base + 0
BY DEF PInv, Cursors

LEMMA EndLinePipes ==
  ASSUME PInv, IInv', EndLine
  PROVE  PInv'
<1>1. UNCHANGED <<pc, rfds, id, line, i, clients>>
  BY DEF EndLine
<1>2. Cursors'
  BY <1>1 DEF PInv, Cursors
<1>3. SameTables
  BY <1>1 DEF EndLine, tables, SameTables, InPipeline, Sh!FromOrd, Sh!M
<1>4. KidsStay
  BY ReapStays DEF EndLine
<1> QED BY <1>2, <1>3, <1>4, Frame

LEMMA SelectPipes ==
  ASSUME PInv, IInv', Select
  PROVE  PInv'
<1>1. pc = "select" /\ pc' = "serve" /\ clients' = clients
  BY DEF Select
<1>2. Cursors'
  BY <1>1, RestCursors, CursorsAtRest
<1>3. SameTables
  BY DEF Select, tables, SameTables
<1>4. KidsStay
  BY ReapStays DEF Select
<1> QED BY <1>2, <1>3, <1>4, Frame

\* What a built-in command leaves of a user's entry.
SameUser(d, c) ==
  /\ d.pipes = c.pipes /\ d.recvMessages = c.recvMessages
  /\ d.ordinary_pipes = c.ordinary_pipes /\ d.session = c.session

LEMMA CountedSame ==
  ASSUME NEW c, IsClient(c)
  PROVE  /\ SameUser(Counted(c), c)
         /\ Counted(c).lineIdx = c.lineIdx + 1 /\ Counted(c).base = c.base + 1
  BY ClientFields DEF SameUser, Counted, Client

LEMMA NamedSame ==
  ASSUME NEW c, IsClient(c), NEW nm
  PROVE  /\ SameUser(Named(c, nm), c)
         /\ Named(c, nm).lineIdx = c.lineIdx /\ Named(c, nm).base = c.base
  BY ClientFields DEF SameUser, Named, Client

LEMMA StoredSame ==
  ASSUME NEW c, IsClient(c), NEW v, NEW x
  PROVE  /\ SameUser(Store(c, v, x), c)
         /\ Store(c, v, x).lineIdx = c.lineIdx /\ Store(c, v, x).base = c.base
  BY ClientFields DEF SameUser, Store, Client

LEMMA UserPipes ==
  ASSUME PInv, IInv', NEW n \in DOMAIN clients, NEW c,
         pc = "serve", pc' \in {"select", "serve"},
         DOMAIN clients' = DOMAIN clients,
         \A m \in DOMAIN clients : clients'[m] = IF m = n THEN c ELSE clients[m],
         SameUser(c, clients[n]), c.lineIdx = c.base + 0,
         UNCHANGED <<kid, meant, leaked, sessions>>
  PROVE  PInv'
<1>1. Cursors'
  BY RestCursors, CursorsAtRest
<1>2. SameTables
  BY DEF SameTables, SameUser, InPipeline
<1>3. KidsStay
  BY ReapStays
<1> QED BY <1>1, <1>2, <1>3, Frame

LEMMA BuiltinPipes ==
  ASSUME PInv, IInv', NEW f \in Fd, NEW n \in Id,
         Blank(f, n) \/ Inform(f, n) \/ setenv(f, n) \/ rename(f, n)
  PROVE  PInv'
<1> USE DEF tables
<1>0. /\ n \in DOMAIN clients /\ IsClient(clients[n])
      /\ pc = "serve" /\ pc' \in {"select", "serve"}
      /\ UNCHANGED <<kid, meant, leaked, sessions>>
  <2>1. Serve(f, n) /\ Scanned(f)
    BY DEF Blank, Inform, setenv, rename, Builtin
  <2>2. UNCHANGED <<kid, meant, leaked, sessions>>
    BY DEF Blank, Inform, setenv, rename, Builtin
  <2> QED BY <2>1, <2>2, AtHandOnline, ScannedSub DEF Serve, PInv, IInv, TypeOK
<1>1. /\ clients[n].lineIdx = clients[n].base + 0
      /\ clients[n].lineIdx \in Nat /\ clients[n].base \in Nat
  BY <1>0, RestCursors, TableTypes DEF PInv
\* Any entry with the user's tables and counters, once counted.
<1>2. ASSUME NEW d, IsClient(d), SameUser(d, clients[n]), d.lineIdx = clients[n].lineIdx,
             d.base = clients[n].base, clients' = [clients EXCEPT ![n] = Counted(d)]
      PROVE  PInv'
  <2> DEFINE c == Counted(d)
  <2>1. SameUser(c, clients[n]) /\ c.lineIdx = c.base + 0
    BY <1>1, <1>2, CountedSame DEF SameUser
  <2>2. /\ DOMAIN clients' = DOMAIN clients
        /\ \A m \in DOMAIN clients : clients'[m] = IF m = n THEN c ELSE clients[m]
    BY <1>2
  <2> HIDE DEF c
  <2> QED BY <1>0, <2>1, <2>2, UserPipes
<1>3. CASE Blank(f, n)
  <2> DEFINE c == clients[n]
  <2>1. clients' = clients
    BY <1>3 DEF Blank
  <2>2. /\ DOMAIN clients' = DOMAIN clients
        /\ \A m \in DOMAIN clients : clients'[m] = IF m = n THEN c ELSE clients[m]
    BY <2>1
  <2>3. SameUser(c, clients[n]) /\ c.lineIdx = c.base + 0
    BY <1>1 DEF SameUser
  <2> HIDE DEF c
  <2> QED BY <1>0, <2>2, <2>3, UserPipes
<1>4. CASE Inform(f, n)
  <2>1. clients' = [clients EXCEPT ![n] = Counted(clients[n])]
    BY <1>4 DEF Inform
  <2> QED BY <1>0, <1>2, <2>1 DEF SameUser
<1>5. CASE setenv(f, n)
  <2>1. PICK v \in Var, x \in Val :
          clients' = [clients EXCEPT ![n] = Counted(Store(clients[n], v, x))]
    BY <1>5 DEF setenv
  <2>2. IsClient(Store(clients[n], v, x))
    BY <1>0, StoredClient DEF PInv, IInv, OwnEnvs
  <2> QED BY <1>0, <1>2, <2>1, <2>2, StoredSame
<1>6. CASE rename(f, n)
  <2>1. PICK nm \in Name :
          clients' = [clients EXCEPT ![n] =
                        Counted(IF collision(nm) THEN clients[n] ELSE Named(clients[n], nm))]
    BY <1>6 DEF rename
  <2>2. IsClient(Named(clients[n], nm))
    BY <1>0, NamedClient
  <2>3. CASE collision(nm)
    <3>1. clients' = [clients EXCEPT ![n] = Counted(clients[n])]
      BY <2>1, <2>3
    <3> QED BY <1>0, <1>2, <3>1 DEF SameUser
  <2>4. CASE ~collision(nm)
    <3>1. clients' = [clients EXCEPT ![n] = Counted(Named(clients[n], nm))]
      BY <2>1, <2>4
    <3> QED BY <1>0, <1>2, <2>2, <3>1, NamedSame
  <2> QED BY <2>3, <2>4
<1> QED BY <1>3, <1>4, <1>5, <1>6

\* Counting on by one command adds one exactly when a numbered pipe follows it.
LEMMA CountedStep ==
  ASSUME NEW l, NEW j \in Nat \ {0}
  PROVE  /\ Sh!Counted(l, j) \in Nat
         /\ Sh!Counted(l, 1) = 0
         /\ Sh!Counted(l, j + 1) = IF Sh!IsNum(Sh!MedOf(l, j)) THEN Sh!Counted(l, j) + 1
                                   ELSE Sh!Counted(l, j)
<1> DEFINE H(x) == {h \in 1 .. (x - 1) : Sh!IsNum(Sh!MedOf(l, h))}
<1>1. IsFiniteSet(H(j)) /\ Cardinality(H(j)) \in Nat
  <2>1. IsFiniteSet(1 .. (j - 1))
    BY FS_Interval
  <2>2. IsFiniteSet(H(j))
    BY <2>1, FS_Subset
  <2> QED BY <2>2, FS_CardinalityType
<1>2. H(1) = {}
  OBVIOUS
<1>3. H(j + 1) = IF Sh!IsNum(Sh!MedOf(l, j)) THEN H(j) \cup {j} ELSE H(j)
  OBVIOUS
<1>4. j \notin H(j)
  OBVIOUS
<1>5. Sh!Counted(l, 1) = 0
  BY <1>2, FS_EmptySet DEF Sh!Counted, Sh!Cardinality, Cardinality
<1>6. CASE Sh!IsNum(Sh!MedOf(l, j))
  <2>1. Cardinality(H(j + 1)) = Cardinality(H(j)) + 1
    BY <1>1, <1>3, <1>4, <1>6, FS_AddElement
  <2> QED BY <1>1, <1>5, <1>6, <2>1 DEF Sh!Counted, Sh!Cardinality, Cardinality
<1>7. CASE ~Sh!IsNum(Sh!MedOf(l, j))
  <2>1. Cardinality(H(j + 1)) = Cardinality(H(j))
    BY <1>3, <1>7
  <2> QED BY <1>1, <1>5, <1>7, <2>1 DEF Sh!Counted, Sh!Cardinality, Cardinality
<1> QED BY <1>6, <1>7

LEMMA CommandPipes ==
  ASSUME PInv, IInv', NEW f \in Fd, NEW n \in Id, Command(f, n)
  PROVE  PInv'
<1>1. /\ pc = "serve" /\ pc' = "loop" /\ i' = 1 /\ id' = n
      /\ UNCHANGED <<tables, clients, kid, leaked, meant>>
  BY DEF Command, Serve
<1>2. Sh!Counted(line', 1) = 0
  <2>1. ASSUME NEW l PROVE Sh!Counted(l, 1) = 0
    BY CountedStep
  <2> QED BY <2>1
<1>3. Cursors'
  BY <1>1, <1>2, RestCursors DEF Cursors
<1>4. SameTables
  BY <1>1 DEF SameTables, tables, InPipeline
<1>5. KidsStay
  BY <1>1, ReapStays
<1> QED BY <1>3, <1>4, <1>5, Frame

\* The end of a line: the user's counter and the count of the text move on together.
LEMMA WaitPipes ==
  ASSUME PInv, IInv', WaitLast
  PROVE  PInv'
<1> DEFINE c == clients[id]
           d == [[c EXCEPT !.lineIdx = @ + 1] EXCEPT !.base = @ + Sh!CountOf(line)]
<1>1. /\ pc = "wait" /\ pc' \in {"select", "serve"}
      /\ clients' = [clients EXCEPT ![id].lineIdx = @ + 1, ![id].base = @ + Sh!CountOf(line)]
      /\ UNCHANGED <<tables, leaked, typed, meant>>
  BY DEF WaitLast
<1>2. id \in DOMAIN clients /\ IsClient(c) /\ line \in Lines
  BY <1>1 DEF PInv, IInv, Service, TypeOK
<1>3. /\ DOMAIN clients' = DOMAIN clients
      /\ \A n \in DOMAIN clients : clients'[n] = IF n = id THEN d ELSE clients[n]
  BY <1>1, <1>2
<1>4. SameUser(d, c) /\ d.lineIdx = c.lineIdx + 1 /\ d.base = c.base + Sh!CountOf(line)
  BY <1>2, ClientFields DEF SameUser, Client
<1>5. d.lineIdx = d.base + 0
  <2>1. c.lineIdx = c.base + Sh!Counted(line, Len(line.cmds))
    BY <1>1, <1>2 DEF PInv, Cursors
  <2>2. Sh!CountOf(line) = 1 + Sh!Counted(line, Len(line.cmds))
    BY DEF Sh!CountOf
  <2>3. Sh!Counted(line, Len(line.cmds)) \in Nat
    BY <1>2, CountedType, ServerAssumption
  <2>4. c.base \in Nat /\ c.lineIdx \in Nat
    BY <1>2, TableTypes DEF PInv
  <2> HIDE DEF c, d
  <2> QED BY <1>4, <2>1, <2>2, <2>3, <2>4
<1> HIDE DEF c, d
<1>6. Cursors'
  <2>1. \A n \in DOMAIN clients : n # id => clients[n].lineIdx = clients[n].base + 0
    BY <1>1 DEF PInv, Cursors
  <2> QED BY <1>1, <1>3, <1>5, <2>1, CursorsAtRest
<1>7. SameTables
  BY <1>1, <1>3, <1>4 DEF SameTables, SameUser, InPipeline, tables, c
<1>8. KidsStay
  <2>1. lastWaitChild # 0 => lastWaitChild \in Pid
    BY DEF PInv, IInv, TypeOK
  <2> QED BY <2>1, ReapStays DEF WaitLast
<1> QED BY <1>6, <1>7, <1>8, Frame

-----------------------------------------------------------------------------
(* Users who come and go.                                                  *)

LEMMA AcceptPipes ==
  ASSUME PInv, IInv', Accept
  PROVE  PInv'
<1>1. PICK n \in drawTicket, f \in Fd \ afds : clients' = Put(clients, n, NewClient(f))
  BY DEF Accept
<1>2. /\ pc = "serve" /\ pc' \in {"select", "serve"} /\ sessions' = sessions + 1
      /\ UNCHANGED <<id, line, i, kid, buf, leaked, typed, meant>>
  BY ScannedSub DEF Accept
<1>3. n \notin DOMAIN clients
  BY DEF drawTicket, Lowest, PInv, IInv, Registered
<1> DEFINE c == NewClient(f)
<1>4. /\ c.lineIdx = c.base + 0 /\ c.session = sessions + 1
      /\ DOMAIN c.pipes = {} /\ DOMAIN c.recvMessages = {} /\ DOMAIN c.ordinary_pipes = {}
  BY DEF NewClient, NoClients
<1>5. /\ DOMAIN clients' = DOMAIN clients \cup {n}
      /\ clients'[n] = c
      /\ \A m \in DOMAIN clients : clients'[m] = clients[m]
  BY <1>1, <1>3 DEF Put
<1> HIDE DEF c
<1>6. sessions \in Nat /\ \A m \in DOMAIN clients : clients[m].session \in Nat /\ clients[m].session <= sessions
  BY TableTypes DEF PInv, IInv, TypeOK, Sessions
<1>7. Cursors'
  <2>1. \A m \in DOMAIN clients' : clients'[m].lineIdx = clients'[m].base + 0
    BY <1>2, <1>4, <1>5, RestCursors
  <2> QED BY <1>2, <2>1 DEF Cursors
<1>8. Sessions'
  <2>1. \A m \in DOMAIN clients : clients[m].session # sessions + 1 /\ clients[m].session <= sessions + 1
    BY <1>6
  <2>2. sessions + 1 <= sessions + 1
    BY <1>6
  <2> QED BY <1>2, <1>4, <1>5, <2>1, <2>2 DEF PInv, Sessions
<1>9. Tables'
  <2>1. ASSUME NEW m \in DOMAIN clients', NEW k \in DOMAIN clients'[m].pipes
        PROVE  meant'[clients'[m].pipes[k]] = NumTag(clients'[m].session, k)
    BY <1>2, <1>4, <1>5, <2>1 DEF PInv, Tables
  <2>2. ASSUME NEW m \in DOMAIN clients', NEW k \in DOMAIN clients'[m].recvMessages
        PROVE  meant'[clients'[m].recvMessages[k]] = UserTag(k, clients'[m].session)
    BY <1>2, <1>4, <1>5, <2>2 DEF PInv, Tables
  <2>3. ASSUME NEW m \in DOMAIN clients', NEW k \in DOMAIN clients'[m].ordinary_pipes
        PROVE  meant'[clients'[m].ordinary_pipes[k]] = OrdTag(typed', i')
    BY <1>2, <1>4, <1>5, <2>3 DEF PInv, Tables
  <2> QED BY <2>1, <2>2, <2>3 DEF Tables, NumTag, UserTag, OrdTag
<1>10. Leaks'
  <2> SUFFICES ASSUME NEW q \in leaked
               PROVE  \E s \in Nat, k \in Nat :
                        /\ s <= sessions' /\ \A m \in DOMAIN clients' : clients'[m].session # s
                        /\ meant'[q] \in {NumTag(s, k), UserTag(k, s)}
    BY <1>2 DEF Leaks, NumTag, UserTag
  <2>1. PICK s \in Nat, k \in Nat :
          /\ s <= sessions /\ \A m \in DOMAIN clients : clients[m].session # s
          /\ meant[q] \in {NumTag(s, k), UserTag(k, s)}
    BY DEF PInv, Leaks
  <2>2. s <= sessions + 1 /\ s # sessions + 1
    BY <1>6, <2>1
  <2>3. \A m \in DOMAIN clients' : clients'[m].session # s
    BY <1>4, <1>5, <2>1, <2>2
  <2> QED BY <1>2, <2>1, <2>2, <2>3
<1>11. ServerOpen' = ServerOpen
  <2>1. OwnPipes(n)' = {}
    BY <1>4, <1>5 DEF OwnPipes, Ran
  <2>2. \A m \in DOMAIN clients : OwnPipes(m)' = OwnPipes(m)
    BY <1>5 DEF OwnPipes, Ran
  <2> QED BY <1>2, <1>5, <2>1, <2>2 DEF ServerOpen
<1>12. KidsStay
  BY <1>2, ReapStays
<1> QED BY <1>2, <1>7, <1>8, <1>9, <1>10, <1>11, <1>12, KidsFrame DEF PInv

\* The pipes of a user who leaves stay open, and their session does not come back.
LEMMA LogoutPipes ==
  ASSUME PInv, IInv', NEW f \in Fd, NEW n \in Id, logout(f, n)
  PROVE  PInv'
<1>1. n \in DOMAIN clients /\ pc = "serve"
  BY AtHandOnline DEF logout, Serve, PInv
<1>2. /\ pc' \in {"select", "serve"} /\ leaked' = leaked \cup OwnPipes(n)
      /\ UNCHANGED <<sessions, id, line, i, kid, buf, meant>>
  BY ScannedSub DEF logout
<1>3. /\ DOMAIN clients' = DOMAIN clients \ {n}
      /\ \A m \in DOMAIN clients' : clients'[m] = clients[m]
  BY DropFun DEF logout
<1>4. \A m \in DOMAIN clients : DOMAIN clients[m].ordinary_pipes = {}
  <2>1. \A m \in DOMAIN clients : clients[m].ordinary_pipes = <<>>
    BY <1>1 DEF PInv, IInv, Queues, InPipeline
  <2> QED BY <2>1
<1>5. Cursors'
  BY <1>1, <1>2, <1>3, RestCursors DEF Cursors
<1>6. Sessions'
  BY <1>2, <1>3 DEF PInv, Sessions
<1>7. Tables'
  <2>1. ASSUME NEW m \in DOMAIN clients', NEW k \in DOMAIN clients'[m].pipes
        PROVE  meant'[clients'[m].pipes[k]] = NumTag(clients'[m].session, k)
    BY <1>2, <1>3, <2>1 DEF PInv, Tables
  <2>2. ASSUME NEW m \in DOMAIN clients', NEW k \in DOMAIN clients'[m].recvMessages
        PROVE  meant'[clients'[m].recvMessages[k]] = UserTag(k, clients'[m].session)
    BY <1>2, <1>3, <2>2 DEF PInv, Tables
  <2>3. \A m \in DOMAIN clients' : DOMAIN clients'[m].ordinary_pipes = {}
    BY <1>3, <1>4
  <2> QED BY <2>1, <2>2, <2>3 DEF Tables, NumTag, UserTag, OrdTag
<1>8. Leaks'
  <2> SUFFICES ASSUME NEW q \in leaked'
               PROVE  \E s \in Nat, k \in Nat :
                        /\ s <= sessions /\ \A m \in DOMAIN clients' : clients'[m].session # s
                        /\ meant[q] \in {NumTag(s, k), UserTag(k, s)}
    BY <1>2 DEF Leaks, NumTag, UserTag
  <2>1. CASE q \in leaked
    <3>1. PICK s \in Nat, k \in Nat :
            /\ s <= sessions /\ \A m \in DOMAIN clients : clients[m].session # s
            /\ meant[q] \in {NumTag(s, k), UserTag(k, s)}
      BY <2>1 DEF PInv, Leaks
    <3> QED BY <1>3, <3>1
  <2>2. CASE q \in OwnPipes(n)
    <3> DEFINE s == clients[n].session
    <3>1. /\ s \in Nat /\ s <= sessions
          /\ \A m \in DOMAIN clients' : clients'[m].session # s
      BY <1>1, <1>3, TableTypes DEF PInv, Sessions
    <3>2. PICK k \in Nat : meant[q] \in {NumTag(s, k), UserTag(k, s)}
      <4>1. CASE q \in Ran(clients[n].pipes)
        <5>1. PICK k \in DOMAIN clients[n].pipes : q = clients[n].pipes[k]
          BY <4>1 DEF Ran
        <5>2. k \in Nat /\ meant[q] = NumTag(s, k)
          BY <1>1, <5>1, TableTypes DEF PInv, Tables
        <5> QED BY <5>2
      <4>2. CASE q \in Ran(clients[n].recvMessages)
        <5>1. PICK k \in DOMAIN clients[n].recvMessages : q = clients[n].recvMessages[k]
          BY <4>2 DEF Ran
        <5>2. k \in Nat /\ meant[q] = UserTag(k, s)
          BY <1>1, <5>1, TableTypes DEF PInv, Tables
        <5> QED BY <5>2
      <4>3. q \notin Ran(clients[n].ordinary_pipes)
        BY <1>1, <1>4 DEF Ran
      <4> QED BY <2>2, <4>1, <4>2, <4>3 DEF OwnPipes
    <3> HIDE DEF s
    <3> QED BY <3>1, <3>2
  <2> QED BY <1>2, <2>1, <2>2
<1>9. ServerOpen' = ServerOpen
  <2>1. \A m \in DOMAIN clients' : OwnPipes(m)' = OwnPipes(m)
    BY <1>3 DEF OwnPipes, Ran
  <2> QED BY <1>1, <1>2, <1>3, <2>1 DEF ServerOpen
<1>10. KidsStay
  BY <1>2, ReapStays
<1> QED BY <1>2, <1>5, <1>6, <1>7, <1>8, <1>9, <1>10, KidsFrame DEF PInv

-----------------------------------------------------------------------------
(* Starting a command.                                                     *)

LEMMA FreshPipe ==
  ASSUME IInv, NEW q \in Fresh
  PROVE  /\ q \in Pipe \cup {Tty} /\ Tty \notin Pipe /\ Null \notin Pipe
         /\ q \in Pipe <=> (Sends \/ Sh!NeedsPipe)
         /\ q \in Pipe => /\ q \notin ServerOpen
                          /\ \A p \in Running : q \notin kid[p].rd /\ q \notin kid[p].wr
<1>1. Tty \notin Pipe /\ Null \notin Pipe
  BY ServerAssumption DEF Tty, Null
<1>2. CASE Sends \/ Sh!NeedsPipe
  <2>1. q \in FreePipes
    BY <1>2 DEF Fresh, Lowest
  <2> QED BY <1>1, <1>2, <2>1 DEF FreePipes, HasReader, HasWriter
<1>3. CASE ~(Sends \/ Sh!NeedsPipe)
  BY <1>1, <1>3 DEF Fresh
<1> QED BY <1>2, <1>3

\* What a line of text allows at its i-th command.
LEMMA Texts ==
  ASSUME IInv, pc = "loop"
  PROVE  /\ To # 0 => Sh!M(i).k = "none"
         /\ Sh!NeedsPipe => Sh!M(i).k \in {"ord", "num", "both"}
         /\ Sh!IsNum(Sh!M(i)) <=> Sh!M(i).k \in {"num", "both"}
         /\ Sh!IsNum(Sh!M(i)) => Sh!M(i).n \in Nat /\ Sh!M(i).n >= 1
         /\ From # 0 => i = 1
         /\ Sh!FromOrd => ~Sh!AtHead(line, i)
         /\ Sh!Tty = Tty
<1>1. line \in Lines /\ i \in 1 .. Len(line.cmds) /\ i \in Nat /\ Sh!M(i) \in Meds
  BY LoopFacts
<1>2. To # 0 => Sh!M(i).k = "none"
  BY <1>1, SendsLast DEF To, Sh!M, Sh!NoMed
<1>3. Sh!NeedsPipe => Sh!M(i).k \in {"ord", "num", "both"}
  BY DEF Sh!NeedsPipe, Sh!IsNum
<1>4. Sh!IsNum(Sh!M(i)) <=> Sh!M(i).k \in {"num", "both"}
  BY DEF Sh!IsNum
<1>5. Sh!IsNum(Sh!M(i)) => Sh!M(i).n \in Nat /\ Sh!M(i).n >= 1
  <2> SUFFICES ASSUME Sh!IsNum(Sh!M(i)) PROVE Sh!M(i).n \in Nat /\ Sh!M(i).n >= 1
    OBVIOUS
  <2>1. i \in 1 .. Len(line.meds) /\ Sh!M(i) = line.meds[i]
    BY DEF Sh!M, Sh!MedOf, Sh!NoMed, Sh!IsNum
  <2>2. Sh!M(i).n >= 1
    BY <1>1, <2>1, ServerAssumption
  <2> QED BY <1>1, <2>2 DEF Meds
<1>6. From # 0 => i = 1
  BY <1>1, ServerAssumption DEF From
<1>7. Sh!FromOrd => ~Sh!AtHead(line, i)
  BY <1>1 DEF Sh!FromOrd, Sh!AtHead, Sh!M, Sh!IsNum
<1> QED BY <1>2, <1>3, <1>4, <1>5, <1>6, <1>7 DEF Sh!Tty, Tty

\* The table of numbered pipes once those of the command exist.
LEMMA MadeEntries ==
  ASSUME IInv, pc = "loop", NEW q \in Fresh, NEW k \in DOMAIN Sh!Made(q)
  PROVE  \/ /\ k \in DOMAIN clients[id].pipes /\ Sh!Made(q)[k] = clients[id].pipes[k]
         \/ /\ Sh!NeedsPipe /\ Sh!IsNum(Sh!M(i)) /\ q \in Pipe
            /\ k = clients[id].lineIdx + Sh!M(i).n /\ Sh!Made(q)[k] = q
<1>1. CASE Sh!NeedsPipe /\ Sh!IsNum(Sh!M(i))
  <2>1. q \in Pipe
    BY <1>1, FreshPipe
  <2> QED BY <1>1, <2>1 DEF Sh!Made, Sh!Put
<1>2. CASE ~(Sh!NeedsPipe /\ Sh!IsNum(Sh!M(i)))
  BY <1>2 DEF Sh!Made
<1> QED BY <1>1, <1>2

\* Whatever the server held was there before the new pipe.
LEMMA HeldIsOld ==
  ASSUME IInv, NEW q \in Fresh, NEW n \in DOMAIN clients
  PROVE  /\ \A k \in DOMAIN clients[n].pipes :
              clients[n].pipes[k] \in ServerOpen /\ clients[n].pipes[k] \in Pipe /\ clients[n].pipes[k] # q
         /\ \A m \in DOMAIN clients[n].recvMessages :
              /\ clients[n].recvMessages[m] \in ServerOpen /\ clients[n].recvMessages[m] \in Pipe
              /\ clients[n].recvMessages[m] # q
         /\ \A j \in DOMAIN clients[n].ordinary_pipes :
              clients[n].ordinary_pipes[j] \in ServerOpen /\ clients[n].ordinary_pipes[j] # q
         /\ \A r \in leaked : r # q
<1>1. OwnPipes(n) \subseteq ServerOpen /\ leaked \subseteq ServerOpen /\ ServerOpen \subseteq Pipe
  BY OwnPipesType DEF ServerOpen, IInv, TypeOK
<1>2. \A r \in ServerOpen : r # q
  BY <1>1, FreshPipe
<1> QED BY <1>1, <1>2 DEF OwnPipes, Ran

\* The entry of the user being served, field by field.
LEMMA ServedFields ==
  ASSUME IInv, pc = "loop", NEW q \in Fresh
  PROVE  LET c == clients[id]
         IN  /\ Served(q).pipes = IF Sh!FromNum(q) THEN Drop(Sh!Made(q), c.lineIdx) ELSE Sh!Made(q)
             /\ Served(q).recvMessages = IF Receives THEN Drop(c.recvMessages, From) ELSE c.recvMessages
             /\ Served(q).lineIdx =
                  IF i < Len(line.cmds) /\ Sh!IsNum(Sh!M(i)) THEN c.lineIdx + 1 ELSE c.lineIdx
             /\ Served(q).session = c.session /\ Served(q).base = c.base
<1> DEFINE c == clients[id]
           np == IF Sh!FromNum(q) THEN Drop(Sh!Made(q), c.lineIdx) ELSE Sh!Made(q)
           no == IF Sh!FromOrd THEN Tail(Sh!Queue(q)) ELSE Sh!Queue(q)
           nr == IF Receives THEN Drop(c.recvMessages, From) ELSE c.recvMessages
           nl == IF i < Len(line.cmds) /\ Sh!IsNum(Sh!M(i)) THEN c.lineIdx + 1 ELSE c.lineIdx
<1>1. c \in Client([DOMAIN c.pipes -> Pipe], [DOMAIN c.recvMessages -> Pipe])
  BY LoopFacts, ClientFields
<1>2. Served(q) = [c EXCEPT !.pipes = np, !.ordinary_pipes = no, !.recvMessages = nr, !.lineIdx = nl]
  BY <1>1 DEF Served, Client
<1> HIDE DEF np, no, nr, nl, c
<1>3. /\ Served(q).pipes = np /\ Served(q).recvMessages = nr /\ Served(q).lineIdx = nl
      /\ Served(q).session = c.session /\ Served(q).base = c.base
  BY <1>1, <1>2 DEF Client
<1> QED BY <1>3 DEF c, np, nr, nl

\* Everybody's tables after the iteration: what they hold is old, or the new pipe.
LEMMA AfterTables ==
  ASSUME IInv, pc = "loop", NEW q \in Fresh, NEW n \in DOMAIN clients
  PROVE  /\ After(q)[n].session = clients[n].session /\ After(q)[n].base = clients[n].base
         /\ After(q)[n].lineIdx =
              IF n = id /\ i < Len(line.cmds) /\ Sh!IsNum(Sh!M(i)) THEN clients[n].lineIdx + 1
              ELSE clients[n].lineIdx
         /\ After(q)[n].pipes =
              IF n # id THEN clients[n].pipes
              ELSE IF Sh!FromNum(q) THEN Drop(Sh!Made(q), clients[n].lineIdx) ELSE Sh!Made(q)
         /\ \A m \in DOMAIN After(q)[n].recvMessages :
              \/ /\ Sends /\ n = To /\ m = id /\ After(q)[n].recvMessages[m] = q
              \/ /\ m \in DOMAIN clients[n].recvMessages
                 /\ After(q)[n].recvMessages[m] = clients[n].recvMessages[m]
                 /\ ~(n = id /\ Receives /\ m = From)
<1>0. id \in DOMAIN clients
  BY LoopFacts
<1>1. /\ DOMAIN Mine(q) = DOMAIN clients
      /\ Mine(q)[n] = IF n = id THEN Served(q) ELSE clients[n]
  BY DEF Mine
<1>2. IsClient(Mine(q)[n])
  BY <1>1, ServedType DEF IInv, TypeOK
<1>3. /\ Mine(q)[n].session = clients[n].session /\ Mine(q)[n].base = clients[n].base
      /\ Mine(q)[n].lineIdx =
              IF n = id /\ i < Len(line.cmds) /\ Sh!IsNum(Sh!M(i)) THEN clients[n].lineIdx + 1
              ELSE clients[n].lineIdx
      /\ Mine(q)[n].pipes =
              IF n # id THEN clients[n].pipes
              ELSE IF Sh!FromNum(q) THEN Drop(Sh!Made(q), clients[n].lineIdx) ELSE Sh!Made(q)
      /\ \A m \in DOMAIN Mine(q)[n].recvMessages :
           /\ m \in DOMAIN clients[n].recvMessages
           /\ Mine(q)[n].recvMessages[m] = clients[n].recvMessages[m]
           /\ ~(n = id /\ Receives /\ m = From)
  <2>1. CASE n = id
    <3>1. \A m \in DOMAIN Served(q).recvMessages :
           /\ m \in DOMAIN clients[id].recvMessages
           /\ Served(q).recvMessages[m] = clients[id].recvMessages[m]
           /\ ~(Receives /\ m = From)
      <4>1. CASE Receives
        <5>1. Served(q).recvMessages = Drop(clients[id].recvMessages, From)
          BY <4>1, ServedFields
        <5> QED BY <5>1 DEF Drop
      <4>2. CASE ~Receives
        BY <4>2, ServedFields
      <4> QED BY <4>1, <4>2
    <3> QED BY <1>1, <2>1, <3>1, ServedFields
  <2>2. CASE n # id
    BY <1>1, <2>2
  <2> QED BY <2>1, <2>2
<1>4. CASE ~(Sends /\ n = To)
  <2>1. After(q)[n] = Mine(q)[n]
    BY <1>1, <1>4 DEF After
  <2> QED BY <1>3, <2>1
<1>5. CASE Sends /\ n = To
  <2> DEFINE e == Mine(q)[n]
             nr == Put(e.recvMessages, id, q)
  <2>1. After(q)[n] = [e EXCEPT !.recvMessages = nr]
    BY <1>1, <1>5 DEF After
  <2>2. e \in Client([DOMAIN e.pipes -> Pipe], [DOMAIN e.recvMessages -> Pipe])
    BY <1>2, ClientFields
  <2>3. \A m \in DOMAIN nr : \/ m = id /\ nr[m] = q
                             \/ m \in DOMAIN e.recvMessages /\ nr[m] = e.recvMessages[m]
    BY DEF Put
  <2> HIDE DEF e, nr
  <2>4. /\ After(q)[n].session = e.session /\ After(q)[n].base = e.base
        /\ After(q)[n].lineIdx = e.lineIdx /\ After(q)[n].pipes = e.pipes
        /\ After(q)[n].recvMessages = nr
    BY <2>1, <2>2 DEF Client
  <2> QED BY <1>3, <1>5, <2>3, <2>4 DEF e
<1> QED BY <1>4, <1>5

LEMMA LoopCursor ==
  ASSUME PInv, pc = "loop"
  PROVE  /\ clients[id].lineIdx = clients[id].base + Sh!Counted(line, i)
         /\ clients[id].lineIdx \in Nat /\ clients[id].base \in Nat /\ Sh!Counted(line, i) \in Nat
<1>1. id \in DOMAIN clients /\ i \in Nat
  BY LoopFacts DEF PInv
<1>2. Sh!Counted(line, i) \in Nat
  BY <1>1, CountedType
<1>3. clients[id].lineIdx \in Nat /\ clients[id].base \in Nat
  BY <1>1, TableTypes DEF PInv
<1> QED BY <1>1, <1>2, <1>3 DEF PInv, Cursors

\* What a command reads stands where its text points to, and is meant for it.
LEMMA InEnd ==
  ASSUME PInv, pc = "loop", NEW q \in Fresh, In(q) \in Pipe
  PROVE  /\ In(q) \in ServerOpen /\ In(q) # q /\ meant[In(q)] = Takes
         /\ \/ Receives /\ Takes = UserTag(From, Session)
            \/ Takes = OrdTag(typed, i)
            \/ Sh!FromNum(q) /\ Takes = NumTag(Session, clients[id].lineIdx)
<1> DEFINE c == clients[id]
<1>0. IInv
  BY DEF PInv
<1>1. /\ id \in DOMAIN clients /\ clients[id].lineIdx = clients[id].base + Sh!Counted(line, i)
      /\ Null \notin Pipe /\ Tty \notin Pipe /\ Sh!Tty = Tty
  BY <1>0, LoopFacts, LoopCursor, FreshPipe, Texts
<1>2. CASE From # 0
  <2>1. Receives /\ In(q) = c.recvMessages[From]
    BY <1>1, <1>2 DEF In
  <2>2. From \in DOMAIN c.recvMessages /\ Takes = UserTag(From, c.session)
    BY <1>2, <2>1 DEF Receives, Takes, Session
  <2>3. meant[In(q)] = UserTag(From, c.session)
    BY <1>1, <2>1, <2>2 DEF PInv, Tables
  <2>4. In(q) \in ServerOpen /\ In(q) # q
    BY <1>0, <1>1, <2>1, <2>2, HeldIsOld
  <2> QED BY <2>1, <2>2, <2>3, <2>4 DEF Session
<1>3. CASE From = 0 /\ Sh!FromOrd
  <2>1. PICK r \in Pipe : c.ordinary_pipes = <<r>>
    BY <1>0, <1>3, LoopFacts
  <2>2. DOMAIN c.ordinary_pipes = {1} /\ c.ordinary_pipes[1] = r /\ Head(c.ordinary_pipes) = r
    BY <2>1
  <2>3. In(q) = r
    BY <1>3, <2>2 DEF In, Sh!In
  <2>4. Takes = OrdTag(typed, i)
    BY <1>0, <1>3, Texts DEF Takes
  <2>5. meant[r] = OrdTag(typed, i)
    BY <1>1, <2>2 DEF PInv, Tables
  <2>6. r \in ServerOpen /\ r # q
    BY <1>0, <1>1, <2>2, HeldIsOld
  <2> QED BY <2>3, <2>4, <2>5, <2>6
<1>4. CASE From = 0 /\ ~Sh!FromOrd
  <2>1. Sh!FromNum(q) /\ In(q) = Sh!Made(q)[c.lineIdx]
    BY <1>1, <1>4 DEF In, Sh!In
  <2>2. Sh!AtHead(line, i) /\ c.lineIdx \in DOMAIN Sh!Made(q)
    BY <2>1 DEF Sh!FromNum
  <2>3. c.lineIdx \in DOMAIN c.pipes /\ In(q) = c.pipes[c.lineIdx]
    <3>1. Sh!IsNum(Sh!M(i)) => c.lineIdx # c.lineIdx + Sh!M(i).n
      <4>1. c.lineIdx \in Nat
        BY LoopCursor
      <4>2. Sh!IsNum(Sh!M(i)) => Sh!M(i).n \in Nat /\ Sh!M(i).n >= 1
        BY <1>0, Texts
      <4> HIDE DEF c
      <4> QED BY <4>1, <4>2
    <3> QED BY <1>0, <2>1, <2>2, <3>1, MadeEntries
  <2>4. Takes = NumTag(c.session, c.lineIdx)
    BY <1>1, <1>4, <2>2 DEF Takes, Session
  <2>5. meant[In(q)] = NumTag(c.session, c.lineIdx)
    BY <1>1, <2>3 DEF PInv, Tables
  <2>6. In(q) \in ServerOpen /\ In(q) # q
    BY <1>0, <1>1, <2>3, HeldIsOld
  <2> QED BY <2>1, <2>4, <2>5, <2>6 DEF Session
<1> QED BY <1>2, <1>3, <1>4

\* What the text says of a pipe that the command creates.
LEMMA NewPipeAims ==
  ASSUME PInv, pc = "loop"
  PROVE  /\ Sends => Aims = UserTag(id, clients[To].session)
         /\ Sh!M(i).k = "ord" => Aims = OrdTag(typed, i + 1)
         /\ Sh!IsNum(Sh!M(i)) =>
              Aims = NumTag(Session, clients[id].lineIdx + Sh!M(i).n)
<1>0. IInv
  BY DEF PInv
<1>1. Sends => Aims = UserTag(id, clients[To].session)
  BY DEF Sends, Aims
<1>2. Sh!M(i).k = "ord" => Aims = OrdTag(typed, i + 1)
  BY <1>0, Texts DEF Aims
<1>3. Sh!IsNum(Sh!M(i)) => Aims = NumTag(Session, clients[id].lineIdx + Sh!M(i).n)
  BY <1>0, Texts, LoopCursor DEF Aims
<1> QED BY <1>1, <1>2, <1>3

\* What a command writes is the pipe just made, or stands where its text points to.
LEMMA OutEnd ==
  ASSUME PInv, pc = "loop", NEW q \in Fresh, Out(q) \in Pipe
  PROVE  \/ Out(q) = q
         \/ /\ Out(q) \in ServerOpen /\ Out(q) # q /\ meant[Out(q)] = Aims
            /\ Sh!IsNum(Sh!M(i)) /\ Aims = NumTag(Session, clients[id].lineIdx + Sh!M(i).n)
<1> DEFINE c == clients[id]
           k == c.lineIdx + Sh!M(i).n
<1>0. IInv
  BY DEF PInv
<1>1. id \in DOMAIN clients /\ Null \notin Pipe /\ Tty \notin Pipe /\ Sh!Tty = Tty
  BY <1>0, LoopFacts, FreshPipe, Texts
<1>2. CASE To # 0
  BY <1>1, <1>2 DEF Out
<1>3. CASE To = 0 /\ Sh!M(i).k = "ord"
  <2>1. Out(q) = Head(IF Sh!FromOrd THEN Tail(Sh!Queue(q)) ELSE Sh!Queue(q))
    BY <1>3 DEF Out, Sh!Out
  <2>2. (IF Sh!FromOrd THEN Tail(Sh!Queue(q)) ELSE Sh!Queue(q)) = <<q>>
    BY <1>0, <1>3, QueueAfter
  <2>3. Head(<<q>>) = q
    OBVIOUS
  <2>4. Out(q) = Head(<<q>>)
    BY ONLY <2>1, <2>2
  <2> QED BY <2>3, <2>4
<1>4. CASE To = 0 /\ Sh!IsNum(Sh!M(i))
  <2>1. k \in DOMAIN Sh!Made(q)
    BY <1>0, <1>4, MadeType
  <2>2. Out(q) = Sh!Made(q)[k]
    BY <1>0, <1>4, Texts DEF Out, Sh!Out
  <2>3. CASE k \in DOMAIN c.pipes /\ Sh!Made(q)[k] = c.pipes[k]
    <3>1. meant[c.pipes[k]] = NumTag(c.session, k)
      BY <1>1, <2>3 DEF PInv, Tables
    <3>2. c.pipes[k] \in ServerOpen /\ c.pipes[k] # q
      BY <1>0, <1>1, <2>3, HeldIsOld
    <3> QED BY <1>4, <2>2, <2>3, <3>1, <3>2, NewPipeAims DEF Session
  <2>4. CASE Sh!Made(q)[k] = q
    BY <2>2, <2>4
  <2> HIDE DEF c, k
  <2> QED BY <1>0, <2>1, <2>3, <2>4, MadeEntries DEF c, k
<1>5. CASE To = 0 /\ Sh!M(i).k # "ord" /\ ~Sh!IsNum(Sh!M(i))
  BY <1>1, <1>5 DEF Out, Sh!Out
<1> QED BY <1>2, <1>3, <1>4, <1>5

LEMMA EndsApart ==
  ASSUME PInv, pc = "loop", NEW q \in Fresh, In(q) \in Pipe
  PROVE  In(q) # Out(q)
<1> SUFFICES ASSUME In(q) = Out(q) PROVE FALSE
  OBVIOUS
<1> DEFINE u == clients[id].lineIdx
           v == u + Sh!M(i).n
<1>1. Takes = Aims /\ Sh!IsNum(Sh!M(i)) /\ Aims = NumTag(Session, v)
  BY InEnd, OutEnd
<1>2. Takes = UserTag(From, Session) \/ Takes = OrdTag(typed, i) \/ Takes = NumTag(Session, u)
  BY InEnd
<1>3. u # v
  <2>1. u \in Nat /\ Sh!M(i).n \in Nat /\ Sh!M(i).n >= 1
    BY <1>1, LoopCursor, Texts DEF PInv
  <2> HIDE DEF u
  <2> QED BY <2>1
<1> HIDE DEF u, v
<1> QED BY <1>1, <1>2, <1>3 DEF NumTag, UserTag, OrdTag

\* After the iteration every table holds what is meant for it, the new pipe included.
LEMMA ForkTables ==
  ASSUME PInv, pc = "loop", NEW q \in Fresh, clients' = After(q),
         Sh!M(i).k = "ord" => i' = i + 1,
         \A r \in Pipe : r # q => meant'[r] = meant[r],
         q \in Pipe => meant'[q] = Aims,
         typed' = typed
  PROVE  Tables'
<1>0. IInv /\ id \in DOMAIN clients
  BY LoopFacts DEF PInv
<1>1. DOMAIN clients' = DOMAIN clients
  BY <1>0, AfterType
<1>2. ASSUME NEW n \in DOMAIN clients, NEW k \in DOMAIN clients'[n].pipes
      PROVE  meant'[clients'[n].pipes[k]] = NumTag(clients'[n].session, k)
  <2>1. clients'[n].session = clients[n].session
    BY <1>0, AfterTables
  <2>2. \/ k \in DOMAIN clients[n].pipes /\ clients'[n].pipes[k] = clients[n].pipes[k]
        \/ /\ n = id /\ q \in Pipe /\ Sh!IsNum(Sh!M(i))
           /\ k = clients[id].lineIdx + Sh!M(i).n /\ clients'[n].pipes[k] = q
    <3>1. CASE n # id
      <4>1. clients'[n].pipes = clients[n].pipes
        BY <1>0, <3>1, AfterTables
      <4> QED BY <1>2, <4>1
    <3>2. CASE n = id
      <4>1. k \in DOMAIN Sh!Made(q) /\ clients'[n].pipes[k] = Sh!Made(q)[k]
        <5>1. CASE Sh!FromNum(q)
          <6>1. clients'[n].pipes = Drop(Sh!Made(q), clients[n].lineIdx)
            BY <1>0, <3>2, <5>1, AfterTables
          <6> QED BY <1>2, <6>1 DEF Drop
        <5>2. CASE ~Sh!FromNum(q)
          <6>1. clients'[n].pipes = Sh!Made(q)
            BY <1>0, <3>2, <5>2, AfterTables
          <6> QED BY <1>2, <6>1
        <5> QED BY <5>1, <5>2
      <4> QED BY <1>0, <3>2, <4>1, MadeEntries
    <3> QED BY <3>1, <3>2
  <2>3. CASE k \in DOMAIN clients[n].pipes /\ clients'[n].pipes[k] = clients[n].pipes[k]
    <3>1. clients[n].pipes[k] \in Pipe /\ clients[n].pipes[k] # q
      BY <1>0, <2>3, HeldIsOld
    <3>2. meant[clients[n].pipes[k]] = NumTag(clients[n].session, k)
      BY <2>3 DEF PInv, Tables
    <3> QED BY <2>1, <2>3, <3>1, <3>2
  <2>4. CASE /\ n = id /\ q \in Pipe /\ Sh!IsNum(Sh!M(i))
             /\ k = clients[id].lineIdx + Sh!M(i).n /\ clients'[n].pipes[k] = q
    <3>1. Aims = NumTag(clients[id].session, clients[id].lineIdx + Sh!M(i).n)
      BY <2>4, NewPipeAims DEF Session
    <3> QED BY <2>1, <2>4, <3>1
  <2> QED BY <2>2, <2>3, <2>4
<1>3. ASSUME NEW n \in DOMAIN clients, NEW m \in DOMAIN clients'[n].recvMessages
      PROVE  meant'[clients'[n].recvMessages[m]] = UserTag(m, clients'[n].session)
  <2>1. clients'[n].session = clients[n].session
    BY <1>0, AfterTables
  <2>2. \/ Sends /\ n = To /\ m = id /\ clients'[n].recvMessages[m] = q
        \/ m \in DOMAIN clients[n].recvMessages
           /\ clients'[n].recvMessages[m] = clients[n].recvMessages[m]
    BY <1>0, <1>3, AfterTables
  <2>3. CASE Sends /\ n = To /\ m = id /\ clients'[n].recvMessages[m] = q
    <3>1. q \in Pipe /\ Aims = UserTag(id, clients[To].session)
      BY <1>0, <2>3, FreshPipe, NewPipeAims
    <3> QED BY <2>1, <2>3, <3>1
  <2>4. CASE m \in DOMAIN clients[n].recvMessages
             /\ clients'[n].recvMessages[m] = clients[n].recvMessages[m]
    <3>1. clients[n].recvMessages[m] \in Pipe /\ clients[n].recvMessages[m] # q
      BY <1>0, <2>4, HeldIsOld
    <3>2. meant[clients[n].recvMessages[m]] = UserTag(m, clients[n].session)
      BY <2>4 DEF PInv, Tables
    <3> QED BY <2>1, <2>4, <3>1, <3>2
  <2> QED BY <2>2, <2>3, <2>4
<1>4. ASSUME NEW n \in DOMAIN clients, NEW j \in DOMAIN clients'[n].ordinary_pipes
      PROVE  meant'[clients'[n].ordinary_pipes[j]] = OrdTag(typed', i')
  <2>1. clients'[n].ordinary_pipes = IF n = id /\ Sh!M(i).k = "ord" THEN <<q>> ELSE <<>>
    BY <1>0, AfterType
  <2>2. n = id /\ Sh!M(i).k = "ord"
    <3> SUFFICES ASSUME ~(n = id /\ Sh!M(i).k = "ord") PROVE FALSE
      OBVIOUS
    <3>1. clients'[n].ordinary_pipes = <<>>
      BY <2>1
    <3>2. DOMAIN clients'[n].ordinary_pipes = {}
      BY <3>1
    <3> QED BY <1>4, <3>2
  <2>3. clients'[n].ordinary_pipes = <<q>>
    BY <2>1, <2>2
  <2>4. clients'[n].ordinary_pipes[j] = q
    BY <1>4, <2>3
  <2>5. q \in Pipe /\ Aims = OrdTag(typed, i + 1)
    BY <1>0, <2>2, FreshPipe, NewPipeAims DEF Sh!NeedsPipe
  <2> QED BY <2>2, <2>4, <2>5
<1> QED BY <1>1, <1>2, <1>3, <1>4 DEF Tables, NumTag, UserTag, OrdTag

(* What a command reads is in nobody's table any more: the place its       *)
(* meaning names is gone from the tables, and no other place has its name. *)
LEMMA InIsClosed ==
  ASSUME PInv, pc = "loop", NEW q \in Fresh, In(q) \in Pipe, clients' = After(q),
         Tables', i' # i, typed' = typed, leaked' = leaked,
         meant'[In(q)] = meant[In(q)]
  PROVE  In(q) \notin ServerOpen'
<1>0. IInv /\ id \in DOMAIN clients
  BY LoopFacts DEF PInv
<1>1. /\ In(q) \in Pipe /\ In(q) # q /\ meant[In(q)] = Takes /\ meant'[In(q)] = Takes
      /\ \/ Receives /\ Takes = UserTag(From, Session)
         \/ Takes = OrdTag(typed, i)
         \/ Sh!FromNum(q) /\ Takes = NumTag(Session, clients[id].lineIdx)
  BY InEnd
<1>2. DOMAIN clients' = DOMAIN clients
  BY <1>0, AfterType
<1>3. Session = clients[id].session /\ \A n \in DOMAIN clients : clients[n].session = Session => n = id
  BY <1>0 DEF PInv, Sessions, Session
<1>4. In(q) \notin leaked
  <2> SUFFICES ASSUME In(q) \in leaked PROVE FALSE
    OBVIOUS
  <2>1. PICK s \in Nat, k \in Nat :
          /\ \A n \in DOMAIN clients : clients[n].session # s
          /\ meant[In(q)] \in {NumTag(s, k), UserTag(k, s)}
    BY DEF PInv, Leaks
  <2>2. Session # s
    BY <1>0, <1>3, <2>1
  <2> QED BY <1>1, <2>1, <2>2 DEF NumTag, UserTag, OrdTag
<1>5. ASSUME NEW n \in DOMAIN clients, NEW k \in DOMAIN clients'[n].pipes
      PROVE  clients'[n].pipes[k] # In(q)
  <2> SUFFICES ASSUME clients'[n].pipes[k] = In(q) PROVE FALSE
    OBVIOUS
  <2>1. meant'[clients'[n].pipes[k]] = NumTag(clients'[n].session, k)
    BY <1>2, <1>5 DEF Tables, NumTag
  <2>2. clients'[n].session = clients[n].session
    BY <1>0, AfterTables
  <2>3. Takes = NumTag(clients[n].session, k)
    BY <1>1, <2>1, <2>2
  <2>4. Sh!FromNum(q) /\ clients[n].session = Session /\ k = clients[id].lineIdx
    BY <1>1, <2>3 DEF NumTag, UserTag, OrdTag
  <2>5. n = id
    BY <1>3, <2>4
  <2>6. clients'[n].pipes = Drop(Sh!Made(q), clients[id].lineIdx)
    BY <1>0, <2>4, <2>5, AfterTables
  <2> QED BY <1>5, <2>4, <2>6 DEF Drop
<1>6. ASSUME NEW n \in DOMAIN clients, NEW m \in DOMAIN clients'[n].recvMessages
      PROVE  clients'[n].recvMessages[m] # In(q)
  <2> SUFFICES ASSUME clients'[n].recvMessages[m] = In(q) PROVE FALSE
    OBVIOUS
  <2>1. meant'[clients'[n].recvMessages[m]] = UserTag(m, clients'[n].session)
    BY <1>2, <1>6 DEF Tables, UserTag
  <2>2. clients'[n].session = clients[n].session
    BY <1>0, AfterTables
  <2>3. Takes = UserTag(m, clients[n].session)
    BY <1>1, <2>1, <2>2
  <2>4. Receives /\ clients[n].session = Session /\ m = From
    BY <1>1, <2>3 DEF NumTag, UserTag, OrdTag
  <2>5. n = id
    BY <1>3, <2>4
  <2>6. After(q)[n].recvMessages[m] = q
    BY <1>0, <1>6, <2>4, <2>5, AfterTables
  <2> QED BY <1>1, <2>6
<1>7. ASSUME NEW n \in DOMAIN clients, NEW j \in DOMAIN clients'[n].ordinary_pipes
      PROVE  clients'[n].ordinary_pipes[j] # In(q)
  <2> SUFFICES ASSUME clients'[n].ordinary_pipes[j] = In(q) PROVE FALSE
    OBVIOUS
  <2>1. meant'[clients'[n].ordinary_pipes[j]] = OrdTag(typed', i')
    BY <1>2, <1>7 DEF Tables, OrdTag
  <2>2. Takes = OrdTag(typed, i')
    BY <1>1, <2>1
  <2> QED BY <1>1, <2>2 DEF NumTag, UserTag, OrdTag
<1>8. ASSUME NEW n \in DOMAIN clients PROVE In(q) \notin OwnPipes(n)'
  BY <1>5, <1>6, <1>7 DEF OwnPipes, Ran
<1> QED BY <1>2, <1>4, <1>8 DEF ServerOpen

\* The server opens no pipe but the new one.
LEMMA OpenAfter ==
  ASSUME PInv, pc = "loop", NEW q \in Fresh, clients' = After(q), leaked' = leaked
  PROVE  ServerOpen' \subseteq Open(q)
<1>0. IInv /\ id \in DOMAIN clients /\ Tty \notin Pipe
  BY LoopFacts, FreshPipe DEF PInv
<1>1. DOMAIN clients' = DOMAIN clients
  BY <1>0, AfterType
<1>2. ServerOpen \subseteq Open(q) /\ (q \in Pipe => q \in Open(q))
  BY <1>0 DEF Open
<1>3. ASSUME NEW n \in DOMAIN clients, NEW k \in DOMAIN clients'[n].pipes
      PROVE  clients'[n].pipes[k] \in Open(q)
  <2>1. CASE n # id
    <3>1. clients'[n].pipes = clients[n].pipes
      BY <1>0, <2>1, AfterTables
    <3> QED BY <1>0, <1>2, <1>3, <3>1, HeldIsOld
  <2>2. CASE n = id
    <3>1. k \in DOMAIN Sh!Made(q) /\ clients'[n].pipes[k] = Sh!Made(q)[k]
      <4>1. CASE Sh!FromNum(q)
        <5>1. clients'[n].pipes = Drop(Sh!Made(q), clients[n].lineIdx)
          BY <1>0, <2>2, <4>1, AfterTables
        <5> QED BY <1>3, <5>1 DEF Drop
      <4>2. CASE ~Sh!FromNum(q)
        <5>1. clients'[n].pipes = Sh!Made(q)
          BY <1>0, <2>2, <4>2, AfterTables
        <5> QED BY <1>3, <5>1
      <4> QED BY <4>1, <4>2
    <3>2. \/ k \in DOMAIN clients[id].pipes /\ clients'[n].pipes[k] = clients[id].pipes[k]
          \/ q \in Pipe /\ clients'[n].pipes[k] = q
      BY <1>0, <3>1, MadeEntries
    <3> QED BY <1>0, <1>2, <3>2, HeldIsOld
  <2> QED BY <2>1, <2>2
<1>4. ASSUME NEW n \in DOMAIN clients, NEW m \in DOMAIN clients'[n].recvMessages
      PROVE  clients'[n].recvMessages[m] \in Open(q)
  <2>1. \/ Sends /\ clients'[n].recvMessages[m] = q
        \/ m \in DOMAIN clients[n].recvMessages
           /\ clients'[n].recvMessages[m] = clients[n].recvMessages[m]
    BY <1>0, <1>4, AfterTables
  <2> QED BY <1>0, <1>2, <2>1, HeldIsOld, FreshPipe
<1>5. ASSUME NEW n \in DOMAIN clients, NEW j \in DOMAIN clients'[n].ordinary_pipes
      PROVE  clients'[n].ordinary_pipes[j] \in Open(q)
  <2>1. clients'[n].ordinary_pipes = IF n = id /\ Sh!M(i).k = "ord" THEN <<q>> ELSE <<>>
    BY <1>0, AfterType
  <2>2. CASE n = id /\ Sh!M(i).k = "ord"
    <3>1. clients'[n].ordinary_pipes = <<q>> /\ q \in Pipe
      BY <1>0, <2>1, <2>2, FreshPipe DEF Sh!NeedsPipe
    <3>2. clients'[n].ordinary_pipes[j] = q
      BY <1>5, <3>1
    <3> QED BY <1>2, <3>1, <3>2
  <2>3. CASE ~(n = id /\ Sh!M(i).k = "ord")
    <3>1. clients'[n].ordinary_pipes = <<>>
      BY <2>1, <2>3
    <3>2. DOMAIN clients'[n].ordinary_pipes = {}
      BY <3>1
    <3> QED BY <1>5, <3>2
  <2> QED BY <2>2, <2>3
<1>6. ASSUME NEW n \in DOMAIN clients PROVE OwnPipes(n)' \subseteq Open(q)
  BY <1>3, <1>4, <1>5 DEF OwnPipes, Ran
<1>7. leaked \subseteq Open(q)
  BY <1>2 DEF ServerOpen
<1> QED BY <1>1, <1>6, <1>7 DEF ServerOpen

\* The counter moves on exactly when the text counts the command's numbered pipe.
LEMMA ForkCursors ==
  ASSUME PInv, pc = "loop", NEW q \in Fresh, clients' = After(q), i' = Sh!NextI,
         pc' = IF Sh!NextI > Len(line.cmds) THEN "wait" ELSE "loop",
         UNCHANGED <<id, line>>
  PROVE  Cursors'
<1>0. IInv /\ id \in DOMAIN clients
  BY LoopFacts DEF PInv
<1>1. DOMAIN clients' = DOMAIN clients
  BY <1>0, AfterType
<1>2. \A n \in DOMAIN clients : n # id => clients'[n].lineIdx = clients'[n].base + 0
  <2>1. \A n \in DOMAIN clients : n # id => clients[n].lineIdx = clients[n].base + 0
    BY DEF PInv, Cursors
  <2>2. \A n \in DOMAIN clients : n # id =>
          clients'[n].lineIdx = clients[n].lineIdx /\ clients'[n].base = clients[n].base
    BY <1>0, AfterTables
  <2> QED BY <2>1, <2>2
<1> DEFINE L == Len(line.cmds)
           counted == Sh!Counted(line, i)
           isnum == Sh!IsNum(Sh!M(i))
<1>3. /\ i \in Nat \ {0} /\ i <= L /\ L \in Nat /\ line \in Lines
      /\ counted \in Nat
      /\ Sh!Counted(line, i + 1) = IF isnum THEN counted + 1 ELSE counted
  <2>1. i \in Nat \ {0} /\ i <= L /\ L \in Nat /\ line \in Lines
    BY <1>0, LoopFacts, ServerAssumption
  <2> QED BY <2>1, CountedStep DEF Sh!M
<1>4. /\ clients'[id].base = clients[id].base
      /\ clients'[id].lineIdx = IF i < L /\ isnum THEN clients[id].lineIdx + 1
                                ELSE clients[id].lineIdx
      /\ clients[id].lineIdx = clients[id].base + counted
      /\ clients[id].base \in Nat
  <2>1. /\ clients'[id].base = clients[id].base
        /\ clients'[id].lineIdx = IF i < L /\ isnum THEN clients[id].lineIdx + 1
                                  ELSE clients[id].lineIdx
    BY <1>0, AfterTables
  <2> QED BY <2>1, LoopCursor
<1>5. /\ Sh!M(i).k = "file" => i + 1 = L /\ Sh!NextI = i + 2 /\ ~isnum
      /\ Sh!M(i).k # "file" => Sh!NextI = i + 1
  <2>1. Sh!M(i).k = "file" => i \in 1 .. Len(line.meds) /\ line.meds[i].k = "file"
    BY DEF Sh!M, Sh!MedOf, Sh!NoMed
  <2>2. Sh!M(i).k = "file" => i + 1 = L
    BY <1>3, <2>1, ServerAssumption
  <2> QED BY <2>2 DEF Sh!NextI, Sh!IsNum
<1>6. clients'[id].lineIdx = clients'[id].base +
        IF pc' = "loop" THEN Sh!Counted(line, i')
        ELSE IF pc' = "wait" THEN Sh!Counted(line, L) ELSE 0
  <2>1. CASE Sh!M(i).k = "file"
    <3>1. pc' = "wait" /\ i + 1 = L /\ ~isnum
      BY <1>3, <1>5, <2>1
    <3>2. Sh!Counted(line, L) = counted
      BY <1>3, <3>1
    <3> HIDE DEF L, counted, isnum
    <3> QED BY <1>4, <3>1, <3>2
  <2>2. CASE Sh!M(i).k # "file" /\ i < L
    <3>1. pc' = "loop" /\ i' = i + 1
      BY <1>3, <1>5, <2>2
    <3>2. Sh!Counted(line, i') = IF isnum THEN counted + 1 ELSE counted
      BY <1>3, <3>1
    <3> HIDE DEF L, counted, isnum
    <3> QED BY <1>3, <1>4, <2>2, <3>1, <3>2
  <2>3. CASE Sh!M(i).k # "file" /\ i = L
    <3>1. pc' = "wait"
      BY <1>3, <1>5, <2>3
    <3>2. Sh!Counted(line, L) = counted
      BY <2>3
    <3> HIDE DEF L, counted, isnum
    <3> QED BY <1>3, <1>4, <2>3, <3>1, <3>2
  <2> HIDE DEF L
  <2> QED BY <1>3, <2>1, <2>2, <2>3
<1>7. \A n \in DOMAIN clients :
        clients'[n].lineIdx = clients'[n].base +
          IF pc' = "loop" /\ n = id THEN Sh!Counted(line, i')
          ELSE IF pc' = "wait" /\ n = id THEN Sh!Counted(line, L) ELSE 0
  BY <1>2, <1>6
<1> QED BY <1>1, <1>7 DEF Cursors

LEMMA ForkPipes ==
  ASSUME PInv, IInv', ForkCmd
  PROVE  PInv'
<1>0. IInv /\ pc = "loop"
  BY DEF PInv, ForkCmd
<1>1. PICK p \in Lowest(FreePids), q \in Fresh :
        /\ kid' = [kid EXCEPT ![p] = Child(q)]
        /\ clients' = After(q)
        /\ IF q = Tty THEN UNCHANGED <<buf, meant>>
           ELSE buf' = [buf EXCEPT ![q] = 0] /\ meant' = [meant EXCEPT ![q] = Aims]
        /\ lastWaitChild' = IF Sh!Awaited THEN p ELSE lastWaitChild
  BY DEF ForkCmd
<1>2. /\ i' = Sh!NextI
      /\ pc' = IF Sh!NextI > Len(line.cmds) THEN "wait" ELSE "loop"
      /\ UNCHANGED <<id, line, leaked, typed, sessions>>
  BY DEF ForkCmd, tables
<1>3. /\ i \in Nat /\ i' # i /\ (Sh!M(i).k = "ord" => i' = i + 1)
  <2>1. i \in Nat
    BY <1>0, LoopFacts
  <2> QED BY <1>2, <2>1 DEF Sh!NextI
<1>4. /\ \A r \in Pipe : r # q => meant'[r] = meant[r]
      /\ q \in Pipe => meant'[q] = Aims
  <2>1. meant \in [Pipe -> Tag] /\ Tty \notin Pipe
    BY <1>0, FreshPipe DEF IInv, TypeOK
  <2> QED BY <1>1, <2>1
<1>5. Cursors'
  BY <1>0, <1>1, <1>2, ForkCursors
<1>6. Tables'
  BY <1>0, <1>1, <1>2, <1>3, <1>4, ForkTables
<1>7. /\ DOMAIN clients' = DOMAIN clients
      /\ \A n \in DOMAIN clients : clients'[n].session = clients[n].session
  BY <1>0, <1>1, AfterType, AfterTables
<1>8. Sessions'
  BY <1>2, <1>7 DEF PInv, Sessions
<1>9. Leaks'
  <2>1. \A r \in leaked : r \in Pipe /\ r # q
    <3>1. leaked \subseteq ServerOpen /\ leaked \subseteq Pipe
      BY <1>0 DEF ServerOpen, IInv, TypeOK
    <3> QED BY <1>0, <3>1, FreshPipe
  <2>2. \A r \in leaked : meant'[r] = meant[r]
    BY <1>4, <2>1
  <2> QED BY <1>2, <1>7, <2>2 DEF PInv, Leaks, NumTag, UserTag
<1>10. /\ Running' = Running \cup {p} /\ kid'[p] = Child(q)
       /\ \A r \in Running : r # p /\ kid'[r] = kid[r]
  <2>1. p \in Pid /\ p \notin Running
    BY DEF Lowest, FreePids, Running
  <2>2. kid \in [Pid -> Kid] /\ Child(q).st = "run"
    BY <1>0 DEF IInv, TypeOK, Child
  <2> QED BY <1>1, <2>1, <2>2 DEF Running
<1>11. /\ Child(q).in = In(q) /\ Child(q).out = Out(q)
       /\ Child(q).rd = KeptRd(q) /\ Child(q).wr = KeptWr(q)
       /\ Child(q).takes = Takes /\ Child(q).to = Aims
  BY DEF Child
<1>12. /\ ServerOpen \subseteq Open(q) /\ (q \in Pipe => q \in Open(q)) /\ Open(q) \subseteq Pipe
  BY <1>0, FreshPipe, OpenType DEF Open
<1>13. In(q) \in Pipe =>
         /\ In(q) \in Open(q) /\ In(q) # q /\ In(q) # Out(q)
         /\ meant[In(q)] = Takes /\ meant'[In(q)] = Takes
  BY <1>0, <1>4, <1>12, InEnd, EndsApart
<1>14. Out(q) \in Pipe => Out(q) \in Open(q) /\ meant'[Out(q)] = Aims
  <2> SUFFICES ASSUME Out(q) \in Pipe PROVE Out(q) \in Open(q) /\ meant'[Out(q)] = Aims
    OBVIOUS
  <2>1. CASE Out(q) = q
    BY <1>4, <1>12, <2>1
  <2>2. CASE Out(q) # q
    BY <1>0, <1>4, <1>12, <2>2, OutEnd
  <2> QED BY <2>1, <2>2
<1>15. \A r \in Running : /\ kid[r].in \in Pipe => kid[r].in # q
                          /\ kid[r].out \in Pipe => kid[r].out # q
  BY <1>0, FreshPipe DEF PInv, Ends
<1>16. Ends'
  BY <1>10, <1>11, <1>13, <1>14 DEF PInv, Ends, KeptRd, KeptWr
<1>17. RoutedAsMeant'
  <2>1. ASSUME NEW r \in Running
        PROVE  /\ kid[r].in \in Pipe => meant'[kid[r].in] = kid[r].takes
               /\ kid[r].out \in Pipe => meant'[kid[r].out] = kid[r].to
    BY <1>4, <1>15 DEF PInv, RoutedAsMeant
  <2> QED BY <1>10, <1>11, <1>13, <1>14, <2>1 DEF RoutedAsMeant
<1>18. EofIsReachable'
  <2>1. ServerOpen' \subseteq Open(q)
    BY <1>0, <1>1, <1>2, OpenAfter
  <2>2. In(q) \in Pipe => In(q) \notin ServerOpen'
    BY <1>0, <1>1, <1>2, <1>3, <1>6, <1>13, InIsClosed
  <2>3. ASSUME NEW r \in Running, kid[r].in \in Pipe
        PROVE  kid[r].in \notin Open(q)
    BY <1>15, <2>3 DEF PInv, EofIsReachable, Open
  <2>4. ASSUME NEW r \in Running, kid[r].in \in Pipe
        PROVE  /\ kid[r].in \notin ServerOpen' /\ kid[r].in \notin kid[r].wr
               /\ kid[r].in \notin KeptWr(q)
               /\ \A w \in Running : ~(kid[r].in \in kid[w].wr /\ kid[w].in \in kid[r].wr)
    BY <2>1, <2>3, <2>4 DEF PInv, EofIsReachable, KeptWr
  <2>5. In(q) \notin KeptWr(q)
    BY DEF KeptWr
  <2>6. ASSUME NEW w \in Running PROVE kid[w].in \notin KeptWr(q)
    BY <1>12, <2>4 DEF KeptWr
  <2>7. ASSUME NEW r \in Running', kid'[r].in \in Pipe
        PROVE  /\ kid'[r].in \notin ServerOpen' /\ kid'[r].in \notin kid'[r].wr
               /\ \A w \in Running' : ~(kid'[r].in \in kid'[w].wr /\ kid'[w].in \in kid'[r].wr)
    <3>1. CASE r = p
      BY <1>10, <1>11, <2>2, <2>5, <2>6, <2>7, <3>1
    <3>2. CASE r \in Running
      BY <1>10, <1>11, <2>4, <2>7, <3>2
    <3> QED BY <1>10, <3>1, <3>2
  <2> QED BY <2>7 DEF EofIsReachable
<1> QED BY <1>5, <1>6, <1>8, <1>9, <1>16, <1>17, <1>18 DEF PInv

-----------------------------------------------------------------------------
(* Theorems.                                                               *)

LEMMA NextPipes ==
  ASSUME PInv, [Next]_vars
  PROVE  PInv'
<1>0. IInv'
  BY NextInv DEF PInv
<1>1. CASE Select \/ EndLine
  BY <1>0, <1>1, SelectPipes, EndLinePipes
<1>2. CASE Scan
  <2>1. CASE Accept
    BY <1>0, <2>1, AcceptPipes
  <2>2. CASE \E f \in Fd, n \in Id : shell_service(f, n)
    <3>1. PICK f \in Fd, n \in Id : shell_service(f, n)
      BY <2>2
    <3> QED BY <1>0, <3>1, BuiltinPipes, LogoutPipes, CommandPipes DEF shell_service
  <2> QED BY <1>2, <2>1, <2>2 DEF Scan
<1>3. CASE Loop
  BY <1>0, <1>3, ForkPipes, HandlerPipes, WaitPipes DEF Loop
<1>4. CASE Handler
  BY <1>0, <1>4, HandlerPipes
<1>5. CASE Kids
  BY <1>0, <1>5, KidPipes DEF Kids
<1>6. CASE Quiet \/ UNCHANGED vars
  BY <1>0, <1>6, StutterPipes DEF Quiet
<1> QED BY <1>1, <1>2, <1>3, <1>4, <1>5, <1>6 DEF Next

LEMMA PipesInvariance == Spec => []PInv
<1>1. Init => PInv
  BY InitPipes
<1>2. PInv /\ [Next]_vars => PInv'
  BY NextPipes
<1> QED BY <1>1, <1>2, PTL DEF Spec

(* Whoever the users are, whatever they type and whenever they leave, a    *)
(* command of theirs reads and writes the pipes its text says: ordinary    *)
(* and numbered pipes stay with their session and their line, and a user   *)
(* pipe is read by its receiver from its sender's number (shell_service's  *)
(* loop over pipes, ordinary_pipes and recvMessages).                      *)
THEOREM MeantForReader == Spec => []RoutedAsMeant
<1>1. PInv => RoutedAsMeant
  BY DEF PInv
<1> QED BY <1>1, PipesInvariance, PTL

(* The end of file a command waits for depends neither on the server nor   *)
(* on the command itself, nor on another one that waits for it, for any    *)
(* number of users' pipes inherited by every child (the closes after the   *)
(* fork, in the parent and in the child).                                  *)
THEOREM EofReached == Spec => []EofIsReachable
<1>1. PInv => EofIsReachable
  BY DEF PInv
<1> QED BY <1>1, PipesInvariance, PTL

-----------------------------------------------------------------------------
(* What ServerReturns needs besides fairness.  One server waits for the    *)
(* commands of every user, and each command has copies of all their pipes, *)
(* so that a circle of children that wait for one another would stop them  *)
(* all: there is none, of any length.                                      *)

\* r's end of file has to wait for w.
Delays(w, r) == kid[r].in \in Pipe /\ kid[r].in \in kid[w].wr

(* Children are in an order in which each waits for earlier ones: that of  *)
(* their forks, as the server closes a command's pipe after its fork.      *)
Ordered ==
  \E n \in Nat : \E rank \in [Pid -> 0 .. n] :
    \A r, w \in Running : Delays(w, r) => rank[w] < rank[r]

\* A child can read, write or end.
Moves(p) ==
  \/ kid[p].left > 0 /\ (Sink(p) \notin Pipe \/ ~HasReader(Sink(p)) \/ buf[Sink(p)] < Cap)
  \/ kid[p].left = 0 /\ (kid[p].prog \notin Filter \/ kid[p].in = Null)
  \/ kid[p].left = 0 /\ kid[p].in \in Pipe /\ (buf[kid[p].in] > 0 \/ ~HasWriter(kid[p].in))

\* It writes to a full pipe that somebody has open for reading, or reads its user's socket.
Clogged(p) ==
  kid[p].left > 0 /\ Sink(p) \in Pipe /\ HasReader(Sink(p)) /\ ~(buf[Sink(p)] < Cap)
AtSocket(p) == kid[p].left = 0 /\ kid[p].prog \in Filter /\ kid[p].in = Tty

\* Children wait for end of file, but never all of them.
ChildrenGoOn ==
  Running # {} => \E p \in Running : Moves(p) \/ Clogged(p) \/ AtSocket(p)

\* The scan has something to do, and a number for whoever connects.
Scanning ==
  /\ pc = "serve" => rfds # {}
  /\ Listen \in rfds => \E n \in Id : tickets[n] > 0

(* The handler, the scan or the loop can take its next step, or there is   *)
(* neither a pipe nor a descriptor to be had.                              *)
ServerGoesOn ==
  \/ sigchld /\ ~inHandler
  \/ inHandler /\ (Zombies # {} \/ FreePids = Pid)
  \/ /\ pc = "serve" /\ ~inHandler
     /\ \/ Listen \in rfds /\ \E n \in Id : tickets[n] > 0
        \/ \E f \in AtHand \ halves : f \in Fd /\ fd_table[f] \in Id
  \/ pc = "loop" /\ ~inHandler /\ (FreePids # {} \/ Zombies # {})
  \/ pc = "wait" /\ ~inHandler /\ lastWaitChild \notin Running

NeverStuck ==
  pc # "select" \/ inHandler =>
    ServerGoesOn \/ HalfLine \/ \E p \in Running : Moves(p) \/ Clogged(p) \/ AtSocket(p)

LEMMA Least ==
  ASSUME NEW T \in SUBSET Nat, T # {}
  PROVE  \E x \in T : \A y \in T : ~(y < x)
<1> DEFINE R == OpToRel(<, Nat)
<1>1. PICK x \in T : \A y \in T : ~(<<y, x>> \in R)
  <2>1. IsWellFoundedOn(R, Nat)
    BY NatLessThanWellFounded
  <2> HIDE DEF R
  <2> QED BY <2>1, WFMin
<1>2. ASSUME NEW a \in Nat, NEW b \in Nat, a < b PROVE <<a, b>> \in R
  <2>1. <<a, b>> \in {ss \in Nat \X Nat : ss[1] < ss[2]}
    BY <1>2
  <2> QED BY <2>1, Zenon DEF OpToRel
<1> QED BY <1>1, <1>2, Zenon

LEMMA InitOrdered == Init => Ordered
<1> SUFFICES ASSUME Init PROVE Ordered
  OBVIOUS
<1>1. Running = {}
  BY DEF Init, Running, Gone
<1>2. [p \in Pid |-> 0] \in [Pid -> 0 .. 0]
  OBVIOUS
<1> QED BY <1>1, <1>2 DEF Ordered

\* Children that go on or leave stay in their order.
SameEnds ==
  \A p \in Running' : p \in Running /\ kid'[p].in = kid[p].in /\ kid'[p].wr = kid[p].wr

LEMMA OrderKept ==
  ASSUME Ordered, SameEnds
  PROVE  Ordered'
<1>1. PICK n \in Nat : \E rank \in [Pid -> 0 .. n] :
        \A r, w \in Running : Delays(w, r) => rank[w] < rank[r]
  BY DEF Ordered
<1>2. PICK rank \in [Pid -> 0 .. n] :
        \A r, w \in Running : Delays(w, r) => rank[w] < rank[r]
  BY <1>1
<1>3. \A r, w \in Running' : Delays(w, r)' => rank[w] < rank[r]
  BY <1>2 DEF SameEnds, Delays
<1> QED BY <1>3 DEF Ordered

(* A new child comes last: nobody waits for it, as the pipes of the others *)
(* are neither the server's any more nor the one that was just made.       *)
LEMMA ForkOrdered ==
  ASSUME PInv, Ordered, ForkCmd
  PROVE  Ordered'
<1>1. PICK p \in Lowest(FreePids), q \in Fresh : kid' = [kid EXCEPT ![p] = Child(q)]
  BY DEF ForkCmd
<1>2. p \in Pid /\ p \notin Running /\ kid \in [Pid -> Kid]
  BY DEF Lowest, FreePids, Running, PInv, IInv, TypeOK
<1>3. /\ kid'[p] = Child(q) /\ \A r \in Pid : r # p => kid'[r] = kid[r]
      /\ Running' \subseteq Running \cup {p} /\ Running \subseteq Pid
  BY <1>1, <1>2 DEF Running
<1>4. Child(q).in = In(q) /\ Child(q).wr = KeptWr(q)
  BY DEF Child
<1>5. \A r \in Running : kid[r].in \in Pipe => kid[r].in \notin KeptWr(q)
  <2>1. \A r \in Running : kid[r].in \in Pipe =>
          kid[r].in \notin ServerOpen /\ kid[r].in \in kid[r].rd
    BY DEF PInv, EofIsReachable, Ends
  <2>2. \A r \in Running : q \in Pipe => q \notin kid[r].rd
    BY FreshPipe DEF PInv
  <2> QED BY <2>1, <2>2, FreshPipe DEF PInv, KeptWr, Open
<1>6. PICK n \in Nat : \E rank \in [Pid -> 0 .. n] :
        \A r, w \in Running : Delays(w, r) => rank[w] < rank[r]
  BY DEF Ordered
<1>7. PICK rank \in [Pid -> 0 .. n] :
        \A r, w \in Running : Delays(w, r) => rank[w] < rank[r]
  BY <1>6
<1> DEFINE last == [x \in Pid |-> IF x = p THEN n + 1 ELSE rank[x]]
<1>8. last \in [Pid -> 0 .. n + 1] /\ n + 1 \in Nat
  BY <1>7
<1>9. ASSUME NEW r \in Running', NEW w \in Running', Delays(w, r)' PROVE last[w] < last[r]
  <2>1. CASE r = p
    <3>1. w # p
      BY <1>3, <1>4, <1>9, <2>1 DEF Delays, KeptWr
    <3> QED BY <1>2, <1>3, <1>7, <2>1, <3>1
  <2>2. CASE r # p
    <3>1. w # p
      BY <1>3, <1>4, <1>5, <1>9, <2>2 DEF Delays
    <3>2. Delays(w, r) /\ r \in Running /\ w \in Running
      BY <1>3, <1>9, <2>2, <3>1 DEF Delays
    <3> QED BY <1>2, <1>3, <1>7, <2>2, <3>1, <3>2
  <2> QED BY <2>1, <2>2
<1> HIDE DEF last
<1> QED BY <1>8, <1>9 DEF Ordered

LEMMA NextOrdered == PInv /\ Ordered /\ [Next]_vars => Ordered'
<1> SUFFICES ASSUME PInv, Ordered, [Next]_vars PROVE Ordered'
  OBVIOUS
<1>0. kid \in [Pid -> Kid]
  BY DEF PInv, IInv, TypeOK
<1>1. CASE ForkCmd
  BY <1>1, ForkOrdered
<1>2. CASE ForkRetry \/ WaitLast \/ Handler
  <2>1. PICK p \in Pid \cup {0} : kid' = kid \/ kid' = [kid EXCEPT ![p] = Gone("free")]
    BY <1>2 DEF ForkRetry, WaitLast, Handler, HandlerEnter, HandlerReap, Reap, Zombies,
                PInv, IInv, TypeOK
  <2>2. SameEnds
    BY <1>0, <2>1 DEF SameEnds, Running, Gone
  <2> QED BY <2>2, OrderKept
<1>3. ASSUME NEW p \in Pid, KidStep(p) PROVE Ordered'
  <2>1. CASE KidRead(p)
    <3>1. kid' = [kid EXCEPT ![p].left = 1]
      BY <2>1 DEF KidRead
    <3> QED BY <1>0, <3>1, OrderKept DEF SameEnds, Running, Kid
  <2>2. CASE KidWrite(p)
    <3>1. kid' = [kid EXCEPT ![p].left = @ - 1]
      BY <2>2 DEF KidWrite
    <3> QED BY <1>0, <3>1, OrderKept DEF SameEnds, Running, Kid
  <2>3. CASE KidExit(p)
    <3>1. kid' = [kid EXCEPT ![p] = Gone("zombie")]
      BY <2>3 DEF KidExit
    <3> QED BY <1>0, <3>1, OrderKept DEF SameEnds, Running, Gone
  <2> QED BY <1>3, <2>1, <2>2, <2>3 DEF KidStep
<1>4. ASSUME NEW f \in Fd, NEW n \in Id, shell_service(f, n) PROVE kid' = kid
  BY <1>4 DEF shell_service, Blank, Inform, setenv, rename, Builtin, logout, Command
<1>5. CASE Select \/ EndLine \/ Scan \/ Quiet \/ UNCHANGED vars
  <2>1. kid' = kid
    BY <1>4, <1>5 DEF Select, EndLine, Scan, Accept, Quiet, vars
  <2> QED BY <2>1, OrderKept DEF SameEnds, Running
<1> QED BY <1>1, <1>2, <1>3, <1>5 DEF Next, Loop, Kids

\* Only select fills rfds, and only accept takes the number that select has seen.
LEMMA NextScanning == PInv /\ Scanning /\ [Next]_vars => Scanning'
<1> SUFFICES ASSUME PInv, Scanning, [Next]_vars PROVE Scanning'
  OBVIOUS
<1>1. CASE Select
  BY <1>1 DEF Select, Scanning, tables
<1>2. CASE Accept
  <2>1. rfds' = rfds \ {Listen} /\ pc' = IF rfds = {Listen} THEN "select" ELSE "serve"
    BY <1>2 DEF Accept, Scanned
  <2>2. Listen \in rfds
    BY <1>2 DEF Accept
  <2> QED BY <2>1, <2>2 DEF Scanning
<1>3. ASSUME NEW f \in Fd, NEW n \in Id, shell_service(f, n) PROVE Scanning'
  <2>1. f \in rfds /\ rfds' = rfds \ {f}
    BY <1>3 DEF shell_service, Blank, Inform, setenv, rename, Builtin, logout, Command, Serve,
                Scanned, AtHand, Lowest
  <2>2. pc' = "loop" \/ pc' = IF rfds = {f} THEN "select" ELSE "serve"
    BY <1>3 DEF shell_service, Blank, Inform, setenv, rename, Builtin, logout, Command, Scanned
  <2>3. tickets' = tickets \/ tickets' = returnTicket(n)
    BY <1>3 DEF shell_service, Blank, Inform, setenv, rename, Builtin, logout, Command, tables
  <2>4. tickets \in [Id -> Nat]
    BY DEF PInv, IInv, TypeOK
  <2>5. \A m \in Id : tickets[m] > 0 => tickets'[m] > 0
    BY <2>3, <2>4 DEF returnTicket
  <2> QED BY <2>1, <2>2, <2>5 DEF Scanning
<1>4. CASE ForkCmd \/ ForkRetry \/ WaitLast
  BY <1>4 DEF ForkCmd, ForkRetry, WaitLast, unmoved, service, tables, Scanning
<1>5. CASE EndLine \/ Handler \/ Kids \/ Quiet \/ UNCHANGED vars
  <2>1. UNCHANGED <<tables, pc, rfds>>
    BY <1>5 DEF EndLine, service, Handler, HandlerEnter, HandlerReap, Kids, KidStep, KidRead, KidWrite, KidExit,
                Quiet, unmoved, vars
  <2> QED BY <2>1 DEF tables, Scanning
<1> QED BY <1>1, <1>2, <1>3, <1>4, <1>5 DEF Next, Scan, Loop

\* The first of the children that were forked and still run waits for none.
LEMMA FirstMoves == PInv /\ Ordered => ChildrenGoOn
<1> SUFFICES ASSUME PInv, Ordered, Running # {},
                    \A p \in Running : ~Moves(p) /\ ~Clogged(p) /\ ~AtSocket(p)
             PROVE  FALSE
  BY DEF ChildrenGoOn
<1>1. PICK n \in Nat : \E rank \in [Pid -> 0 .. n] :
        \A r, w \in Running : Delays(w, r) => rank[w] < rank[r]
  BY DEF Ordered
<1>2. PICK rank \in [Pid -> 0 .. n] :
        \A r, w \in Running : Delays(w, r) => rank[w] < rank[r]
  BY <1>1
<1> DEFINE T == {rank[p] : p \in Running}
<1>3. T \in SUBSET Nat /\ T # {}
  BY <1>2 DEF Running
<1>4. PICK x \in T : \A y \in T : ~(y < x)
  <2> HIDE DEF T
  <2> QED BY <1>3, Least
<1>5. PICK p \in Running : rank[p] = x
  BY <1>4
<1>6. kid[p].left \in Nat
  BY DEF PInv, IInv, TypeOK, Running, Kid
<1>7. kid[p].left = 0
  BY <1>5, <1>6 DEF Moves, Clogged
<1>8. kid[p].in \in Pipe /\ HasWriter(kid[p].in)
  <2>1. kid[p].in \in Pipe \cup {Tty, Null}
    BY DEF PInv, IInv, TypeOK, Running, Kid, End
  <2> QED BY <1>5, <1>7, <2>1 DEF Moves, AtSocket
<1>9. kid[p].in \notin ServerOpen
  BY <1>8 DEF PInv, EofIsReachable
<1>10. PICK w \in Running : Delays(w, p)
  BY <1>8, <1>9 DEF HasWriter, Delays
<1>11. rank[w] < rank[p] /\ rank[w] \in T
  BY <1>2, <1>10
<1> QED BY <1>4, <1>5, <1>11

(* Whoever serves whom, the lowest descriptor that is ready is a user's,   *)
(* or it is sockfd and there is a number for whoever connects.             *)
LEMMA ScanGoesOn ==
  ASSUME PInv, Scanning, pc = "serve", ~inHandler
  PROVE  ServerGoesOn \/ HalfLine
<1>1. CASE Listen \in rfds
  BY <1>1 DEF Scanning, ServerGoesOn
<1>2. CASE Listen \notin rfds
  <2>1. rfds # {} /\ rfds \subseteq Fd /\ Fd \subseteq Nat /\ rfds \subseteq afds
    BY <1>2, ServerAssumption DEF Scanning, PInv, IInv, TypeOK, Registered
  <2>2. PICK f \in rfds : \A g \in rfds : ~(g < f)
    BY <2>1, Least
  <2>3. f \in AtHand
    BY <1>2, <2>1, <2>2 DEF AtHand, Lowest
  <2>4. fd_table[f] \in Id
    BY <2>1, <2>2 DEF PInv, IInv, TypeOK, Registered
  <2> QED BY <2>1, <2>3, <2>4 DEF ServerGoesOn, HalfLine
<1> QED BY <1>1, <1>2

LEMMA ScanInvariance == Spec => [](PInv /\ Ordered /\ Scanning)
<1>1. Init => PInv /\ Ordered /\ Scanning
  BY InitPipes, InitOrdered DEF Init, Scanning
<1>2. PInv /\ Ordered /\ Scanning /\ [Next]_vars => PInv' /\ Ordered' /\ Scanning'
  BY NextPipes, NextOrdered, NextScanning
<1> QED BY <1>1, <1>2, PTL DEF Spec

(* Whoever is online, whatever they type and whichever pipes their         *)
(* commands have copies of: as long as children run, one of them can read, *)
(* write or end, or is held up by a full pipe or its user's socket.        *)
THEOREM NoCircle == Spec => []ChildrenGoOn
<1>1. PInv /\ Ordered => ChildrenGoOn
  BY FirstMoves
<1> QED BY <1>1, ScanInvariance, PTL

(* The server is never left with nobody to go on before it is back at      *)
(* select, unless a user has typed half a line, or a command writes to a   *)
(* full pipe or reads its user's socket: no other line of a user and no    *)
(* logout between select and the scan stop the others.                     *)
THEOREM NoStandstill == ASSUME Pid # {} PROVE Spec => []NeverStuck
<1>1. ASSUME PInv, Ordered, Scanning PROVE NeverStuck
  <2>1. Running # {} \/ Zombies # {} \/ FreePids = Pid
    BY <1>1 DEF PInv, IInv, TypeOK, Kid, Running, Zombies, FreePids
  <2>2. CASE Running # {}
    BY <1>1, <2>2, FirstMoves DEF ChildrenGoOn, NeverStuck
  <2>3. CASE pc = "serve" /\ ~inHandler
    BY <1>1, <2>3, ScanGoesOn DEF NeverStuck
  <2>4. CASE Running = {} /\ (pc # "serve" \/ inHandler)
    <3>1. pc \in {"select", "serve", "loop", "wait"}
      BY <1>1 DEF PInv, IInv, TypeOK
    <3> QED BY <2>1, <2>4, <3>1 DEF NeverStuck, ServerGoesOn
  <2> QED BY <2>2, <2>3, <2>4
<1> QED BY <1>1, ScanInvariance, PTL
=============================================================================
