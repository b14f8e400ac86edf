--------------------------- MODULE RwgSingle_proofs ---------------------------
(***************************************************************************)
(* What holds of np_single_proc for every number of users, descriptors,    *)
(* names, variables, lines and children: the tables agree, names are       *)
(* unique, environments are their users' own, and Registry is implemented. *)
(***************************************************************************)
EXTENDS RwgSingle, TLAPS, FiniteSetTheorems, SequenceTheorems

\* A line is being run for a user who is online, in that user's environment.
Service ==
  pc \in {"loop", "wait"} =>
    /\ id \in DOMAIN clients /\ line \in Lines
    /\ environ = clients[id].own
    /\ pc = "loop" => i \in 1 .. Len(line.cmds)

\* A user's environment map is what that user has set.
OwnEnvs == \A n \in DOMAIN clients : clients[n].envs = clients[n].own

\* An ordinary pipe is open only between the forks of its two commands.
InPipeline == pc = "loop" /\ Sh!FromOrd
Queues ==
  \A n \in DOMAIN clients :
    IF InPipeline /\ n = id THEN \E q \in Pipe : clients[n].ordinary_pipes = <<q>>
    ELSE clients[n].ordinary_pipes = <<>>

IInv == TypeOK /\ Registered /\ NamesUnique /\ Service /\ OwnEnvs /\ Queues /\ EnvIsOwn

-----------------------------------------------------------------------------
(* Lines and their parts.                                                  *)

Meds == [k : {"ord", "num", "both", "file", "none"}, n : Nat]

LEMMA MedType ==
  ASSUME NEW l \in Lines, NEW j \in Nat
  PROVE  Sh!MedOf(l, j) \in Meds
<1>1. CASE j \in 1 .. Len(l.meds)
  <2>1. l.meds \in Seq(Sh!Med)
    BY ServerAssumption
  <2>2. l.meds[j] \in Sh!Med
    BY <1>1, <2>1
  <2> QED BY <1>1, <2>2 DEF Sh!MedOf, Sh!Med, Meds
<1>2. CASE j \notin 1 .. Len(l.meds)
  BY <1>2 DEF Sh!MedOf, Sh!NoMed, Meds
<1> QED BY <1>1, <1>2

LEMMA CountedType ==
  ASSUME NEW l, NEW j \in Nat
  PROVE  Sh!Counted(l, j) \in Nat
<1> DEFINE H == {h \in 1 .. (j - 1) : Sh!IsNum(Sh!MedOf(l, h))}
<1>1. IsFiniteSet(1 .. (j - 1))
  BY FS_Interval
<1>2. IsFiniteSet(H)
  BY <1>1, FS_Subset
<1>3. Cardinality(H) \in Nat
  BY <1>2, FS_CardinalityType
<1> QED BY <1>3 DEF Sh!Counted, Sh!Cardinality, Cardinality

\* An ordinary pipe is followed by another command of the line.
LEMMA OrdHasNext ==
  ASSUME NEW l \in Lines, NEW j \in 1 .. Len(l.cmds), Sh!MedOf(l, j).k = "ord"
  PROVE  j + 1 \in 1 .. Len(l.cmds) /\ j \in 1 .. Len(l.meds)
<1>1. j \in 1 .. Len(l.meds)
  BY DEF Sh!MedOf, Sh!NoMed
<1>2. l.meds[j].k = "ord"
  BY <1>1 DEF Sh!MedOf
<1>3. Len(l.cmds) \in Nat /\ Len(l.meds) \in Nat
  BY ServerAssumption
<1>4. j # Len(l.cmds)
  BY <1>1, <1>2, ServerAssumption DEF Sh!IsNum
<1> QED BY <1>1, <1>3, <1>4

\* A command that writes a user pipe has no medium.
LEMMA SendsLast ==
  ASSUME NEW l \in Lines, NEW j \in 1 .. Len(l.cmds), l.ups[j].to # 0
  PROVE  j = Len(l.cmds) /\ Sh!MedOf(l, j) = Sh!NoMed
  BY ServerAssumption DEF Sh!MedOf

LEMMA GoneType == \A s \in {"free", "run", "zombie"} : Gone(s) \in Kid
  BY ServerAssumption DEF Gone, Kid, End, Tty, NoTag, Tag

LEMMA InitInv == Init => IInv
<1> SUFFICES ASSUME Init PROVE IInv
  OBVIOUS
<1>1. TypeOK
  <2>1. clients = [n \in {} |-> 0] /\ DOMAIN clients = {}
    BY DEF Init, NoClients
  <2>2. fd_table \in [DOMAIN fd_table -> Id]
    BY DEF Init, NoClients
  <2>3. kid \in [Pid -> Kid] /\ buf \in [Pipe -> 0 .. Cap] /\ meant \in [Pipe -> Tag]
    BY GoneType, ServerAssumption DEF Init, Tag, NoTag
  <2>4. DOMAIN clients \subseteq Id /\ \A n \in DOMAIN clients : IsClient(clients[n])
    BY <2>1
  <2>5. /\ nfds \in Nat /\ tickets \in [Id -> Nat] /\ environ \in Env /\ i \in Nat
        /\ sessions \in Nat /\ typed \in Nat
    BY ServerAssumption DEF Init, Listen
  <2>6. /\ pc = "select" /\ rfds = {} /\ halves = {} /\ afds = {} /\ id = 0 /\ line = Sh!NoLine
        /\ lastWaitChild = 0 /\ sigchld = FALSE /\ inHandler = FALSE /\ leaked = {}
    BY DEF Init
  <2> QED BY <2>2, <2>3, <2>4, <2>5, <2>6 DEF TypeOK
<1>2. DOMAIN clients = {} /\ DOMAIN fd_table = {}
  BY DEF Init, NoClients
<1>3. Running = {}
  BY DEF Init, Running, Gone
<1> QED BY <1>1, <1>2, <1>3
        DEF Init, IInv, Registered, NamesUnique, Service, OwnEnvs, Queues, EnvIsOwn

-----------------------------------------------------------------------------
(* Steps of the kernel leave all of the server's tables alone.             *)

LEMMA KernelStep ==
  ASSUME IInv, UNCHANGED unmoved,
         kid' \in [Pid -> Kid], buf' \in [Pipe -> 0 .. Cap],
         sigchld' \in BOOLEAN, inHandler' \in BOOLEAN,
         \A p \in Pid : \/ kid'[p].st # "run"
                        \/ kid[p].st = "run" /\ kid'[p].env = kid[p].env /\ kid'[p].own = kid[p].own
  PROVE  IInv'
<1> USE DEF unmoved, tables, service
<1>1. TypeOK'
  BY DEF IInv, TypeOK
<1>2. Registered' /\ NamesUnique'
  BY DEF IInv, Registered, NamesUnique
<1>3. Service' /\ OwnEnvs'
  BY DEF IInv, Service, OwnEnvs
<1>4. Sh!FromOrd' = Sh!FromOrd
  BY DEF Sh!FromOrd, Sh!M
<1>5. Queues'
  BY <1>4 DEF IInv, Queues, InPipeline
<1>6. EnvIsOwn'
  BY DEF IInv, EnvIsOwn, Running
<1> QED BY <1>1, <1>2, <1>3, <1>5, <1>6 DEF IInv

LEMMA KidInv ==
  ASSUME IInv, NEW p \in Pid, KidStep(p)
  PROVE  IInv'
<1> USE DEF IInv, TypeOK
<1>0. kid[p] \in Kid /\ Pipe \subseteq Nat
  BY ServerAssumption
<1>1. CASE KidRead(p)
  <2>1. kid' \in [Pid -> Kid]
    <3>1. [kid[p] EXCEPT !.left = 1] \in Kid
      BY <1>0 DEF Kid
    <3> QED BY <1>1, <3>1 DEF KidRead
  <2>2. buf' \in [Pipe -> 0 .. Cap]
    BY <1>1, ServerAssumption DEF KidRead
  <2>3. kid'[p].env = kid[p].env /\ kid'[p].own = kid[p].own /\ kid[p].st = "run"
    BY <1>0, <1>1 DEF KidRead, Kid
  <2> QED BY <1>1, <2>1, <2>2, <2>3, KernelStep DEF KidRead, signals
<1>2. CASE KidWrite(p)
  <2>1. kid' \in [Pid -> Kid]
    <3>1. [kid[p] EXCEPT !.left = @ - 1] \in Kid
      BY <1>0, <1>2 DEF Kid, KidWrite
    <3> QED BY <1>2, <3>1 DEF KidWrite
  <2>2. buf' \in [Pipe -> 0 .. Cap]
    BY <1>2, ServerAssumption DEF KidWrite
  <2>3. kid'[p].env = kid[p].env /\ kid'[p].own = kid[p].own /\ kid[p].st = "run"
    BY <1>0, <1>2 DEF KidWrite, Kid
  <2> QED BY <1>2, <2>1, <2>2, <2>3, KernelStep DEF KidWrite, signals
<1>3. CASE KidExit(p)
  <2>1. kid' \in [Pid -> Kid] /\ kid'[p].st = "zombie"
    BY <1>3, GoneType DEF KidExit, Gone
  <2> QED BY <1>3, <2>1, KernelStep DEF KidExit
<1> QED BY <1>1, <1>2, <1>3 DEF KidStep

LEMMA ReapInv ==
  ASSUME IInv, NEW p \in Pid, Reap(p)
  PROVE  /\ kid' \in [Pid -> Kid]
         /\ \A r \in Pid : kid'[r].st # "run" \/ kid'[r] = kid[r]
<1>1. Gone("free") \in Kid /\ Gone("free").st = "free"
  BY GoneType DEF Gone
<1> QED BY <1>1 DEF Reap, IInv, TypeOK

LEMMA HandlerInv ==
  ASSUME IInv, Handler
  PROVE  IInv'
<1>1. CASE HandlerEnter
  BY <1>1, KernelStep DEF HandlerEnter, IInv, TypeOK
<1>2. CASE HandlerReap
  <2>1. /\ kid' \in [Pid -> Kid]
        /\ \A r \in Pid : kid'[r].st # "run" \/ kid'[r] = kid[r]
    <3>1. CASE \E p \in Zombies : Reap(p)
      BY <3>1, ReapInv DEF Zombies
    <3>2. CASE kid' = kid
      BY <3>2 DEF IInv, TypeOK
    <3> QED BY <1>2, <3>1, <3>2 DEF HandlerReap
  <2> QED BY <1>2, <2>1, KernelStep DEF HandlerReap, IInv, TypeOK
<1> QED BY <1>1, <1>2 DEF Handler

LEMMA RetryInv ==
  ASSUME IInv, ForkRetry
  PROVE  IInv'
<1>1. /\ kid' \in [Pid -> Kid]
      /\ \A r \in Pid : kid'[r].st # "run" \/ kid'[r] = kid[r]
  BY ReapInv DEF ForkRetry, Zombies
<1> QED BY <1>1, KernelStep DEF ForkRetry, IInv, TypeOK, signals

-----------------------------------------------------------------------------
(* The scan of the ready descriptors.                                      *)

\* The fields of a client_info that counting a line, naming and setting touch.
Client(P, R) == [name : Name \cup {NoName}, fd : Fd, lineIdx : Nat, pipes : P,
                 ordinary_pipes : Seq(Pipe), recvMessages : R, envs : Env,
                 session : Nat, base : Nat, own : Env]

LEMMA ClientFields ==
  ASSUME NEW c, IsClient(c)
  PROVE  /\ c \in Client([DOMAIN c.pipes -> Pipe], [DOMAIN c.recvMessages -> Pipe])
         /\ DOMAIN c.pipes \subseteq Nat /\ DOMAIN c.recvMessages \subseteq Id
  BY DEF IsClient, Client

LEMMA CountedClient ==
  ASSUME NEW c, IsClient(c)
  PROVE  /\ IsClient(Counted(c))
         /\ Counted(c).name = c.name /\ Counted(c).fd = c.fd /\ Counted(c).own = c.own
         /\ Counted(c).envs = c.envs /\ Counted(c).ordinary_pipes = c.ordinary_pipes
<1> DEFINE d == Counted(c)
<1>1. c \in Client([DOMAIN c.pipes -> Pipe], [DOMAIN c.recvMessages -> Pipe])
  BY ClientFields
<1>2. d \in Client([DOMAIN c.pipes -> Pipe], [DOMAIN c.recvMessages -> Pipe])
  <2>1. c.lineIdx + 1 \in Nat /\ c.base + 1 \in Nat
    BY <1>1 DEF Client
  <2>2. d = [[c EXCEPT !.lineIdx = c.lineIdx + 1] EXCEPT !.base = c.base + 1]
    BY <1>1 DEF Counted, Client
  <2> HIDE DEF d
  <2> QED BY <1>1, <2>1, <2>2 DEF Client
<1>3. /\ d.pipes = c.pipes /\ d.recvMessages = c.recvMessages /\ d.name = c.name /\ d.fd = c.fd
      /\ d.own = c.own /\ d.envs = c.envs /\ d.ordinary_pipes = c.ordinary_pipes
  BY <1>1 DEF Counted, Client
<1>4. IsClient(d)
  <2> HIDE DEF d
  <2> QED BY <1>2, <1>3, ClientFields DEF IsClient, Client
<1> QED BY <1>3, <1>4

LEMMA NamedClient ==
  ASSUME NEW c, IsClient(c), NEW nm \in Name
  PROVE  /\ IsClient(Named(c, nm)) /\ Named(c, nm).name = nm /\ Named(c, nm).fd = c.fd /\ Named(c, nm).own = c.own
             /\ Named(c, nm).envs = c.envs /\ Named(c, nm).ordinary_pipes = c.ordinary_pipes
<1> DEFINE d == Named(c, nm)
<1>1. c \in Client([DOMAIN c.pipes -> Pipe], [DOMAIN c.recvMessages -> Pipe])
  BY ClientFields
<1>2. d \in Client([DOMAIN c.pipes -> Pipe], [DOMAIN c.recvMessages -> Pipe])
  BY <1>1 DEF Client, Named
<1>3. /\ d.pipes = c.pipes /\ d.recvMessages = c.recvMessages /\ d.name = nm /\ d.fd = c.fd
      /\ d.own = c.own /\ d.envs = c.envs /\ d.ordinary_pipes = c.ordinary_pipes
  BY <1>1 DEF Client, Named
<1>4. IsClient(d)
  <2> HIDE DEF d
  <2> QED BY <1>2, <1>3, ClientFields DEF IsClient, Client
<1> QED BY <1>3, <1>4

LEMMA StoredClient ==
  ASSUME NEW c, IsClient(c), NEW v \in Var, NEW x \in Val, c.envs = c.own
  PROVE  /\ IsClient(Store(c, v, x)) /\ Store(c, v, x).name = c.name /\ Store(c, v, x).fd = c.fd /\ Store(c, v, x).own = Store(c, v, x).envs
             /\ Store(c, v, x).ordinary_pipes = c.ordinary_pipes
<1> DEFINE d == Store(c, v, x)
<1>1. c \in Client([DOMAIN c.pipes -> Pipe], [DOMAIN c.recvMessages -> Pipe])
  BY ClientFields
<1>2. d \in Client([DOMAIN c.pipes -> Pipe], [DOMAIN c.recvMessages -> Pipe])
  BY <1>1 DEF Client, Store, Env
<1>3. /\ d.pipes = c.pipes /\ d.recvMessages = c.recvMessages /\ d.name = c.name /\ d.fd = c.fd
      /\ d.own = d.envs /\ d.ordinary_pipes = c.ordinary_pipes
  BY <1>1 DEF Client, Store
<1>4. IsClient(d)
  <2> HIDE DEF d
  <2> QED BY <1>2, <1>3, ClientFields DEF IsClient, Client
<1> QED BY <1>3, <1>4

\* A built-in changes at most one user's entry, and that one's name only to a new one.
LEMMA UserStep ==
  ASSUME IInv, NEW n \in DOMAIN clients, NEW c, pc = "serve",
         pc' \in {"select", "serve"}, rfds' \subseteq rfds, environ' \in Env, typed' \in Nat,
         DOMAIN clients' = DOMAIN clients, IsClient(c),
         \A m \in DOMAIN clients : clients'[m] = IF m = n THEN c ELSE clients[m],
         c.fd = clients[n].fd, c.envs = c.own, c.ordinary_pipes = clients[n].ordinary_pipes,
         c.name = clients[n].name \/ ~collision(c.name),
         UNCHANGED <<tables, halves, id, line, i, lastWaitChild, signals, kid, buf, leaked, meant>>
  PROVE  IInv'
<1> USE DEF tables, signals
<1>1. TypeOK'
  <2>1. DOMAIN clients' \subseteq Id /\ \A m \in DOMAIN clients' : IsClient(clients'[m])
    BY DEF IInv, TypeOK
  <2> QED BY <2>1 DEF IInv, TypeOK
<1>2. Registered'
  BY DEF IInv, Registered
<1>3. NamesUnique'
  BY DEF IInv, NamesUnique, collision
<1>4. Service' /\ OwnEnvs'
  BY DEF IInv, Service, OwnEnvs
<1>5. Queues'
  BY DEF IInv, Queues, InPipeline
<1>6. EnvIsOwn'
  BY DEF IInv, EnvIsOwn, Running
<1> QED BY <1>1, <1>2, <1>3, <1>4, <1>5, <1>6 DEF IInv

LEMMA SelectInv ==
  ASSUME IInv, Select
  PROVE  IInv'
<1> USE DEF tables, signals
<1>1. rfds' \subseteq afds \cup {Listen} /\ pc' = "serve" /\ pc = "select"
  BY DEF Select
<1>2. TypeOK'
  <2>1. halves' \subseteq Fd
    BY <1>1 DEF Select, IInv, TypeOK
  <2> QED BY <1>1, <2>1 DEF Select, IInv, TypeOK
<1>3. Registered' /\ NamesUnique' /\ OwnEnvs' /\ EnvIsOwn'
  BY <1>1 DEF Select, IInv, Registered, NamesUnique, OwnEnvs, EnvIsOwn, Running
<1>4. Service' /\ Queues'
  BY <1>1 DEF Select, IInv, Service, Queues, InPipeline
<1> QED BY <1>2, <1>3, <1>4 DEF IInv

LEMMA EndLineInv ==
  ASSUME IInv, EndLine
  PROVE  IInv'
<1> USE DEF tables, signals
<1>1. TypeOK'
  BY DEF EndLine, IInv, TypeOK
<1>2. Registered' /\ NamesUnique' /\ OwnEnvs' /\ EnvIsOwn'
  BY DEF EndLine, IInv, Registered, NamesUnique, OwnEnvs, EnvIsOwn, Running
<1>3. Service' /\ Queues'
  BY DEF EndLine, IInv, Service, Queues, InPipeline, Sh!FromOrd, Sh!M
<1> QED BY <1>1, <1>2, <1>3 DEF IInv

\* The descriptor at hand is a user's connection.
LEMMA AtHandOnline ==
  ASSUME IInv, NEW f \in AtHand
  PROVE  /\ f \in afds /\ f \in rfds /\ fd_table[f] \in DOMAIN clients
         /\ clients[fd_table[f]].fd = f
  BY DEF IInv, Registered, AtHand, Lowest

LEMMA ScannedSub ==
  ASSUME NEW f, Scanned(f)
  PROVE  rfds' \subseteq rfds /\ pc' \in {"select", "serve"}
  BY DEF Scanned

LEMMA BuiltinInv ==
  ASSUME IInv, NEW f \in Fd, NEW n \in Id,
         Blank(f, n) \/ Inform(f, n) \/ setenv(f, n) \/ rename(f, n)
  PROVE  IInv'
<1>0. /\ n \in DOMAIN clients /\ IsClient(clients[n]) /\ clients[n].envs = clients[n].own
      /\ pc = "serve" /\ rfds' \subseteq rfds /\ pc' \in {"select", "serve"} /\ typed' \in Nat
      /\ halves' = halves
  <2>1. Serve(f, n) /\ Scanned(f)
    BY DEF Blank, Inform, setenv, rename, Builtin
  <2> QED BY <2>1, AtHandOnline, ScannedSub DEF Serve, IInv, TypeOK, OwnEnvs
<1>1. clients[n].envs \in Env /\ IsFiniteSet(Fd)
  BY <1>0, ClientFields, ServerAssumption DEF Client
<1>2. CASE Blank(f, n)
  <2> DEFINE c == clients[n]
  <2>1. /\ clients' = clients /\ environ' = c.envs
        /\ UNCHANGED <<tables, id, line, i, lastWaitChild, signals, kid, buf, leaked, meant>>
    BY <1>2 DEF Blank, clearenv
  <2>2. \A m \in DOMAIN clients : clients'[m] = IF m = n THEN c ELSE clients[m]
    BY <2>1
  <2> HIDE DEF c
  <2> QED BY <1>0, <1>1, <2>1, <2>2, UserStep DEF c
<1>3. CASE Inform(f, n)
  <2>1. clients' = [clients EXCEPT ![n] = Counted(clients[n])] /\ environ' = clients[n].envs
    BY <1>3 DEF Inform, clearenv
  <2> QED BY <1>0, <1>1, <1>3, <2>1, CountedClient, UserStep DEF Inform, Builtin
<1>4. CASE setenv(f, n)
  <2>1. PICK v \in Var, x \in Val :
          /\ environ' = [clients[n].envs EXCEPT ![v] = x]
          /\ clients' = [clients EXCEPT ![n] = Counted(Store(clients[n], v, x))]
    BY <1>4 DEF setenv, clearenv
  <2> DEFINE d == Store(clients[n], v, x)
  <2>2. /\ IsClient(d) /\ d.name = clients[n].name /\ d.fd = clients[n].fd /\ d.own = d.envs
        /\ d.ordinary_pipes = clients[n].ordinary_pipes
    BY <1>0, StoredClient
  <2>3. environ' \in Env
    BY <1>1, <2>1 DEF Env
  <2>4. clients' = [clients EXCEPT ![n] = Counted(d)]
    BY <2>1
  <2>5. UNCHANGED <<tables, id, line, i, lastWaitChild, signals, kid, buf, leaked, meant>>
    BY <1>4 DEF setenv, Builtin
  <2> HIDE DEF d
  <2> QED BY <1>0, <2>2, <2>3, <2>4, <2>5, CountedClient, UserStep
<1>5. CASE rename(f, n)
  <2>1. PICK nm \in Name :
          /\ environ' = clients[n].envs
          /\ clients' = [clients EXCEPT ![n] =
                Counted(IF collision(nm) THEN clients[n] ELSE Named(clients[n], nm))]
    BY <1>5 DEF rename, clearenv
  <2> DEFINE d == IF collision(nm) THEN clients[n] ELSE Named(clients[n], nm)
  <2>2. /\ IsClient(d) /\ d.fd = clients[n].fd /\ d.own = d.envs
        /\ d.ordinary_pipes = clients[n].ordinary_pipes
        /\ d.name = clients[n].name \/ ~collision(d.name)
    BY <1>0, NamedClient
  <2>3. clients' = [clients EXCEPT ![n] = Counted(d)]
    BY <2>1
  <2> HIDE DEF d
  <2> QED BY <1>0, <1>1, <1>5, <2>1, <2>2, <2>3, CountedClient, UserStep DEF rename, Builtin
<1> QED BY <1>2, <1>3, <1>4, <1>5

LEMMA DropFun ==
  ASSUME NEW g, NEW k
  PROVE  /\ DOMAIN Drop(g, k) = DOMAIN g \ {k}
         /\ \A x \in DOMAIN g \ {k} : Drop(g, k)[x] = g[x]
  BY DEF Drop

LEMMA NewClientType ==
  ASSUME IInv, NEW f \in Fd
  PROVE  LET c == NewClient(f)
         IN  /\ IsClient(c) /\ c.fd = f /\ c.name = NoName /\ c.envs = c.own
             /\ c.ordinary_pipes = <<>>
<1> DEFINE c == NewClient(f)
<1>1. /\ c.fd = f /\ c.name = NoName /\ c.envs = c.own /\ c.ordinary_pipes = <<>>
      /\ DOMAIN c.pipes = {} /\ DOMAIN c.recvMessages = {}
  BY DEF NewClient, NoClients
<1>2. c.pipes \in [DOMAIN c.pipes -> Pipe] /\ c.recvMessages \in [DOMAIN c.recvMessages -> Pipe]
  BY DEF NewClient, NoClients
<1>3. <<>> \in Seq(Pipe) /\ sessions + 1 \in Nat /\ InitEnv \in Env
  BY EmptySeq, ServerAssumption DEF IInv, TypeOK
<1>4. IsClient(c)
  BY <1>1, <1>2, <1>3 DEF IsClient, NewClient
<1> QED BY <1>1, <1>4

LEMMA AcceptInv ==
  ASSUME IInv, Accept
  PROVE  IInv'
<1> USE DEF signals
<1>1. PICK n \in drawTicket, f \in Fd \ afds :
        /\ tickets' = [tickets EXCEPT ![n] = @ - 1]
        /\ clients' = Put(clients, n, NewClient(f))
        /\ fd_table' = Put(fd_table, f, n)
        /\ afds' = afds \cup {f}
        /\ nfds' = IF f + 1 > nfds THEN f + 1 ELSE nfds
  BY DEF Accept
<1>2. /\ pc = "serve" /\ pc' \in {"select", "serve"} /\ rfds' \subseteq rfds
      /\ sessions' = sessions + 1
      /\ UNCHANGED <<halves, id, line, i, lastWaitChild, environ, signals, kid, buf, leaked,
                     typed, meant>>
  BY ScannedSub DEF Accept
<1>3. n \in Id /\ tickets[n] = 1 /\ n \notin DOMAIN clients /\ f \in Nat /\ nfds \in Nat
  BY ServerAssumption DEF drawTicket, Lowest, IInv, Registered, TypeOK
<1> DEFINE c == NewClient(f)
<1>4. /\ IsClient(c) /\ c.fd = f /\ c.name = NoName /\ c.envs = c.own
      /\ c.ordinary_pipes = <<>>
  BY NewClientType
<1>5. /\ DOMAIN clients' = DOMAIN clients \cup {n}
      /\ \A m \in DOMAIN clients' : clients'[m] = IF m = n THEN c ELSE clients[m]
  BY <1>1 DEF Put
<1>6. /\ DOMAIN fd_table' = DOMAIN fd_table \cup {f}
      /\ \A g \in DOMAIN fd_table' : fd_table'[g] = IF g = f THEN n ELSE fd_table[g]
  BY <1>1 DEF Put
<1> HIDE DEF c
<1>7. TypeOK'
  <2>1. tickets' \in [Id -> Nat] /\ nfds' \in Nat /\ afds' \subseteq Fd /\ sessions' \in Nat
    BY <1>1, <1>2, <1>3 DEF IInv, TypeOK
  <2>2. fd_table' \in [DOMAIN fd_table' -> Id]
    BY <1>1, <1>3, <1>6 DEF IInv, TypeOK, Put
  <2>3. DOMAIN clients' \subseteq Id /\ \A m \in DOMAIN clients' : IsClient(clients'[m])
    BY <1>3, <1>4, <1>5 DEF IInv, TypeOK
  <2> QED BY <1>2, <2>1, <2>2, <2>3 DEF IInv, TypeOK
<1>8. Registered'
  <2>1. \A m \in Id : tickets'[m] = IF m \in DOMAIN clients' THEN 0 ELSE 1
    BY <1>1, <1>3, <1>5 DEF IInv, Registered, TypeOK
  <2>2. afds' = DOMAIN fd_table'
    BY <1>1, <1>6 DEF IInv, Registered
  <2>3. \A g \in afds' : g < nfds' /\ fd_table'[g] \in DOMAIN clients'
    <3>1. TAKE g \in afds'
    <3>2. CASE g = f
      BY <1>1, <1>3, <1>5, <1>6, <2>2, <3>2
    <3>3. CASE g # f
      <4>1. g \in afds /\ g \in Nat /\ g < nfds /\ fd_table[g] \in DOMAIN clients
        BY <1>1, <3>3, ServerAssumption DEF IInv, Registered, TypeOK
      <4> QED BY <1>1, <1>3, <1>5, <1>6, <2>2, <3>3, <4>1
    <3> QED BY <3>2, <3>3
  <2>4. \A m \in DOMAIN clients' : clients'[m].fd \in afds' /\ fd_table'[clients'[m].fd] = m
    BY <1>1, <1>3, <1>4, <1>5, <1>6 DEF IInv, Registered
  <2>5. \A g \in afds' : clients'[fd_table'[g]].fd = g
    BY <1>1, <1>3, <1>4, <1>5, <1>6 DEF IInv, Registered
  <2>6. rfds' \subseteq afds' \cup {Listen}
    BY <1>1, <1>2 DEF IInv, Registered
  <2> QED BY <2>1, <2>2, <2>3, <2>4, <2>5, <2>6 DEF Registered
<1>9. NamesUnique' /\ OwnEnvs'
  BY <1>4, <1>5 DEF IInv, NamesUnique, OwnEnvs
<1>10. Service' /\ Queues' /\ EnvIsOwn'
  BY <1>2, <1>4, <1>5 DEF IInv, Service, Queues, InPipeline, EnvIsOwn, Running
<1> QED BY <1>7, <1>8, <1>9, <1>10 DEF IInv

LEMMA OwnPipesType ==
  ASSUME IInv, NEW n \in DOMAIN clients
  PROVE  OwnPipes(n) \subseteq Pipe
<1>1. IsClient(clients[n])
  BY DEF IInv, TypeOK
<1>2. clients[n].ordinary_pipes \in Seq(Pipe)
  BY <1>1, ClientFields DEF Client
<1> QED BY <1>1, <1>2, ClientFields DEF Client, OwnPipes, Ran

LEMMA LogoutInv ==
  ASSUME IInv, NEW f \in Fd, NEW n \in Id, logout(f, n)
  PROVE  IInv'
<1> USE DEF signals
<1>1. /\ f \in afds /\ f \in rfds /\ n \in DOMAIN clients /\ clients[n].fd = f /\ fd_table[f] = n
      /\ pc = "serve" /\ f # Listen
  BY AtHandOnline, ServerAssumption DEF logout, Serve
<1>2. /\ pc' \in {"select", "serve"} /\ rfds' = rfds \ {f} /\ typed' \in Nat
      /\ environ' = clients[n].envs
      /\ clients' = Drop(clients, n) /\ fd_table' = Drop(fd_table, f)
      /\ tickets' = [tickets EXCEPT ![n] = @ + 1] /\ afds' = afds \ {f}
      /\ leaked' = leaked \cup OwnPipes(n)
      /\ UNCHANGED <<nfds, sessions, halves, id, line, i, lastWaitChild, signals, kid, buf, meant>>
  BY DEF logout, Serve, Scanned, returnTicket, FD_CLR, clearenv, IInv, TypeOK
<1>3. /\ DOMAIN clients' = DOMAIN clients \ {n}
      /\ \A m \in DOMAIN clients' : clients'[m] = clients[m]
  BY <1>2, DropFun
<1>4. /\ DOMAIN fd_table' = DOMAIN fd_table \ {f}
      /\ \A g \in DOMAIN fd_table' : fd_table'[g] = fd_table[g]
  BY <1>2, DropFun
<1>5. TypeOK'
  <2>1. tickets' \in [Id -> Nat] /\ afds' \subseteq Fd /\ rfds' \subseteq Fd \cup {Listen}
    BY <1>2 DEF IInv, TypeOK
  <2>2. fd_table' \in [DOMAIN fd_table' -> Id]
    BY <1>2, <1>4 DEF IInv, TypeOK, Drop
  <2>3. DOMAIN clients' \subseteq Id /\ \A m \in DOMAIN clients' : IsClient(clients'[m])
    BY <1>3 DEF IInv, TypeOK
  <2>4. leaked' \subseteq Pipe
    BY <1>1, <1>2, OwnPipesType DEF IInv, TypeOK
  <2>5. environ' \in Env
    BY <1>1, <1>2, ClientFields DEF IInv, TypeOK, Client
  <2> QED BY <1>2, <2>1, <2>2, <2>3, <2>4, <2>5 DEF IInv, TypeOK
<1>6. Registered'
  <2>1. \A m \in Id : tickets'[m] = IF m \in DOMAIN clients' THEN 0 ELSE 1
    BY <1>1, <1>2, <1>3 DEF IInv, Registered, TypeOK
  <2>2. afds' = DOMAIN fd_table'
    BY <1>2, <1>4 DEF IInv, Registered
  <2>3. \A g \in afds' : g < nfds' /\ fd_table'[g] \in DOMAIN clients'
    BY <1>1, <1>2, <1>3, <1>4, <2>2 DEF IInv, Registered
  <2>4. \A m \in DOMAIN clients' : clients'[m].fd \in afds' /\ fd_table'[clients'[m].fd] = m
    BY <1>1, <1>2, <1>3, <1>4 DEF IInv, Registered
  <2>5. \A g \in afds' : clients'[fd_table'[g]].fd = g
    BY <1>1, <1>2, <1>3, <1>4, <2>2, <2>3 DEF IInv, Registered
  <2>6. rfds' \subseteq afds' \cup {Listen}
    BY <1>2 DEF IInv, Registered
  <2> QED BY <2>1, <2>2, <2>3, <2>4, <2>5, <2>6 DEF Registered
<1>7. NamesUnique' /\ OwnEnvs'
  BY <1>3 DEF IInv, NamesUnique, OwnEnvs
<1>8. Service' /\ Queues' /\ EnvIsOwn'
  BY <1>1, <1>2, <1>3 DEF IInv, Service, Queues, InPipeline, EnvIsOwn, Running
<1> QED BY <1>5, <1>6, <1>7, <1>8 DEF IInv

LEMMA CommandInv ==
  ASSUME IInv, NEW f \in Fd, NEW n \in Id, Command(f, n)
  PROVE  IInv'
<1> USE DEF tables, signals
<1>1. n \in DOMAIN clients /\ pc = "serve"
  BY AtHandOnline DEF Command, Serve
<1>2. /\ pc' = "loop" /\ id' = n /\ i' = 1 /\ line' \in Lines /\ rfds' \subseteq rfds
      /\ environ' = clients[n].envs /\ lastWaitChild' = 0 /\ typed' \in Nat
      /\ UNCHANGED <<tables, halves, signals, clients, kid, buf, leaked, meant>>
  BY DEF Command, Serve, clearenv, IInv, TypeOK
<1>3. environ' \in Env
  BY <1>1, <1>2, ClientFields DEF IInv, TypeOK, Client
<1>4. TypeOK'
  BY <1>1, <1>2, <1>3 DEF IInv, TypeOK
<1>5. Registered' /\ NamesUnique' /\ OwnEnvs' /\ EnvIsOwn'
  BY <1>2 DEF IInv, Registered, NamesUnique, OwnEnvs, EnvIsOwn, Running
<1>6. 1 \in 1 .. Len(line'.cmds)
  BY <1>2, ServerAssumption
<1>7. Service'
  BY <1>1, <1>2, <1>6 DEF IInv, OwnEnvs, Service
<1>8. ~InPipeline /\ ~InPipeline'
  BY <1>1, <1>2 DEF InPipeline, Sh!FromOrd
<1>9. Queues'
  BY <1>2, <1>8 DEF IInv, Queues
<1> QED BY <1>4, <1>5, <1>7, <1>9 DEF IInv

-----------------------------------------------------------------------------
(* The loop over the commands of a line.                                   *)

LEMMA LoopFacts ==
  ASSUME IInv, pc = "loop"
  PROVE  /\ id \in DOMAIN clients /\ IsClient(clients[id]) /\ line \in Lines
         /\ i \in 1 .. Len(line.cmds) /\ i \in Nat /\ Sh!M(i) \in Meds
         /\ line.cmds[i] \in Prog /\ From \in Nat /\ To \in Nat
         /\ Sh!FromOrd => \E r \in Pipe : clients[id].ordinary_pipes = <<r>>
         /\ ~Sh!FromOrd => clients[id].ordinary_pipes = <<>>
<1>1. id \in DOMAIN clients /\ IsClient(clients[id]) /\ line \in Lines /\ i \in 1 .. Len(line.cmds)
  BY DEF IInv, Service, TypeOK
<1>2. line.cmds \in Seq(Prog) /\ line.ups \in Seq([from : Nat, to : Nat]) /\ Len(line.ups) = Len(line.cmds)
  BY <1>1, ServerAssumption
<1>3. line.cmds[i] \in Prog /\ line.ups[i] \in [from : Nat, to : Nat] /\ i \in Nat
  <2>1. line.cmds[i] \in Prog
    BY <1>1, <1>2, ElementOfSeq
  <2>2. i \in 1 .. Len(line.ups)
    BY <1>1, <1>2
  <2>3. line.ups[i] \in [from : Nat, to : Nat]
    BY <1>2, <2>2, ElementOfSeq
  <2> QED BY <1>1, <2>1, <2>3
<1>4. Sh!M(i) \in Meds
  BY <1>1, <1>3, MedType DEF Sh!M
<1>5. /\ Sh!FromOrd => \E r \in Pipe : clients[id].ordinary_pipes = <<r>>
      /\ ~Sh!FromOrd => clients[id].ordinary_pipes = <<>>
  BY <1>1 DEF IInv, Queues, InPipeline
<1> QED BY <1>1, <1>3, <1>4, <1>5 DEF From, To

LEMMA FreshType ==
  ASSUME NEW q \in Fresh
  PROVE  /\ Sends \/ Sh!NeedsPipe => q \in Pipe
         /\ ~(Sends \/ Sh!NeedsPipe) => q = Tty
  BY DEF Fresh, Lowest, FreePipes

LEMMA MadeType ==
  ASSUME IInv, pc = "loop", NEW q \in Fresh
  PROVE  /\ DOMAIN Sh!Made(q) \subseteq Nat
         /\ Sh!Made(q) \in [DOMAIN Sh!Made(q) -> Pipe]
         /\ Sh!IsNum(Sh!M(i)) => clients[id].lineIdx + Sh!M(i).n \in DOMAIN Sh!Made(q)
<1> DEFINE c == clients[id]
           k == c.lineIdx + Sh!M(i).n
<1>1. /\ c.pipes \in [DOMAIN c.pipes -> Pipe] /\ DOMAIN c.pipes \subseteq Nat
      /\ c.lineIdx \in Nat /\ Sh!M(i) \in Meds
  BY LoopFacts, ClientFields DEF Client
<1>2. k \in Nat
  BY <1>1 DEF Meds
<1>3. CASE Sh!NeedsPipe /\ Sh!IsNum(Sh!M(i))
  <2>1. q \in Pipe
    BY <1>3, FreshType
  <2>2. Sh!Made(q) = [x \in DOMAIN c.pipes \cup {k} |-> IF x = k THEN q ELSE c.pipes[x]]
    BY <1>3 DEF Sh!Made, Sh!Put
  <2> HIDE DEF c, k
  <2> QED BY <1>1, <1>2, <2>1, <2>2 DEF k, c
<1>4. CASE ~(Sh!NeedsPipe /\ Sh!IsNum(Sh!M(i)))
  <2>1. Sh!Made(q) = c.pipes
    BY <1>4 DEF Sh!Made
  <2>2. Sh!IsNum(Sh!M(i)) => k \in DOMAIN c.pipes
    BY <1>4 DEF Sh!NeedsPipe
  <2> QED BY <1>1, <2>1, <2>2
<1> QED BY <1>3, <1>4

LEMMA ShortSeq ==
  ASSUME NEW S, NEW x \in S, NEW y \in S
  PROVE  /\ Append(<<x>>, y) = <<x, y>> /\ Tail(<<x, y>>) = <<y>>
         /\ Tail(<<x>>) = <<>> /\ Append(<<>>, y) = <<y>>
         /\ Head(<<y>>) = y
<1>1. <<x>> \in Seq(S) /\ <<x, y>> \in Seq(S) /\ <<y>> \in Seq(S) /\ <<>> \in Seq(S)
  OBVIOUS
<1>2. Append(<<x>>, y) = <<x, y>> /\ Append(<<>>, y) = <<y>>
  <2>1. /\ Append(<<x>>, y) \in Seq(S) /\ Len(Append(<<x>>, y)) = 2
        /\ Append(<<x>>, y)[1] = x /\ Append(<<x>>, y)[2] = y
    BY <1>1
  <2>2. /\ Append(<<>>, y) \in Seq(S) /\ Len(Append(<<>>, y)) = 1
        /\ Append(<<>>, y)[1] = y
    BY <1>1
  <2>3. Append(<<x>>, y) = <<x, y>>
    <3>1. Len(<<x, y>>) = 2 /\ <<x, y>>[1] = x /\ <<x, y>>[2] = y
      OBVIOUS
    <3>2. \A n \in 1 .. 2 : Append(<<x>>, y)[n] = <<x, y>>[n]
      BY <2>1, <3>1
    <3> QED BY <1>1, <2>1, <3>1, <3>2, SeqEqual
  <2>4. Append(<<>>, y) = <<y>>
    <3>1. Len(<<y>>) = 1 /\ <<y>>[1] = y
      OBVIOUS
    <3>2. \A n \in 1 .. 1 : Append(<<>>, y)[n] = <<y>>[n]
      BY <2>2, <3>1
    <3> QED BY <1>1, <2>2, <3>1, <3>2, SeqEqual
  <2> QED BY <2>3, <2>4
<1>3. Tail(<<x, y>>) = <<y>>
  <2>1. Tail(<<x, y>>) \in Seq(S) /\ Len(Tail(<<x, y>>)) = 1 /\ Tail(<<x, y>>)[1] = y
    BY <1>1
  <2> QED BY <1>1, <2>1
<1>4. Tail(<<x>>) = <<>>
  <2>1. Tail(<<x>>) \in Seq(S) /\ Len(Tail(<<x>>)) = 0
    BY <1>1
  <2> QED BY <1>1, <2>1
<1>5. Head(<<y>>) = y
  BY <1>1
<1> QED BY <1>2, <1>3, <1>4, <1>5

\* The queue after a command: its own pipe, if an ordinary one follows it.
LEMMA QueueAfter ==
  ASSUME IInv, pc = "loop", NEW q \in Fresh
  PROVE  (IF Sh!FromOrd THEN Tail(Sh!Queue(q)) ELSE Sh!Queue(q))
           = IF Sh!M(i).k = "ord" THEN <<q>> ELSE <<>>
<1>1. CASE Sh!FromOrd
  <2>1. PICK r \in Pipe : clients[id].ordinary_pipes = <<r>>
    BY <1>1, LoopFacts
  <2>2. Sh!Queue(q) = IF Sh!M(i).k = "ord" THEN <<r, q>> ELSE <<r>>
    <3>1. Append(<<r>>, q) = <<r, q>>
      <4> DEFINE S == {r, q}
      <4>1. r \in S /\ q \in S
        OBVIOUS
      <4> HIDE DEF S
      <4> QED BY <4>1, ShortSeq
    <3> QED BY <2>1, <3>1 DEF Sh!Queue
  <2>3. Tail(<<r, q>>) = <<q>> /\ Tail(<<r>>) = <<>>
    OBVIOUS
  <2> QED BY <1>1, <2>2, <2>3
<1>2. CASE ~Sh!FromOrd
  <2>1. clients[id].ordinary_pipes = <<>>
    BY <1>2, LoopFacts
  <2> QED BY <1>2, <2>1 DEF Sh!Queue
<1> QED BY <1>1, <1>2

LEMMA EndTypes ==
  ASSUME IInv, pc = "loop", NEW q \in Fresh
  PROVE  In(q) \in End /\ Out(q) \in End
<1> DEFINE c == clients[id]
<1>0. /\ c.recvMessages \in [DOMAIN c.recvMessages -> Pipe]
  BY LoopFacts, ClientFields DEF Client
<1>1. Sh!In(q) \in End
  <2>1. CASE Sh!FromOrd
    <3>1. PICK r \in Pipe : c.ordinary_pipes = <<r>>
      BY <2>1, LoopFacts
    <3> QED BY <2>1, <3>1 DEF Sh!In, End
  <2>2. CASE ~Sh!FromOrd
    BY <2>2, MadeType DEF Sh!In, Sh!FromNum, End, Tty, Sh!Tty
  <2> QED BY <2>1, <2>2
<1>2. Sh!Out(q) \in End
  <2>1. CASE Sh!M(i).k = "ord"
    <3>1. q \in Pipe
      BY <2>1, FreshType DEF Sh!NeedsPipe
    <3>2. Sh!Out(q) = Head(<<q>>)
      BY <2>1, QueueAfter DEF Sh!Out
    <3> QED BY <3>1, <3>2 DEF End
  <2>2. CASE Sh!M(i).k # "ord"
    BY <2>2, MadeType DEF Sh!Out, End, Tty, Sh!Tty
  <2> QED BY <2>1, <2>2
<1>3. In(q) \in End
  BY <1>0, <1>1 DEF In, Receives, End, Null
<1>4. Out(q) \in End
  BY <1>2, FreshType DEF Out, End, Null
<1> QED BY <1>3, <1>4

LEMMA OpenType ==
  ASSUME IInv, NEW q \in Fresh
  PROVE  Open(q) \subseteq Pipe
<1>1. ServerOpen \subseteq Pipe
  BY OwnPipesType DEF ServerOpen, IInv, TypeOK
<1> QED BY <1>1, FreshType DEF Open

LEMMA TagTypes ==
  ASSUME IInv, pc = "loop"
  PROVE  Takes \in Tag /\ Aims \in Tag
<1>1. /\ clients[id].session \in Nat /\ clients[id].base \in Nat
      /\ \A n \in DOMAIN clients : clients[n].session \in Nat
      /\ id \in Nat /\ typed \in Nat /\ Sh!M(i) \in Meds /\ i \in Nat /\ From \in Nat /\ To \in Nat
  <2>1. \A n \in DOMAIN clients : clients[n].session \in Nat /\ clients[n].base \in Nat
    BY ClientFields DEF Client, IInv, TypeOK
  <2>2. id \in Nat /\ typed \in Nat
    BY ServerAssumption DEF IInv, TypeOK
  <2> QED BY <2>1, <2>2, LoopFacts
<1>2. Sh!Counted(line, i) \in Nat
  BY <1>1, CountedType
<1>3. Sh!M(i).n \in Nat
  BY <1>1 DEF Meds
<1>4. /\ NoTag \in Tag /\ \A s, k \in Nat : NumTag(s, k) \in Tag /\ OrdTag(s, k) \in Tag /\ UserTag(s, k) \in Tag
  BY DEF NoTag, NumTag, OrdTag, UserTag, Tag
<1>5. Takes \in Tag
  <2>1. clients[id].base + Sh!Counted(line, i) \in Nat
    BY <1>1, <1>2
  <2> QED BY <1>1, <1>4, <2>1 DEF Takes, Session
<1>6. Aims \in Tag
  <2>1. (IF To \in DOMAIN clients THEN clients[To].session ELSE 0) \in Nat
    BY <1>1
  <2>2. clients[id].base + Sh!Counted(line, i) + Sh!M(i).n \in Nat
    BY <1>1, <1>2, <1>3
  <2>3. i + 1 \in Nat
    BY <1>1
  <2> QED BY <1>1, <1>4, <2>1, <2>2, <2>3 DEF Aims, Session
<1> QED BY <1>5, <1>6

LEMMA ChildType ==
  ASSUME IInv, pc = "loop", NEW q \in Fresh
  PROVE  Child(q) \in Kid /\ Child(q).env = Child(q).own
<1>1. In(q) \in End /\ Out(q) \in End /\ Tty \in End
  BY EndTypes DEF End
<1>2. KeptRd(q) \in SUBSET Pipe /\ KeptWr(q) \in SUBSET Pipe
  BY OpenType DEF KeptRd, KeptWr
<1>3. Takes \in Tag /\ Aims \in Tag
  BY TagTypes
<1>4. line.cmds[i] \in Prog /\ Emit[line.cmds[i]] \in Nat
  BY LoopFacts, ServerAssumption
<1>5. environ \in Env /\ clients[id].own \in Env /\ environ = clients[id].own
  BY LoopFacts, ClientFields DEF Client, IInv, TypeOK, Service
<1> QED BY <1>1, <1>2, <1>3, <1>4, <1>5 DEF Child, Kid

LEMMA Sent ==
  ASSUME NEW c, IsClient(c), NEW q \in Pipe, NEW n \in Id,
         NEW d, d = [c EXCEPT !.recvMessages = Put(@, n, q)]
  PROVE  /\ IsClient(d) /\ d.name = c.name /\ d.fd = c.fd /\ d.envs = c.envs /\ d.own = c.own
         /\ d.ordinary_pipes = c.ordinary_pipes
<1> DEFINE nr == Put(c.recvMessages, n, q)
<1>1. /\ c \in Client([DOMAIN c.pipes -> Pipe], [DOMAIN c.recvMessages -> Pipe])
      /\ DOMAIN c.pipes \subseteq Nat /\ DOMAIN c.recvMessages \subseteq Id
  BY ClientFields
<1>2. nr \in [DOMAIN nr -> Pipe] /\ DOMAIN nr \subseteq Id
  BY <1>1 DEF Put, Client
<1>3. d = [c EXCEPT !.recvMessages = nr]
  BY <1>1 DEF Client
<1> HIDE DEF nr
<1>4. /\ d.pipes = c.pipes /\ d.recvMessages = nr /\ d.name = c.name /\ d.fd = c.fd
      /\ d.own = c.own /\ d.envs = c.envs /\ d.ordinary_pipes = c.ordinary_pipes
  BY <1>1, <1>3 DEF Client
<1>5. d \in Client([DOMAIN c.pipes -> Pipe], [DOMAIN nr -> Pipe])
  BY <1>1, <1>2, <1>3 DEF Client
<1> QED BY <1>1, <1>2, <1>4, <1>5 DEF IsClient, Client

LEMMA ServedType ==
  ASSUME IInv, pc = "loop", NEW q \in Fresh
  PROVE  /\ IsClient(Served(q)) /\ Served(q).name = clients[id].name
         /\ Served(q).fd = clients[id].fd /\ Served(q).envs = clients[id].envs
         /\ Served(q).own = clients[id].own
         /\ Served(q).ordinary_pipes = IF Sh!M(i).k = "ord" THEN <<q>> ELSE <<>>
<1> DEFINE c == clients[id]
           np == IF Sh!FromNum(q) THEN Drop(Sh!Made(q), c.lineIdx) ELSE Sh!Made(q)
           no == IF Sh!FromOrd THEN Tail(Sh!Queue(q)) ELSE Sh!Queue(q)
           nr == IF Receives THEN Drop(c.recvMessages, From) ELSE c.recvMessages
           nl == IF i < Len(line.cmds) /\ Sh!IsNum(Sh!M(i)) THEN c.lineIdx + 1 ELSE c.lineIdx
<1>1. IsClient(c)
  BY LoopFacts
<1>2. /\ c.recvMessages \in [DOMAIN c.recvMessages -> Pipe] /\ DOMAIN c.recvMessages \subseteq Id
      /\ c.lineIdx \in Nat
  BY <1>1, ClientFields DEF Client
<1>3. np \in [DOMAIN np -> Pipe] /\ DOMAIN np \subseteq Nat
  <2>1. /\ DOMAIN Sh!Made(q) \subseteq Nat
        /\ Sh!Made(q) \in [DOMAIN Sh!Made(q) -> Pipe]
    BY MadeType
  <2> QED BY <2>1 DEF Drop
<1>4. no = IF Sh!M(i).k = "ord" THEN <<q>> ELSE <<>>
  BY QueueAfter
<1>5. no \in Seq(Pipe)
  <2>1. CASE Sh!M(i).k = "ord"
    <3>1. q \in Pipe
      BY <2>1, FreshType DEF Sh!NeedsPipe
    <3>2. <<q>> \in Seq(Pipe)
      BY <3>1
    <3> HIDE DEF no
    <3> QED BY <1>4, <2>1, <3>2
  <2>2. CASE Sh!M(i).k # "ord"
    <3>1. <<>> \in Seq(Pipe)
      BY EmptySeq
    <3> HIDE DEF no
    <3> QED BY <1>4, <2>2, <3>1
  <2> QED BY <2>1, <2>2
<1>6. nr \in [DOMAIN nr -> Pipe] /\ DOMAIN nr \subseteq Id
  BY <1>2 DEF Drop
<1>7. nl \in Nat
  BY <1>2
<1>8. Served(q) = [c EXCEPT !.pipes = np, !.ordinary_pipes = no, !.recvMessages = nr, !.lineIdx = nl]
  <2>1. c \in Client([DOMAIN c.pipes -> Pipe], [DOMAIN c.recvMessages -> Pipe])
    BY <1>1, ClientFields
  <2> QED BY <2>1 DEF Served, Client
<1> HIDE DEF c, np, no, nr, nl
<1>9. /\ IsClient(Served(q)) /\ Served(q).name = c.name /\ Served(q).fd = c.fd
      /\ Served(q).envs = c.envs /\ Served(q).own = c.own /\ Served(q).ordinary_pipes = no
  <2>1. c \in Client([DOMAIN c.pipes -> Pipe], [DOMAIN c.recvMessages -> Pipe])
    BY <1>1, ClientFields
  <2>2. Served(q) \in Client([DOMAIN np -> Pipe], [DOMAIN nr -> Pipe])
    BY <1>3, <1>5, <1>6, <1>7, <1>8, <2>1 DEF Client
  <2>3. /\ Served(q).pipes = np /\ Served(q).recvMessages = nr /\ Served(q).name = c.name
        /\ Served(q).fd = c.fd /\ Served(q).own = c.own /\ Served(q).envs = c.envs
        /\ Served(q).ordinary_pipes = no
    BY <1>8, <2>1 DEF Client
  <2> QED BY <1>3, <1>6, <2>2, <2>3 DEF IsClient, Client
<1> QED BY <1>4, <1>9 DEF c

LEMMA AfterType ==
  ASSUME IInv, pc = "loop", NEW q \in Fresh
  PROVE  /\ DOMAIN After(q) = DOMAIN clients
         /\ \A n \in DOMAIN clients :
              /\ IsClient(After(q)[n]) /\ After(q)[n].name = clients[n].name
              /\ After(q)[n].fd = clients[n].fd /\ After(q)[n].envs = clients[n].envs
              /\ After(q)[n].own = clients[n].own
              /\ After(q)[n].ordinary_pipes =
                   IF n = id /\ Sh!M(i).k = "ord" THEN <<q>> ELSE <<>>
<1>1. /\ DOMAIN Mine(q) = DOMAIN clients
      /\ \A n \in DOMAIN clients :
           /\ IsClient(Mine(q)[n]) /\ Mine(q)[n].name = clients[n].name /\ Mine(q)[n].fd = clients[n].fd
           /\ Mine(q)[n].envs = clients[n].envs /\ Mine(q)[n].own = clients[n].own
           /\ Mine(q)[n].ordinary_pipes = IF n = id /\ Sh!M(i).k = "ord" THEN <<q>> ELSE <<>>
  <2>1. /\ DOMAIN Mine(q) = DOMAIN clients
        /\ \A n \in DOMAIN clients : Mine(q)[n] = IF n = id THEN Served(q) ELSE clients[n]
    BY LoopFacts DEF Mine
  <2>2. /\ IsClient(Mine(q)[id]) /\ Mine(q)[id].name = clients[id].name /\ Mine(q)[id].fd = clients[id].fd
        /\ Mine(q)[id].envs = clients[id].envs /\ Mine(q)[id].own = clients[id].own
        /\ Mine(q)[id].ordinary_pipes = IF Sh!M(i).k = "ord" THEN <<q>> ELSE <<>>
    BY <2>1, LoopFacts, ServedType
  <2>3. \A n \in DOMAIN clients : n # id =>
          Mine(q)[n] = clients[n] /\ IsClient(clients[n]) /\ clients[n].ordinary_pipes = <<>>
    BY <2>1 DEF IInv, TypeOK, Queues
  <2> QED BY <2>1, <2>2, <2>3
<1>2. CASE ~Sends
  BY <1>1, <1>2 DEF After
<1>3. CASE Sends
  <2>1. To \in DOMAIN clients /\ q \in Pipe /\ id \in Id
    BY <1>3, FreshType, LoopFacts DEF Sends, IInv, TypeOK
  <2>2. After(q) = [Mine(q) EXCEPT ![To].recvMessages = Put(@, id, q)]
    BY <1>3 DEF After
  <2>3. DOMAIN After(q) = DOMAIN Mine(q) /\ \A n \in DOMAIN Mine(q) : n # To => After(q)[n] = Mine(q)[n]
    BY <2>2
  <2>4. After(q)[To] = [Mine(q)[To] EXCEPT !.recvMessages = Put(@, id, q)]
    BY <1>1, <2>1, <2>2
  <2>5. IsClient(Mine(q)[To])
    BY <1>1, <2>1
  <2>6. /\ IsClient(After(q)[To]) /\ After(q)[To].name = Mine(q)[To].name
        /\ After(q)[To].fd = Mine(q)[To].fd /\ After(q)[To].envs = Mine(q)[To].envs
        /\ After(q)[To].own = Mine(q)[To].own
        /\ After(q)[To].ordinary_pipes = Mine(q)[To].ordinary_pipes
    BY <2>1, <2>4, <2>5, Sent
  <2> QED BY <1>1, <2>1, <2>3, <2>6
<1> QED BY <1>2, <1>3

LEMMA ForkInv ==
  ASSUME IInv, ForkCmd
  PROVE  IInv'
<1> USE DEF tables, signals
<1>1. PICK p \in Lowest(FreePids), q \in Fresh :
        /\ kid' = [kid EXCEPT ![p] = Child(q)]
        /\ clients' = After(q)
        /\ IF q = Tty THEN UNCHANGED <<buf, meant>>
           ELSE buf' = [buf EXCEPT ![q] = 0] /\ meant' = [meant EXCEPT ![q] = Aims]
        /\ lastWaitChild' = IF Sh!Awaited THEN p ELSE lastWaitChild
  BY DEF ForkCmd
<1>2. /\ pc = "loop" /\ i' = Sh!NextI
      /\ pc' = IF Sh!NextI > Len(line.cmds) THEN "wait" ELSE "loop"
      /\ UNCHANGED <<tables, rfds, halves, id, line, environ, signals, leaked, typed>>
  BY DEF ForkCmd
<1>3. /\ DOMAIN clients' = DOMAIN clients
      /\ \A n \in DOMAIN clients :
           /\ IsClient(clients'[n]) /\ clients'[n].name = clients[n].name
           /\ clients'[n].fd = clients[n].fd /\ clients'[n].envs = clients[n].envs
           /\ clients'[n].own = clients[n].own
           /\ clients'[n].ordinary_pipes =
                IF n = id /\ Sh!M(i).k = "ord" THEN <<q>> ELSE <<>>
  BY <1>1, <1>2, AfterType
<1>4. p \in Pid /\ Child(q) \in Kid /\ Child(q).env = Child(q).own
  BY <1>2, ChildType DEF Lowest, FreePids
<1>5. /\ id \in DOMAIN clients /\ line \in Lines /\ i \in 1 .. Len(line.cmds) /\ i \in Nat
      /\ Len(line.cmds) \in Nat /\ Sh!NextI \in {i + 1, i + 2}
  BY <1>2, LoopFacts, ServerAssumption DEF Sh!NextI
<1>6. TypeOK'
  <2>1. kid' \in [Pid -> Kid]
    BY <1>1, <1>4 DEF IInv, TypeOK
  <2>2. buf' \in [Pipe -> 0 .. Cap] /\ meant' \in [Pipe -> Tag]
    <3>1. Aims \in Tag /\ 0 \in 0 .. Cap
      BY <1>2, TagTypes, ServerAssumption
    <3>2. buf \in [Pipe -> 0 .. Cap] /\ meant \in [Pipe -> Tag]
      BY DEF IInv, TypeOK
    <3>3. CASE q = Tty
      BY <1>1, <3>2, <3>3
    <3>4. CASE q # Tty
      <4>1. buf' = [buf EXCEPT ![q] = 0] /\ meant' = [meant EXCEPT ![q] = Aims]
        BY <1>1, <3>4
      <4> QED BY <3>1, <3>2, <4>1
    <3> QED BY <3>3, <3>4
  <2>3. lastWaitChild' \in Pid \cup {0}
    BY <1>1, <1>4 DEF IInv, TypeOK
  <2>4. pc' \in {"select", "serve", "loop", "wait"} /\ i' \in Nat
    BY <1>2, <1>5
  <2>5. DOMAIN clients' \subseteq Id /\ \A n \in DOMAIN clients' : IsClient(clients'[n])
    BY <1>3 DEF IInv, TypeOK
  <2> QED BY <1>2, <2>1, <2>2, <2>3, <2>4, <2>5 DEF IInv, TypeOK
<1>7. Registered' /\ NamesUnique' /\ OwnEnvs'
  BY <1>2, <1>3 DEF IInv, Registered, NamesUnique, OwnEnvs
<1>8. Service'
  BY <1>2, <1>3, <1>5 DEF IInv, Service
<1>9. EnvIsOwn'
  BY <1>1, <1>4 DEF IInv, TypeOK, EnvIsOwn, Running
<1>10. InPipeline' <=> Sh!M(i).k = "ord"
  <2>1. CASE Sh!M(i).k = "ord"
    <3>1. Sh!NextI = i + 1 /\ i + 1 \in 1 .. Len(line.cmds)
      BY <1>5, <2>1, OrdHasNext DEF Sh!NextI, Sh!M
    <3>2. pc' = "loop" /\ i' = i + 1
      BY <1>2, <1>5, <3>1
    <3>3. Sh!MedOf(line', i' - 1) = Sh!M(i)
      BY <1>2, <1>5, <3>2 DEF Sh!M
    <3> QED BY <1>5, <2>1, <3>2, <3>3 DEF InPipeline, Sh!FromOrd, Sh!M
  <2>2. CASE Sh!M(i).k = "file"
    <3>1. Sh!NextI = i + 2
      BY <2>2 DEF Sh!NextI
    <3>2. i \in 1 .. Len(line.meds) /\ line.meds[i].k = "file"
      BY <2>2 DEF Sh!M, Sh!MedOf, Sh!NoMed
    <3>3. i + 1 = Len(line.cmds)
      BY <1>5, <3>2, ServerAssumption
    <3>4. pc' = "wait"
      BY <1>2, <1>5, <3>1, <3>3
    <3> QED BY <2>2, <3>4 DEF InPipeline
  <2>3. CASE Sh!M(i).k \notin {"ord", "file"}
    <3>1. i' = i + 1
      BY <1>2, <2>3 DEF Sh!NextI
    <3>2. Sh!MedOf(line', i' - 1) = Sh!M(i)
      BY <1>2, <1>5, <3>1 DEF Sh!M
    <3> QED BY <2>3, <3>2 DEF InPipeline, Sh!FromOrd, Sh!M
  <2> QED BY <2>1, <2>2, <2>3
<1>11. Queues'
  <2>1. Sh!M(i).k = "ord" => q \in Pipe
    BY FreshType DEF Sh!NeedsPipe
  <2> QED BY <1>2, <1>3, <1>10, <2>1 DEF Queues
<1> QED BY <1>6, <1>7, <1>8, <1>9, <1>11 DEF IInv

LEMMA WaitInv ==
  ASSUME IInv, WaitLast
  PROVE  IInv'
<1> USE DEF tables, signals
<1>1. /\ pc = "wait" /\ pc' \in {"select", "serve"}
      /\ clients' = [clients EXCEPT ![id].lineIdx = @ + 1, ![id].base = @ + Sh!CountOf(line)]
      /\ id' = 0 /\ line' = Sh!NoLine /\ i' = 0 /\ lastWaitChild' = 0
      /\ UNCHANGED <<tables, rfds, halves, environ, signals, buf, leaked, typed, meant>>
  BY DEF WaitLast
<1>2. /\ kid' \in [Pid -> Kid]
      /\ \A r \in Pid : kid'[r].st # "run" \/ kid'[r] = kid[r]
  <2>1. CASE lastWaitChild = 0
    BY <2>1 DEF WaitLast, IInv, TypeOK
  <2>2. CASE lastWaitChild # 0
    <3>1. lastWaitChild \in Pid /\ Reap(lastWaitChild)
      BY <2>2 DEF WaitLast, IInv, TypeOK
    <3> QED BY <3>1, ReapInv
  <2> QED BY <2>1, <2>2
<1> DEFINE c == clients[id]
           d == [[c EXCEPT !.lineIdx = @ + 1] EXCEPT !.base = @ + Sh!CountOf(line)]
<1>3. id \in DOMAIN clients /\ IsClient(c) /\ line \in Lines
  BY <1>1 DEF IInv, Service, TypeOK
<1>4. Sh!CountOf(line) \in Nat
  <2>1. Len(line.cmds) \in Nat
    BY <1>3, ServerAssumption
  <2>2. Sh!Counted(line, Len(line.cmds)) \in Nat
    BY <2>1, CountedType
  <2> QED BY <2>2 DEF Sh!CountOf
<1>5. /\ c \in Client([DOMAIN c.pipes -> Pipe], [DOMAIN c.recvMessages -> Pipe])
      /\ DOMAIN c.pipes \subseteq Nat /\ DOMAIN c.recvMessages \subseteq Id
  BY <1>3, ClientFields
<1>6. /\ d \in Client([DOMAIN c.pipes -> Pipe], [DOMAIN c.recvMessages -> Pipe])
      /\ d.pipes = c.pipes /\ d.recvMessages = c.recvMessages /\ d.name = c.name /\ d.fd = c.fd
      /\ d.own = c.own /\ d.envs = c.envs /\ d.ordinary_pipes = c.ordinary_pipes
  <2>1. c.lineIdx + 1 \in Nat /\ c.base + Sh!CountOf(line) \in Nat
    BY <1>4, <1>5 DEF Client
  <2>2. d = [[c EXCEPT !.lineIdx = c.lineIdx + 1] EXCEPT !.base = c.base + Sh!CountOf(line)]
    BY <1>5 DEF Client
  <2> HIDE DEF c, d
  <2> QED BY <1>5, <2>1, <2>2 DEF Client
<1>7. /\ DOMAIN clients' = DOMAIN clients
      /\ \A n \in DOMAIN clients : clients'[n] = IF n = id THEN d ELSE clients[n]
  BY <1>1, <1>3
<1> HIDE DEF d
<1>8. IsClient(d)
  BY <1>5, <1>6 DEF IsClient, Client
<1>9. TypeOK'
  <2>1. DOMAIN clients' \subseteq Id /\ \A n \in DOMAIN clients' : IsClient(clients'[n])
    BY <1>7, <1>8 DEF IInv, TypeOK
  <2> QED BY <1>1, <1>2, <2>1 DEF IInv, TypeOK
<1>10. Registered' /\ NamesUnique' /\ OwnEnvs'
  BY <1>1, <1>6, <1>7 DEF IInv, Registered, NamesUnique, OwnEnvs
<1>11. Service' /\ EnvIsOwn'
  BY <1>1, <1>2 DEF IInv, Service, EnvIsOwn, Running
<1>12. Queues'
  BY <1>1, <1>6, <1>7 DEF IInv, Queues, InPipeline
<1> QED BY <1>9, <1>10, <1>11, <1>12 DEF IInv

-----------------------------------------------------------------------------
(* Theorems.                                                               *)

LEMMA StutterInv ==
  ASSUME IInv, UNCHANGED vars
  PROVE  IInv'
BY KernelStep DEF vars, unmoved, signals, IInv, TypeOK

LEMMA NextInv ==
  ASSUME IInv, [Next]_vars
  PROVE  IInv'
<1>1. CASE Select \/ EndLine
  BY <1>1, SelectInv, EndLineInv
<1>2. CASE Scan
  <2>1. CASE Accept
    BY <2>1, AcceptInv
  <2>2. CASE \E f \in Fd, n \in Id : shell_service(f, n)
    <3>1. PICK f \in Fd, n \in Id : shell_service(f, n)
      BY <2>2
    <3> QED BY <3>1, BuiltinInv, LogoutInv, CommandInv DEF shell_service
  <2> QED BY <1>2, <2>1, <2>2 DEF Scan
<1>3. CASE Loop
  BY <1>3, ForkInv, RetryInv, WaitInv DEF Loop
<1>4. CASE Handler
  BY <1>4, HandlerInv
<1>5. CASE Kids
  BY <1>5, KidInv DEF Kids
<1>6. CASE Quiet \/ UNCHANGED vars
  BY <1>6, StutterInv DEF Quiet
<1> QED BY <1>1, <1>2, <1>3, <1>4, <1>5, <1>6 DEF Next

(* The inductive invariant of np_single_proc: types, tables, names,        *)
(* environments and the queue of ordinary pipes, wherever the server is.   *)
THEOREM Invariance == Spec => []IInv
<1>1. Init => IInv
  BY InitInv
<1>2. IInv /\ [Next]_vars => IInv'
  BY NextInv
<1> QED BY <1>1, <1>2, PTL DEF Spec

\* Every variable of the server keeps its type (np_single_proc's globals).
THEOREM TypeCorrect == Spec => []TypeOK
<1>1. IInv => TypeOK
  BY DEF IInv
<1> QED BY <1>1, Invariance, PTL

(* tickets, clients, fd_table, afds and nfds agree for any number of users *)
(* who come and go in any order, so that the scan serves only users online.*)
THEOREM TablesAgree == Spec => []Registered
<1>1. IInv => Registered
  BY DEF IInv
<1> QED BY <1>1, Invariance, PTL

\* No two users have the same name, save "(no name)" (rename).
THEOREM UniqueNames == Spec => []NamesUnique
<1>1. IInv => NamesUnique
  BY DEF IInv
<1> QED BY <1>1, Invariance, PTL

\* Every command runs in its own user's environment (shell_service's clearenv and setenv).
THEOREM EnvironmentsApart == Spec => []EnvIsOwn
<1>1. IInv => EnvIsOwn
  BY DEF IInv
<1> QED BY <1>1, Invariance, PTL

-----------------------------------------------------------------------------
(* Numbers and names: every step of the server is one of Registry's.       *)

LEMMA SameOnline ==
  ASSUME DOMAIN clients' = DOMAIN clients,
         \A n \in DOMAIN clients : clients'[n].name = clients[n].name
  PROVE  online' = online
BY DEF online

LEMMA AcceptReg ==
  ASSUME IInv, Accept
  PROVE  Reg!Next
<1>1. PICK n \in drawTicket, f \in Fd \ afds : clients' = Put(clients, n, NewClient(f))
  BY DEF Accept
<1>2. DOMAIN online = DOMAIN clients
  BY DEF online
<1>3. Reg!Smallest(n)
  <2>1. n \in Id /\ n \notin DOMAIN clients
    BY DEF drawTicket, Lowest, IInv, Registered
  <2>2. ASSUME NEW m \in Id \ DOMAIN clients
        PROVE  n <= m
    <3>1. tickets[m] = 1
      BY <2>2 DEF IInv, Registered
    <3> QED BY <3>1 DEF drawTicket, Lowest
  <2> QED BY <1>2, <2>1, <2>2 DEF Reg!Smallest
<1>4. online' = [m \in DOMAIN online \cup {n} |-> IF m = n THEN NoName ELSE online[m]]
  <2>1. /\ DOMAIN clients' = DOMAIN clients \cup {n}
        /\ \A m \in DOMAIN clients' : clients'[m].name = IF m = n THEN NoName ELSE clients[m].name
    BY <1>1, NewClientType DEF Put
  <2> QED BY <2>1 DEF online
<1> QED BY <1>3, <1>4 DEF Reg!Next, Reg!Login, Reg!Smallest

LEMMA LogoutReg ==
  ASSUME IInv, NEW f \in Fd, NEW n \in Id, logout(f, n)
  PROVE  Reg!Next
<1>1. n \in DOMAIN clients
  BY AtHandOnline DEF logout, Serve
<1>2. clients' = Drop(clients, n)
  BY DEF logout
<1>3. online' = [m \in DOMAIN online \ {n} |-> online[m]]
  <2>1. /\ DOMAIN clients' = DOMAIN clients \ {n}
        /\ \A m \in DOMAIN clients' : clients'[m].name = clients[m].name
    BY <1>2 DEF Drop
  <2> QED BY <2>1 DEF online
<1> QED BY <1>1, <1>3 DEF Reg!Next, Reg!Logout, online

\* The collision test of rename is what keeps a name from being given twice.
LEMMA BuiltinReg ==
  ASSUME IInv, NEW f \in Fd, NEW n \in Id,
         Blank(f, n) \/ Inform(f, n) \/ setenv(f, n) \/ rename(f, n)
  PROVE  Reg!Next \/ online' = online
<1>1. n \in DOMAIN clients /\ IsClient(clients[n]) /\ clients[n].envs = clients[n].own
  BY AtHandOnline DEF Blank, Inform, setenv, rename, Builtin, Serve, IInv, TypeOK, OwnEnvs
<1>2. CASE Blank(f, n)
  BY <1>2, SameOnline DEF Blank
<1>3. CASE Inform(f, n)
  <2>1. clients' = [clients EXCEPT ![n] = Counted(clients[n])]
    BY <1>3 DEF Inform
  <2> QED BY <1>1, <2>1, CountedClient, SameOnline
<1>4. CASE setenv(f, n)
  <2>1. PICK v \in Var, x \in Val :
          clients' = [clients EXCEPT ![n] = Counted(Store(clients[n], v, x))]
    BY <1>4 DEF setenv
  <2>2. IsClient(Store(clients[n], v, x)) /\ Store(clients[n], v, x).name = clients[n].name
    BY <1>1, StoredClient
  <2>3. Counted(Store(clients[n], v, x)).name = clients[n].name
    BY <2>2, CountedClient
  <2> QED BY <1>1, <2>1, <2>3, SameOnline
<1>5. CASE rename(f, n)
  <2>1. PICK nm \in Name :
          clients' = [clients EXCEPT ![n] =
                        Counted(IF collision(nm) THEN clients[n] ELSE Named(clients[n], nm))]
    BY <1>5 DEF rename
  <2>2. CASE collision(nm)
    BY <1>1, <2>1, <2>2, CountedClient, SameOnline
  <2>3. CASE ~collision(nm)
    <3>1. IsClient(Named(clients[n], nm)) /\ Named(clients[n], nm).name = nm
      BY <1>1, NamedClient
    <3>2. Counted(Named(clients[n], nm)).name = nm
      BY <3>1, CountedClient
    <3>3. /\ DOMAIN clients' = DOMAIN clients
          /\ \A m \in DOMAIN clients : clients'[m].name = IF m = n THEN nm ELSE clients[m].name
      BY <1>1, <2>1, <2>3, <3>2
    <3>4. online' = [online EXCEPT ![n] = nm]
      BY <3>3 DEF online
    <3>5. \A m \in DOMAIN online : online[m] # nm
      BY <2>3 DEF collision, online
    <3> QED BY <1>1, <3>4, <3>5 DEF Reg!Next, Reg!Rename, online
  <2> QED BY <2>2, <2>3
<1> QED BY <1>2, <1>3, <1>4, <1>5

LEMMA LoopReg ==
  ASSUME IInv, Loop
  PROVE  online' = online
<1>1. CASE ForkCmd
  <2>1. pc = "loop"
    BY <1>1 DEF ForkCmd
  <2>2. PICK q \in Fresh : clients' = After(q)
    BY <1>1 DEF ForkCmd
  <2>3. DOMAIN clients' = DOMAIN clients /\ \A n \in DOMAIN clients : clients'[n].name = clients[n].name
    BY <2>1, <2>2, AfterType
  <2> QED BY <2>3, SameOnline
<1>2. CASE ForkRetry
  BY <1>2, SameOnline DEF ForkRetry, unmoved
<1>3. CASE WaitLast
  <2>1. /\ pc = "wait"
        /\ clients' = [clients EXCEPT ![id].lineIdx = @ + 1, ![id].base = @ + Sh!CountOf(line)]
    BY <1>3 DEF WaitLast
  <2>2. id \in DOMAIN clients /\ IsClient(clients[id])
    BY <2>1 DEF IInv, Service, TypeOK
  <2>3. clients' = [[clients EXCEPT ![id] = [clients[id] EXCEPT !.lineIdx = @ + 1]]
                      EXCEPT ![id] = [[clients[id] EXCEPT !.lineIdx = @ + 1]
                                        EXCEPT !.base = @ + Sh!CountOf(line)]]
    BY <2>1, <2>2
  <2>4. [[clients[id] EXCEPT !.lineIdx = @ + 1]
           EXCEPT !.base = @ + Sh!CountOf(line)].name = clients[id].name
    BY <2>2, ClientFields DEF Client
  <2>5. /\ DOMAIN clients' = DOMAIN clients
        /\ \A n \in DOMAIN clients : clients'[n].name = clients[n].name
    BY <2>2, <2>3, <2>4
  <2> QED BY <2>5, SameOnline
<1> QED BY <1>1, <1>2, <1>3 DEF Loop

LEMMA StepReg ==
  ASSUME IInv, [Next]_vars
  PROVE  Reg!Next \/ online' = online
<1>1. CASE Scan
  BY <1>1, AcceptReg, LogoutReg, BuiltinReg, SameOnline DEF Scan, shell_service, Command
<1>2. CASE Loop
  BY <1>2, LoopReg
<1>3. CASE Select \/ EndLine \/ Handler \/ Kids \/ Quiet \/ UNCHANGED vars
  <2>1. clients' = clients
    BY <1>3 DEF Select, EndLine, Handler, HandlerEnter, HandlerReap, Kids, KidStep, KidRead,
                KidWrite, KidExit, Quiet, vars, unmoved
  <2> QED BY <2>1, SameOnline
<1> QED BY <1>1, <1>2, <1>3 DEF Next

(* Whatever its users, their lines and their commands do, the server gives *)
(* numbers and names as Registry promises: the smallest free number to who *)
(* logs in, a name to one user at most, both free again at logout.         *)
THEOREM Implements == Spec => ImplementsRegistry
<1>1. Init => Reg!Init
  BY DEF Init, Reg!Init, online, NoClients
<1>2. IInv /\ [Next]_vars => [Reg!Next]_online
  BY StepReg
<1> QED BY <1>1, <1>2, Invariance, PTL DEF Spec, ImplementsRegistry, Reg!Spec
=============================================================================
