------------------------------ MODULE RwgSingle ------------------------------
(***************************************************************************)
(* np_single_proc (src/311552007_np_project2/np_single_proc.cpp): the      *)
(* remote working ground served by one process.  A select loop accepts     *)
(* users, gives each the smallest free number, and runs one line of one    *)
(* user at a time with the loop of npshell over that user's own tables;    *)
(* commands of different users meet in user pipes, `>n' and `<n'.          *)
(*                                                                         *)
(* Users leave by typing exit, and at most as many as there are numbers    *)
(* are online (the project's rules); what users see of each other's doings *)
(* is left out, as it changes no state.                                    *)
(***************************************************************************)
EXTENDS Integers, Sequences, FiniteSets

CONSTANTS
  Pid, Pipe, Cap, Prog, Emit, Filter, Missing,  \* as in NpShell
  Lines,        \* command lines; ups[j] is the `<from' and `>to' of command j
  Id,           \* user numbers
  Fd,           \* descriptors an accepted connection may get
  Name, NoName, \* names a user may type, and "(no name)"
  Var, Val,     \* environment variables and their values
  Unset,        \* value of a variable that the environment lacks
  InitEnv,      \* init_envp
  MaxLines,     \* bound: lines typed in one behaviour
  MaxSessions   \* bound: connections in one behaviour

Listen == 0     \* sockfd, below every descriptor it accepts
Env == [Var -> Val \cup {Unset}]

VARIABLES
  pc,         \* "select", "serve" (in the scan of rfds), "loop" or "wait" (waitpid)
  rfds,       \* ready descriptors that the scan has yet to reach
  halves,     \* those of them whose user has typed only a part of a line so far
  afds,       \* descriptors select watches, besides sockfd
  nfds,       \* one more than the highest of them so far
  tickets,    \* how many times each number is in the heap of free numbers
  clients,    \* number -> client_info
  fd_table,   \* descriptor -> number
  environ,    \* the server's environment, inherited by children
  id, line, i, lastWaitChild,   \* locals of shell_service; id is 0 outside
  sigchld, inHandler, kid, buf, \* as in NpShell; buf counts units
  leaked,     \* pipes the server holds open and has lost track of
  sessions, typed,              \* connections so far, lines so far
  meant       \* ghost: the destination each pipe was created for

tables == <<afds, nfds, tickets, fd_table, sessions>>
service == <<pc, rfds, halves, id, line, i, lastWaitChild, environ>>
signals == <<sigchld, inHandler>>
vars == <<tables, service, signals, clients, kid, buf, leaked, typed, meant>>

\* npshell's loop body over the tables of the user being served.
Sh == INSTANCE NpShell WITH
        lineIdx <- clients[id].lineIdx, pipes <- clients[id].pipes,
        ordinary_pipes <- clients[id].ordinary_pipes, base <- clients[id].base,
        builtins <- {}  \* a ghost that the loop does not touch

(* What parseLine returns for the lines the project allows: as in NpShell, *)
(* and only the first command reads a user pipe, only the last, without a  *)
(* medium, writes one.                                                     *)
ASSUME ServerAssumption ==
  /\ Id \subseteq Nat \ {0} /\ Fd \subseteq Nat \ {Listen} /\ Pipe \subseteq Nat \ {0}
  /\ Pid \subseteq Nat \ {0} /\ IsFiniteSet(Fd) /\ Cap \in Nat
  /\ MaxLines \in Nat /\ MaxSessions \in Nat /\ NoName \notin Name /\ InitEnv \in Env
  /\ Emit \in [Prog -> Nat] /\ Filter \subseteq Prog /\ Missing \subseteq Prog
  /\ \A l \in Lines :
       /\ l.cmds \in Seq(Prog) /\ l.meds \in Seq(Sh!Med)
       /\ l.ups \in Seq([from : Nat, to : Nat]) /\ Len(l.ups) = Len(l.cmds)
       /\ Len(l.cmds) >= 1
       /\ Len(l.meds) \in {Len(l.cmds) - 1, Len(l.cmds)}
       /\ \A j \in 1 .. Len(l.meds) :
            /\ Sh!IsNum(l.meds[j]) => l.meds[j].n >= 1
            /\ l.meds[j].k = "file" => j + 1 = Len(l.cmds) /\ j = Len(l.meds)
            /\ j = Len(l.cmds) => Sh!IsNum(l.meds[j])
       /\ \A j \in 1 .. Len(l.cmds) :
            /\ l.ups[j].from # 0 => j = 1
            /\ l.ups[j].to # 0 => j = Len(l.cmds) /\ j > Len(l.meds)

-----------------------------------------------------------------------------
(* The kernel.  Tty is the user's socket or a file, Null is null_fd.       *)

Tty == 0
Null == -1
NoTag == <<"none", 0, 0>>
NumTag(s, k) == <<"num", s, k>>   \* first command of counted line k of session s
OrdTag(s, j) == <<"ord", s, j>>   \* command j of the s-th typed line
UserTag(n, s) == <<"user", n, s>> \* what session s reads with `<n'
Tag == {"none", "num", "ord", "user"} \X Nat \X Nat

End == Pipe \cup {Tty, Null}
Kid == [st : {"free", "run", "zombie"}, prog : Prog \cup {"-"},
        in : End, out : End, err : End, rd : SUBSET Pipe, wr : SUBSET Pipe,
        left : Nat, env : Env,
        takes : Tag, to : Tag, own : Env]  \* ghosts: what the user typed

Gone(s) == [st |-> s, prog |-> "-", in |-> Tty, out |-> Tty, err |-> Tty,
            rd |-> {}, wr |-> {}, left |-> 0, env |-> InitEnv,
            takes |-> NoTag, to |-> NoTag, own |-> InitEnv]

Running == {p \in Pid : kid[p].st = "run"}
Zombies == {p \in Pid : kid[p].st = "zombie"}
FreePids == {p \in Pid : kid[p].st = "free"}
Lowest(S) == {x \in S : \A y \in S : x <= y}
Ran(f) == {f[x] : x \in DOMAIN f}

OwnPipes(n) == Ran(clients[n].pipes) \cup Ran(clients[n].ordinary_pipes)
               \cup Ran(clients[n].recvMessages)
ServerOpen == leaked \cup UNION {OwnPipes(n) : n \in DOMAIN clients}
HasReader(q) == q \in ServerOpen \/ \E p \in Running : q \in kid[p].rd
HasWriter(q) == q \in ServerOpen \/ \E p \in Running : q \in kid[p].wr
FreePipes == {q \in Pipe : ~HasReader(q) /\ ~HasWriter(q)}

Sink(p) == IF kid[p].prog \in Missing THEN kid[p].err ELSE kid[p].out
unmoved == <<tables, service, clients, leaked, typed, meant>>

KidRead(p) ==
  /\ kid[p].st = "run" /\ kid[p].prog \in Filter /\ kid[p].left = 0
  /\ kid[p].in \in Pipe /\ buf[kid[p].in] > 0
  /\ kid' = [kid EXCEPT ![p].left = 1]
  /\ buf' = [buf EXCEPT ![kid[p].in] = @ - 1]
  /\ UNCHANGED <<unmoved, signals>>

KidWrite(p) ==
  /\ kid[p].st = "run" /\ kid[p].left > 0
  /\ \/ Sink(p) \notin Pipe /\ buf' = buf
     \/ /\ Sink(p) \in Pipe /\ HasReader(Sink(p)) /\ buf[Sink(p)] < Cap
        /\ buf' = [buf EXCEPT ![Sink(p)] = @ + 1]
  /\ kid' = [kid EXCEPT ![p].left = @ - 1]
  /\ UNCHANGED <<unmoved, signals>>

AtEof(p) == \/ kid[p].in = Null
            \/ kid[p].in \in Pipe /\ buf[kid[p].in] = 0 /\ ~HasWriter(kid[p].in)
Broken(p) == kid[p].left > 0 /\ Sink(p) \in Pipe /\ ~HasReader(Sink(p))

KidExit(p) ==
  /\ kid[p].st = "run"
  /\ \/ kid[p].left = 0 /\ (kid[p].prog \in Filter => AtEof(p))
     \/ Broken(p)
  /\ kid' = [kid EXCEPT ![p] = Gone("zombie")]
  /\ sigchld' = TRUE
  /\ UNCHANGED <<unmoved, inHandler, buf>>

KidStep(p) == KidRead(p) \/ KidWrite(p) \/ KidExit(p)

Reap(p) == kid' = [kid EXCEPT ![p] = Gone("free")]

\* signalHandler, as in npshell: main is suspended while it waits.
Undisturbed == ~sigchld /\ ~inHandler

HandlerEnter ==
  /\ sigchld /\ ~inHandler
  /\ sigchld' = FALSE /\ inHandler' = TRUE
  /\ UNCHANGED <<unmoved, kid, buf>>

HandlerReap ==
  /\ inHandler /\ inHandler' = FALSE
  /\ \/ \E p \in Zombies : Reap(p)
     \/ FreePids = Pid /\ kid' = kid
  /\ UNCHANGED <<unmoved, sigchld, buf>>

-----------------------------------------------------------------------------
(* The select loop.                                                        *)

NoClients == [n \in {} |-> 0]
Put(f, k, v) == [x \in DOMAIN f \cup {k} |-> IF x = k THEN v ELSE f[x]]
Drop(f, k) == [x \in DOMAIN f \ {k} |-> f[x]]

\* Select returns: some users have typed, and some program is connecting.
Select ==
  /\ pc = "select" /\ Undisturbed
  /\ \E R \in SUBSET (afds \cup {Listen}) :
       /\ R # {} /\ typed + Cardinality(R \ {Listen}) <= MaxLines
       /\ Listen \in R => sessions < MaxSessions /\ \E n \in Id : tickets[n] > 0
       /\ rfds' = R /\ halves' \in SUBSET (R \ {Listen})
  /\ pc' = "serve"
  /\ UNCHANGED <<tables, id, line, i, lastWaitChild, environ, signals, clients,
                 kid, buf, leaked, typed, meant>>

\* A user types the rest of a line.
EndLine ==
  /\ \E f \in halves : halves' = halves \ {f}
  /\ UNCHANGED <<tables, pc, rfds, id, line, i, lastWaitChild, environ, signals, clients,
                 kid, buf, leaked, typed, meant>>

Scanned(f) == /\ rfds' = rfds \ {f}
              /\ pc' = IF rfds = {f} THEN "select" ELSE "serve"

NewClient(f) ==
  [name |-> NoName, fd |-> f, lineIdx |-> 0, pipes |-> NoClients, ordinary_pipes |-> <<>>,
   recvMessages |-> NoClients, envs |-> InitEnv,
   session |-> sessions + 1, base |-> 0, own |-> InitEnv]  \* ghosts

drawTicketAny == {n \in Id : tickets[n] > 0}
drawTicket == Lowest({n \in Id : tickets[n] > 0})

Accept ==
  /\ pc = "serve" /\ Undisturbed /\ Listen \in rfds
  /\ \E n \in drawTicket, f \in Fd \ afds :
       /\ tickets' = [tickets EXCEPT ![n] = @ - 1]
       /\ clients' = Put(clients, n, NewClient(f))
       /\ fd_table' = Put(fd_table, f, n)
       /\ afds' = afds \cup {f}
       /\ nfds' = IF f + 1 > nfds THEN f + 1 ELSE nfds
  /\ sessions' = sessions + 1
  /\ Scanned(Listen)
  /\ UNCHANGED <<halves, id, line, i, lastWaitChild, environ, signals, kid, buf, leaked,
                 typed, meant>>

\* The start of shell_service: the descriptor at hand, its user, and the user's environment.
AtHand == Lowest(rfds) \ {Listen}
clearenvNot(n) == [v \in Var |-> IF clients[n].envs[v] = Unset THEN environ[v] ELSE clients[n].envs[v]]
clearenv(n) == clients[n].envs

(* getline reads from the descriptor at hand, and blocks the server until  *)
(* the line is whole.                                                      *)
Serve(f, n) == /\ pc = "serve" /\ Undisturbed
               /\ f \in AtHand \ halves /\ n = fd_table[f]
               /\ typed' = typed + 1 /\ halves' = halves

\* A line without a command does not count.
Blank(f, n) ==
  /\ Serve(f, n) /\ Scanned(f) /\ environ' = clearenv(n)
  /\ UNCHANGED <<tables, id, line, i, lastWaitChild, signals, clients, kid, buf,
                 leaked, meant>>

(* Built-in commands end with the line counted; a numbered pipe that leads *)
(* to one stays open behind it.                                            *)
Builtin(f, n) ==
  /\ Serve(f, n) /\ Scanned(f)
  /\ UNCHANGED <<tables, id, line, i, lastWaitChild, signals, kid, buf, leaked, meant>>

Counted(c) == [c EXCEPT !.lineIdx = @ + 1, !.base = @ + 1]

\* printenv, who, tell and yell, which only send messages.
Inform(f, n) ==
  /\ Builtin(f, n) /\ environ' = clearenv(n)
  /\ clients' = [clients EXCEPT ![n] = Counted(@)]

Store(c, v, x) == [c EXCEPT !.envs[v] = x, !.own[v] = x]
setenv(f, n) ==
  \E v \in Var, x \in Val :
    /\ Builtin(f, n) /\ environ' = [clearenv(n) EXCEPT ![v] = x]
    /\ clients' = [clients EXCEPT ![n] = Counted(Store(@, v, x))]

collisionNever(nm) == nm = NoName
Named(c, nm) == [c EXCEPT !.name = nm]
collision(nm) == \E m \in DOMAIN clients : clients[m].name = nm
rename(f, n) ==
  \E nm \in Name :
    /\ Builtin(f, n) /\ environ' = clearenv(n)
    /\ clients' = [clients EXCEPT ![n] =
                     Counted(IF collision(nm) THEN @ ELSE Named(@, nm))]

returnTicket(n) == [tickets EXCEPT ![n] = @ + 1]
FD_CLRnot(f) == afds
FD_CLR(f) == afds \ {f}

\* Neither the pipes of the user's tables nor the user's pipes to others are closed.
logout(f, n) ==
  /\ Serve(f, n) /\ Scanned(f) /\ environ' = clearenv(n)
  /\ clients' = Drop(clients, n) /\ fd_table' = Drop(fd_table, f)
  /\ tickets' = returnTicket(n) /\ afds' = FD_CLR(f)
  /\ leaked' = leaked \cup OwnPipes(n)
  /\ UNCHANGED <<nfds, sessions, id, line, i, lastWaitChild, signals, kid, buf, meant>>

(* Lines as the project allows them: a filter at the head has something to *)
(* read, and a command reads or writes one pipe only.                      *)
UserMeans(l, n) ==
  LET c == clients[n]
  IN  IF l.ups[1].from # 0 THEN c.lineIdx \notin DOMAIN c.pipes
      ELSE l.cmds[1] \in Filter => c.lineIdx \in DOMAIN c.pipes

Command(f, n) ==
  /\ Serve(f, n) /\ rfds' = rfds \ {f} /\ environ' = clearenv(n)
  /\ \E l \in Lines : UserMeans(l, n) /\ line' = l
  /\ pc' = "loop" /\ id' = n /\ i' = 1 /\ lastWaitChild' = 0
  /\ UNCHANGED <<tables, signals, clients, kid, buf, leaked, meant>>

-----------------------------------------------------------------------------
(* The loop over the commands of a line.                                   *)

From == line.ups[i].from
To == line.ups[i].to

\* The user pipe to read exists; the one to write does not yet.
Receives == From # 0 /\ From \in DOMAIN clients /\ From \in DOMAIN clients[id].recvMessages
Sends == To # 0 /\ To \in DOMAIN clients /\ id \notin DOMAIN clients[To].recvMessages

FreshNone == {Tty}
Fresh == IF Sends \/ Sh!NeedsPipe THEN Lowest(FreePipes) ELSE {Tty}
Open(q) == ServerOpen \cup ({q} \ {Tty})

InSocket(q) == IF Receives THEN clients[id].recvMessages[From] ELSE Sh!In(q)
In(q) == IF From = 0 THEN Sh!In(q)
         ELSE IF Receives THEN clients[id].recvMessages[From] ELSE Null
Out(q) == IF To = 0 THEN Sh!Out(q) ELSE IF Sends THEN q ELSE Null

\* What the text says of command i: see NpShell's Takes and Aims.
Session == clients[id].session
Takes == IF From # 0 THEN UserTag(From, Session)
         ELSE IF Sh!AtHead(line, i) THEN NumTag(Session, clients[id].base + Sh!Counted(line, i))
         ELSE OrdTag(typed, i)
Aims == IF To # 0 THEN UserTag(id, IF To \in DOMAIN clients THEN clients[To].session ELSE 0)
        ELSE IF Sh!M(i).k = "ord" THEN OrdTag(typed, i + 1)
        ELSE IF Sh!IsNum(Sh!M(i))
             THEN NumTag(Session, clients[id].base + Sh!Counted(line, i) + Sh!M(i).n)
        ELSE NoTag

KeptRd(q) == Open(q) \ {Out(q)}
KeptWrUser(q) == Open(q) \ {Sh!In(q)}
KeptWr(q) == Open(q) \ {In(q)}

Child(q) ==
  LET g == line.cmds[i]
  IN  [st |-> "run", prog |-> g, in |-> In(q), out |-> Out(q),
       err |-> IF Sh!M(i).k = "both" THEN Out(q) ELSE Tty,
       rd |-> KeptRd(q), wr |-> KeptWr(q),
       left |-> IF g \in Missing THEN 1 ELSE Emit[g], env |-> environ,
       takes |-> Takes, to |-> Aims, own |-> clients[id].own]

\* The user's tables after the iteration, q being the new pipe.
Served(q) ==
  [clients[id] EXCEPT
     !.pipes = IF Sh!FromNum(q) THEN Drop(Sh!Made(q), clients[id].lineIdx) ELSE Sh!Made(q),
     !.ordinary_pipes = IF Sh!FromOrd THEN Tail(Sh!Queue(q)) ELSE Sh!Queue(q),
     !.recvMessages = IF Receives THEN Drop(@, From) ELSE @,
     !.lineIdx = IF i < Len(line.cmds) /\ Sh!IsNum(Sh!M(i)) THEN @ + 1 ELSE @]

Mine(q) == [clients EXCEPT ![id] = Served(q)]
AfterSwapped(q) == IF Sends THEN [Mine(q) EXCEPT ![id].recvMessages = Put(@, To, q)] ELSE Mine(q)
After(q) == IF Sends THEN [Mine(q) EXCEPT ![To].recvMessages = Put(@, id, q)] ELSE Mine(q)

ForkCmd ==
  /\ pc = "loop" /\ Undisturbed
  /\ \E p \in Lowest(FreePids), q \in Fresh :
       /\ kid' = [kid EXCEPT ![p] = Child(q)]
       /\ clients' = After(q)
       /\ IF q = Tty THEN UNCHANGED <<buf, meant>>
          ELSE buf' = [buf EXCEPT ![q] = 0] /\ meant' = [meant EXCEPT ![q] = Aims]
       /\ lastWaitChild' = IF Sh!Awaited THEN p ELSE lastWaitChild
  /\ i' = Sh!NextI
  /\ pc' = IF Sh!NextI > Len(line.cmds) THEN "wait" ELSE "loop"
  /\ UNCHANGED <<tables, rfds, halves, id, line, environ, signals, leaked, typed>>

\* fork fails at the process limit: wait for any child, then try again.
ForkRetry ==
  /\ pc = "loop" /\ ~inHandler /\ FreePids = {}
  /\ \E p \in Zombies : Reap(p)
  /\ UNCHANGED <<unmoved, signals, buf>>

WaitLast ==
  /\ pc = "wait" /\ ~inHandler
  /\ IF lastWaitChild = 0 THEN kid' = kid
     ELSE lastWaitChild \notin Running /\ Reap(lastWaitChild)
  /\ clients' = [clients EXCEPT ![id].lineIdx = @ + 1, ![id].base = @ + Sh!CountOf(line)]
  /\ pc' = IF rfds = {} THEN "select" ELSE "serve"
  /\ id' = 0 /\ line' = Sh!NoLine /\ i' = 0 /\ lastWaitChild' = 0
  /\ UNCHANGED <<tables, rfds, halves, environ, signals, buf, leaked, typed, meant>>

-----------------------------------------------------------------------------
Init ==
  /\ pc = "select" /\ rfds = {} /\ halves = {} /\ afds = {} /\ nfds = Listen + 1
  /\ tickets = [n \in Id |-> 1] /\ clients = NoClients /\ fd_table = NoClients
  /\ environ = InitEnv /\ id = 0 /\ line = Sh!NoLine /\ i = 0 /\ lastWaitChild = 0
  /\ sigchld = FALSE /\ inHandler = FALSE
  /\ kid = [p \in Pid |-> Gone("free")] /\ buf = [q \in Pipe |-> 0]
  /\ leaked = {} /\ sessions = 0 /\ typed = 0 /\ meant = [q \in Pipe |-> NoTag]

shell_service(f, n) == Blank(f, n) \/ Inform(f, n) \/ setenv(f, n) \/ rename(f, n)
                       \/ logout(f, n) \/ Command(f, n)

Scan == Accept \/ \E f \in Fd, n \in Id : shell_service(f, n)
Loop == ForkCmd \/ ForkRetry \/ WaitLast
Handler == HandlerEnter \/ HandlerReap
Kids == \E p \in Pid : KidStep(p)

\* Nobody types and nobody connects.
Quiet == pc = "select" /\ Undisturbed /\ UNCHANGED vars

Next == Select \/ EndLine \/ Scan \/ Loop \/ Handler \/ Kids \/ Quiet

\* What select reported is there to be read; nothing makes a user type, or end a line.
Fairness == /\ WF_vars(Scan) /\ WF_vars(Loop) /\ WF_vars(Handler)
            /\ \A p \in Pid : WF_vars(KidStep(p))

Spec == Init /\ [][Next]_vars
FairSpec == Spec /\ Fairness

-----------------------------------------------------------------------------
(* Properties.                                                             *)

IsClient(c) ==
  /\ c \in [name : Name \cup {NoName}, fd : Fd, lineIdx : Nat,
            pipes : [DOMAIN c.pipes -> Pipe], ordinary_pipes : Seq(Pipe),
            recvMessages : [DOMAIN c.recvMessages -> Pipe], envs : Env,
            session : Nat, base : Nat, own : Env]
  /\ DOMAIN c.pipes \subseteq Nat /\ DOMAIN c.recvMessages \subseteq Id

\* Every variable has its type (the globals of np_single_proc.cpp and the children).
TypeOK ==
  /\ pc \in {"select", "serve", "loop", "wait"}
  /\ rfds \subseteq Fd \cup {Listen} /\ halves \subseteq Fd /\ afds \subseteq Fd /\ nfds \in Nat
  /\ tickets \in [Id -> Nat] /\ fd_table \in [DOMAIN fd_table -> Id]
  /\ environ \in Env /\ id \in Id \cup {0} /\ line \in Lines \cup {Sh!NoLine}
  /\ i \in Nat /\ lastWaitChild \in Pid \cup {0}
  /\ sigchld \in BOOLEAN /\ inHandler \in BOOLEAN
  /\ kid \in [Pid -> Kid] /\ buf \in [Pipe -> 0 .. Cap] /\ leaked \subseteq Pipe
  /\ sessions \in Nat /\ typed \in Nat /\ meant \in [Pipe -> Tag]
  /\ DOMAIN clients \subseteq Id
  /\ \A n \in DOMAIN clients : IsClient(clients[n])

(* The five places that record who is online agree: a number is in the     *)
(* heap once or in clients, a watched descriptor leads to the user whose   *)
(* connection it is, select's range reaches it, and what the scan of rfds  *)
(* has yet to reach is still watched.                                      *)
Registered ==
  /\ \A n \in Id : tickets[n] = IF n \in DOMAIN clients THEN 0 ELSE 1
  /\ afds = DOMAIN fd_table
  /\ \A f \in afds : f < nfds /\ fd_table[f] \in DOMAIN clients
  /\ \A n \in DOMAIN clients : clients[n].fd \in afds /\ fd_table[clients[n].fd] = n
  /\ \A f \in afds : clients[fd_table[f]].fd = f
  /\ rfds \subseteq afds \cup {Listen}

\* Users online have different names, save those who have none (rename's collision test).
NamesUnique ==
  \A n, m \in DOMAIN clients :
    n # m /\ clients[n].name = clients[m].name => clients[n].name = NoName

(* A command runs in the environment its own user set since logging in,    *)
(* although all users share the server's environ (shell_service's start).  *)
EnvIsOwn == \A p \in Running : kid[p].env = kid[p].own

(* Whatever a command reads from a pipe was meant for that command of that *)
(* session: ordinary and numbered pipes never cross users, and a user pipe *)
(* is read by the user it was sent to, from the number it was sent from.   *)
RoutedAsMeant ==
  \A p \in Running :
    /\ kid[p].in \in Pipe => meant[kid[p].in] = kid[p].takes
    /\ kid[p].out \in Pipe => meant[kid[p].out] = kid[p].to

(* A reader's end of file does not wait for the server, for the reader     *)
(* itself or for another reader that waits for it in turn, whoever's       *)
(* commands they are: children inherit the pipes of all users.             *)
EofIsReachable ==
  \A r \in Running : kid[r].in \in Pipe =>
    /\ kid[r].in \notin ServerOpen
    /\ kid[r].in \notin kid[r].wr
    /\ \A w \in Running : ~(kid[r].in \in kid[w].wr /\ kid[w].in \in kid[r].wr)

\* Numbers and names behave as Registry promises, whatever else users do.
online == [n \in DOMAIN clients |-> clients[n].name]
Reg == INSTANCE Registry WITH user <- online
ImplementsRegistry == Reg!Spec

(* The server always comes back to select, for all users' sake.  Two       *)
(* things in the code can keep it away, both for as long as they last: a   *)
(* user who has typed half a line, and a command that fills a pipe whose   *)
(* reader is still to be typed, as a user pipe always is.                  *)
HalfLine == pc = "serve" /\ AtHand \cap halves # {}
Overfull ==
  /\ pc = "wait" \/ (inHandler /\ Zombies = {})
  /\ \E p \in Running : /\ kid[p].left > 0 /\ Sink(p) \in ServerOpen /\ buf[Sink(p)] = Cap

ServerReturns ==
  (pc # "select" \/ inHandler) ~> (pc = "select" /\ Undisturbed) \/ HalfLine \/ Overfull

(* A user pipe belongs to two users who are both still online: "If you     *)
(* disconnect from the server, all user pipe about you (send or receive)   *)
(* should be closed."                                                      *)
UserPipesClosed ==
  \A n \in DOMAIN clients : \A m \in DOMAIN clients[n].recvMessages : m \in DOMAIN clients
=============================================================================
