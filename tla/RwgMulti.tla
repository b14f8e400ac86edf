------------------------------- MODULE RwgMulti -------------------------------
(***************************************************************************)
(* np_multi_proc (src/311552007_np_project2/np_multi_proc.cpp): the remote *)
(* working ground with a process per user.  Sessions share memory without  *)
(* a lock, announce by SIGUSR1 that there is a message in it, and pipe to  *)
(* each other through FIFOs, which SIGUSR2 makes the receiver open.        *)
(*                                                                         *)
(* The commands of a line are one command here, with its `<from' and       *)
(* `>to': other pipes stay within the session and are those of NpShell.    *)
(***************************************************************************)
EXTENDS Integers, Sequences

CONSTANTS
  Id,           \* user numbers, 1 to MAX_CLIENT_NUM
  Name, NoName, \* names a user may type, and "(no name)"
  Blank,        \* the zeroes a row holds before its first user
  Lines,        \* commands: `<from' and `>to' (0 if absent), the size of what they write
                \* of their own, and whether they read (and pass on) their input
  Far,          \* numbers a user may type that are past the end of pid_table
  Cap,          \* units that a FIFO holds
  Together,     \* what users do while others are busy: some of "connect", "talk", "name"
  MaxSessions,  \* bound: connections in one behaviour
  MaxLines      \* bound: lines typed in one behaviour

None == 0 \* -1 in pid_table
Session == 1 .. MaxSessions \* processes, in the order main forks them

(* Users do not run commands at the same time, nor leave while others are  *)
(* busy, as the project's rules have it; and no command reads the keyboard.*)
ASSUME MultiAssumption ==
  /\ Id \subseteq Nat \ {0} /\ Far \subseteq Nat \ Id /\ Cap \in Nat \ {0}
  /\ MaxSessions \in Nat /\ MaxLines \in Nat
  /\ Together \subseteq {"connect", "talk", "name"}
  /\ NoName \notin Name /\ Blank \notin Name /\ Blank # NoName
  /\ Lines \subseteq [from : Id \cup {0}, to : Id \cup {0}, size : Nat, filter : BOOLEAN]
  /\ \A l \in Lines : l.filter => l.from # 0

VARIABLES
  up,          \* does main run?
  pid_table,   \* number -> session, or None
  clients,     \* number -> name, and the numbers whose isFifoExists is set
  sender,      \* number whose FIFO SIGUSR2 is about
  made,        \* FIFOs that exist as files: they stay until the server ends
  pc,          \* session: "none", "born" (forked), "row" (in pid_table), "greet" (tells the
               \* others), "prompt", "name", "talk", "leave", "pipe", "wait" (waitpid), "gone"
  num,         \* session -> user_id
  todo,        \* session -> numbers it has yet to send SIGUSR1 to
  wants,       \* session -> the name that it has found free
  usr1, usr2,  \* pending signals
  opening,     \* the number whose FIFO openForRead is blocked on, or 0
  recvFds,     \* session -> numbers whose FIFO it has opened
  kid,         \* session -> its command
  fifo,        \* <<from, to>> -> what is in the FIFO
  sessions, typed, \* connections so far, lines so far
  unheard,     \* ghost: sessions meant to print what recvMessage holds, which have yet to
  due,         \* ghost: what has been written for a user pipe that no command has received
  spoilt       \* ghost: user pipes received by a command that has not read them to the end

shared == <<pid_table, clients, sender, made>>
loops == <<todo, wants>>
signals == <<usr1, usr2, opening, recvFds>>
files == <<fifo, due, spoilt>>
vars == <<up, shared, pc, num, loops, signals, kid, files, sessions, typed, unheard>>

Tty == 0
Null == -1
NoKid == [st |-> "none", in |-> Tty, to |-> 0, left |-> 0, filter |-> FALSE, me |-> 0,
          expects |-> <<>>, clean |-> TRUE, got |-> <<>>]

-----------------------------------------------------------------------------
(* Signals and shared memory.                                              *)

Live == {"greet", "prompt", "name", "talk", "leave", "pipe", "wait"}
Fifo == Id \X Id
mine(s) == pid_table[num[s]]

\* The handlers are in place once a session is live; before that, a signal ends it.
Raised(u, S) == [t \in Session |-> u[t] \/ (t \in S /\ pc[t] \in Live)]
Struck(S) == [t \in Session |-> IF t \in S /\ pc[t] \in {"born", "row"} THEN "gone" ELSE pc[t]]

\* A handler runs before its session takes another step of its own.
AtRest(s) == ~usr1[s] /\ ~usr2[s] /\ opening[s] = 0

\* Mutant: the loop ends one too early.
RowsFewer(s) == {n \in Id \ {num[s]} : \E m \in Id : n < m}
Rows(s) == Id \ {num[s]}
Others(s) == {pid_table[n] : n \in Id \ {num[s]}} \ {None}

\* A message is written into the one buffer; the signals are yet to be sent.
announce(s) == todo' = [todo EXCEPT ![s] = Rows(s)] /\ unheard' = Others(s)

\* The next row is looked at, and whoever it holds sent SIGUSR1.
Look(s) ==
  \E n \in todo[s] \ Far :
    LET S == {pid_table[n]} \ {None}
    IN  /\ AtRest(s) /\ \A m \in todo[s] : n <= m
        /\ todo' = [todo EXCEPT ![s] = @ \ {n}]
        /\ usr1' = Raised(usr1, S) /\ pc' = Struck(S)
        /\ UNCHANGED <<up, shared, num, wants, usr2, opening, recvFds, kid, files, sessions,
                       typed, unheard>>

(* Past the end of pid_table the page is zero, not -1: kill(0) signals the *)
(* whole group.  Main has no handler, nor have programs, once they run.    *)
LookPast(s) ==
  \E n \in todo[s] \cap Far, K \in SUBSET {t \in Session : kid[t].st = "run"} :
    /\ AtRest(s) /\ todo' = [todo EXCEPT ![s] = @ \ {n}] /\ up' = FALSE
    /\ usr1' = Raised(usr1, Session) /\ pc' = Struck(Session)
    /\ kid' = [t \in Session |-> IF t \in K THEN [kid[t] EXCEPT !.st = "killed"] ELSE kid[t]]
    /\ spoilt' = spoilt \cup (Fifo \cap {<<kid[t].in, num[t]>> : t \in K})
    /\ UNCHANGED <<shared, num, wants, usr2, opening, recvFds, fifo, due, sessions, typed, unheard>>

\* Back at the prompt.
Said(s) ==
  /\ pc[s] \in {"greet", "talk"} /\ todo[s] = {} /\ AtRest(s)
  /\ pc' = [pc EXCEPT ![s] = "prompt"]
  /\ UNCHANGED <<up, shared, num, loops, signals, kid, files, sessions, typed, unheard>>

broadcast(s) ==
  /\ usr1[s] /\ usr1' = [usr1 EXCEPT ![s] = FALSE]
  /\ unheard' = unheard \ {s}
  /\ UNCHANGED <<up, shared, pc, num, loops, usr2, opening, recvFds, kid, files, sessions, typed>>

Writing(f, t) == \E s \in Session : num[s] = f /\ kid[s].st = "run" /\ kid[s].to = t
HasOpen(t, f) == pc[t] \in Live /\ f \in recvFds[t]
Waits(t, f) == pc[t] \in Live /\ opening[t] = f

(* open blocks until a writer comes; a writer that came and left is not    *)
(* waited for.  Meanwhile the sender may be another one, who has never     *)
(* piped to this number: then there is no such file, and open fails.       *)
openForRead(s) ==
  /\ usr2[s] /\ opening[s] = 0
  /\ usr2' = [usr2 EXCEPT ![s] = FALSE]
  /\ CASE <<sender, num[s]>> \notin made -> UNCHANGED <<recvFds, opening>>
       [] <<sender, num[s]>> \in made /\ Writing(sender, num[s]) ->
            recvFds' = [recvFds EXCEPT ![s] = @ \cup {sender}] /\ opening' = opening
       [] OTHER -> opening' = [opening EXCEPT ![s] = sender] /\ recvFds' = recvFds
  /\ UNCHANGED <<up, shared, pc, num, loops, usr1, kid, files, sessions, typed, unheard>>

-----------------------------------------------------------------------------
(* Connections.  Users wait for each other, but for what they do Together. *)

Idle == {"none", "prompt", "gone"}
Apart(s, what) == what \in Together \/ \A t \in Session \ {s} : pc[t] \in Idle
NoCommand == \A s \in Session : pc[s] \notin {"pipe", "wait"}

freeRows == {n \in Id : pid_table[n] = None}
drawTicketAny == Id
drawTicketOff == {n + 1 : n \in {k \in freeRows : \A m \in freeRows : m <= k}}
drawTicket == {n \in freeRows : \A m \in freeRows : n <= m}

\* main: accept, draw a number and fork the session.
Connect ==
  /\ up /\ sessions < MaxSessions /\ sessions' = sessions + 1
  /\ Apart(sessions', "connect") /\ pc' = [pc EXCEPT ![sessions'] = "born"]
  /\ \E n \in drawTicket : num' = [num EXCEPT ![sessions'] = n]
  /\ UNCHANGED <<up, shared, loops, signals, kid, files, typed, unheard>>

\* Mutant: the row keeps the flags of the user before.
rowKept(s) == [name |-> NoName, fifos |-> clients[num[s]].fifos]
newRow(s) == [name |-> NoName, fifos |-> {}]

\* The session's row is filled in and its process entered in pid_table ...
LoginRow(s) ==
  /\ pc[s] = "born" /\ pc' = [pc EXCEPT ![s] = "row"]
  /\ clients' = [clients EXCEPT ![num[s]] = newRow(s)]
  /\ pid_table' = [pid_table EXCEPT ![num[s]] = s]
  /\ due' = [p \in Fifo |-> IF p[2] = num[s] THEN <<>> ELSE due[p]]
  /\ spoilt' = {p \in spoilt : p[2] # num[s]}
  /\ UNCHANGED <<up, sender, made, num, loops, signals, kid, fifo, sessions, typed, unheard>>

\* ... and only then are the handlers installed, and the others told.
LoginTell(s) ==
  /\ pc[s] = "row" /\ pc' = [pc EXCEPT ![s] = "greet"] /\ announce(s)
  /\ UNCHANGED <<up, shared, num, wants, signals, kid, files, sessions, typed>>

\* FIFOs whose last reader is s lose what is in them.
Closed(s) == [p \in Fifo |->
  IF p[2] = num[s] /\ \A t \in Session \ {s} : num[t] = num[s] => ~HasOpen(t, p[1])
  THEN <<>> ELSE fifo[p]]

-----------------------------------------------------------------------------
(* The lines a user types.                                                 *)

Types(s, what) ==
  /\ pc[s] = "prompt" /\ AtRest(s) /\ Apart(s, what) /\ typed < MaxLines /\ typed' = typed + 1
  /\ UNCHANGED <<up, pid_table, sender, made, num, signals, sessions>>

Goes(s, where) == pc' = [pc EXCEPT ![s] = where]

\* A blank line ends the session: shell_service returns, and main after it.
EmptyLine(s) ==
  /\ Types(s, "leave") /\ Goes(s, "gone") /\ fifo' = Closed(s)
  /\ UNCHANGED <<clients, loops, kid, due, spoilt, unheard>>

logout(s) == Types(s, "leave") /\ Goes(s, "leave") /\ announce(s)
             /\ UNCHANGED <<clients, wants, kid, files>>

returnTicket(s) == [pid_table EXCEPT ![num[s]] = None]
Leaves(s) ==
  /\ pc[s] = "leave" /\ todo[s] = {} /\ AtRest(s)
  /\ pid_table' = returnTicket(s) /\ Goes(s, "gone") /\ fifo' = Closed(s)
  /\ UNCHANGED <<up, clients, sender, made, num, loops, signals, kid, due, spoilt, sessions,
                 typed, unheard>>

tell(s) ==
  \E n \in Id \cup Far :
    /\ Types(s, "talk") /\ Goes(s, "talk")
    /\ todo' = [todo EXCEPT ![s] = {n}]
    /\ unheard' = IF n \in Id THEN {pid_table[n]} \ {None} ELSE {}
    /\ UNCHANGED <<clients, wants, kid, files>>

yell(s) == Types(s, "talk") /\ Goes(s, "talk") /\ announce(s)
           /\ UNCHANGED <<clients, wants, kid, files>>

\* Every row counts, those of users who have left too.
collisionSelf(s, nm) == clients[num[s]].name = nm
collision(s, nm) == \E n \in Id : clients[n].name = nm
rename(s) ==
  \E nm \in Name :
    /\ Types(s, "name")
    /\ IF collision(s, nm) THEN UNCHANGED <<pc, wants>>
       ELSE Goes(s, "name") /\ wants' = [wants EXCEPT ![s] = nm]
    /\ UNCHANGED <<clients, todo, kid, files, unheard>>

\* The name is copied some time after it has been found free.
Renames(s) ==
  /\ pc[s] = "name" /\ AtRest(s) /\ Goes(s, "talk") /\ announce(s)
  /\ clients' = [clients EXCEPT ![num[s]].name = wants[s]]
  /\ wants' = [wants EXCEPT ![s] = NoName]
  /\ UNCHANGED <<up, pid_table, sender, made, num, signals, kid, files, sessions, typed>>

-----------------------------------------------------------------------------
(* A command and its user pipes.                                           *)

Receives(s, l) == l.from # 0 /\ pid_table[l.from] # None /\ l.from \in clients[num[s]].fifos
Taken(s, l) == IF Receives(s, l) THEN [clients EXCEPT ![num[s]].fifos = @ \ {l.from}] ELSE clients
Sends(s, l) == l.to # 0 /\ pid_table[l.to] # None /\ num[s] \notin Taken(s, l)[l.to].fifos

\* shell_service up to the announcement of the line's user pipes; what fails leads to null_fd.
Command(s) ==
  \E l \in Lines :
    LET n == num[s]
        p == <<l.from, n>>
    IN  /\ Types(s, "command") /\ Goes(s, "pipe")
        /\ clients' = IF Sends(s, l) THEN [Taken(s, l) EXCEPT ![l.to].fifos = @ \cup {n}]
                      ELSE Taken(s, l)
        /\ IF Receives(s, l) \/ Sends(s, l) THEN announce(s) ELSE UNCHANGED <<todo, unheard>>
        /\ kid' = [kid EXCEPT ![s] =
             [st |-> "fork", in |-> IF l.from # 0 /\ ~Receives(s, l) THEN Null ELSE l.from,
              to |-> IF Sends(s, l) THEN l.to ELSE 0,
              left |-> l.size, filter |-> l.filter, me |-> typed',
              expects |-> IF Receives(s, l) THEN due[p] ELSE <<>>, clean |-> p \notin spoilt,
              got |-> <<>>]]
        /\ IF Receives(s, l)
           THEN /\ due' = [due EXCEPT ![p] = <<>>]
                /\ spoilt' = IF l.filter THEN spoilt \ {p} ELSE spoilt \cup {p}
           ELSE UNCHANGED <<due, spoilt>>
        /\ UNCHANGED <<wants, fifo>>

\* The child has a copy of recvFds; a FIFO not in it leaves it with the user's socket.
Fork(s) ==
  /\ pc[s] = "pipe" /\ todo[s] = {} /\ AtRest(s) /\ Goes(s, "wait")
  /\ kid' = [kid EXCEPT ![s].st = IF kid[s].to = 0 THEN "run" ELSE "send",
                        ![s].in = IF @ \in Id \ recvFds[s] THEN Tty ELSE @]
  /\ UNCHANGED <<up, shared, num, loops, signals, files, sessions, typed, unheard>>

still == <<up, pid_table, clients, num, loops, sessions, typed, unheard>>

\* mknod, then whose FIFO it is, then SIGUSR2.
receiverSelf(s) == pid_table[num[s]]
receiver(s) == pid_table[kid[s].to]
KidSignal(s) ==
  /\ kid[s].st = "send" /\ kid' = [kid EXCEPT ![s].st = "open"]
  /\ sender' = num[s] /\ made' = made \cup {<<num[s], kid[s].to>>}
  /\ usr2' = Raised(usr2, {receiver(s)}) /\ pc' = Struck({receiver(s)})
  /\ UNCHANGED <<still, usr1, opening, recvFds, files>>

\* open for writing waits for a reader and ends a reader's wait.
KidOpen(s) ==
  LET Woken == {t \in Session : num[t] = kid[s].to /\ Waits(t, num[s])}
  IN  /\ kid[s].st = "open"
      /\ \E t \in Session : num[t] = kid[s].to /\ (HasOpen(t, num[s]) \/ t \in Woken)
      /\ kid' = [kid EXCEPT ![s].st = "run"]
      /\ opening' = [t \in Session |-> IF t \in Woken THEN 0 ELSE opening[t]]
      /\ recvFds' = [t \in Session |-> IF t \in Woken THEN recvFds[t] \cup {num[s]} ELSE recvFds[t]]
      /\ UNCHANGED <<still, pc, sender, made, usr1, usr2, files>>

fifoSwapped(s) == <<num[s], kid[s].in>>
fifoName(s) == <<kid[s].in, num[s]>>

KidRead(s) ==
  /\ kid[s].st = "run" /\ kid[s].filter /\ kid[s].in \in Id /\ fifo[fifoName(s)] # <<>>
  /\ kid' = [kid EXCEPT ![s].got = Append(@, Head(fifo[fifoName(s)])), ![s].left = @ + 1]
  /\ fifo' = [fifo EXCEPT ![fifoName(s)] = Tail(@)]
  /\ UNCHANGED <<still, pc, sender, made, signals, due, spoilt>>

(* A full FIFO makes the writer wait.  It is never without a reader: the   *)
(* receiver does not leave during the command.                             *)
KidWrite(s) ==
  LET p == <<num[s], kid[s].to>>
  IN  /\ kid[s].st = "run" /\ kid[s].left > 0
      /\ kid' = [kid EXCEPT ![s].left = @ - 1]
      /\ IF kid[s].to = 0 THEN UNCHANGED <<fifo, due>>
         ELSE /\ Len(fifo[p]) < Cap
              /\ fifo' = [fifo EXCEPT ![p] = Append(@, kid[s].me)]
              /\ due' = [due EXCEPT ![p] = Append(@, kid[s].me)]
      /\ UNCHANGED <<still, pc, sender, made, signals, spoilt>>

AtEof(s) == \/ kid[s].in = Null
            \/ kid[s].in \in Id /\ fifo[fifoName(s)] = <<>> /\ ~Writing(kid[s].in, num[s])
KidExit(s) ==
  /\ kid[s].st = "run" /\ kid[s].left = 0 /\ (kid[s].filter => AtEof(s))
  /\ kid' = [kid EXCEPT ![s].st = "done"]
  /\ UNCHANGED <<still, pc, sender, made, signals, files>>

WaitKid(s) ==
  /\ pc[s] = "wait" /\ AtRest(s) /\ kid[s].st \in {"done", "killed"}
  /\ Goes(s, "prompt") /\ kid' = [kid EXCEPT ![s] = NoKid]
  /\ UNCHANGED <<still, sender, made, signals, files>>

-----------------------------------------------------------------------------
Init ==
  /\ pid_table = [n \in Id |-> None]
  /\ clients = [n \in Id |-> [name |-> Blank, fifos |-> {}]]
  /\ up = TRUE /\ sender = 0 /\ made = {}
  /\ pc = [s \in Session |-> "none"] /\ num = [s \in Session |-> 0]
  /\ todo = [s \in Session |-> {}] /\ wants = [s \in Session |-> NoName]
  /\ usr1 = [s \in Session |-> FALSE] /\ usr2 = [s \in Session |-> FALSE]
  /\ opening = [s \in Session |-> 0] /\ recvFds = [s \in Session |-> {}]
  /\ kid = [s \in Session |-> NoKid] /\ fifo = [p \in Fifo |-> <<>>]
  /\ sessions = 0 /\ typed = 0
  /\ unheard = {} /\ due = [p \in Fifo |-> <<>>] /\ spoilt = {}

login(s) == LoginRow(s) \/ LoginTell(s)
Builtin(s) == tell(s) \/ yell(s) \/ rename(s) \/ logout(s) \/ EmptyLine(s)
GoesOn(s) == Look(s) \/ LookPast(s) \/ Said(s) \/ Renames(s) \/ Leaves(s) \/ Fork(s) \/ WaitKid(s)
KidStep(s) == KidSignal(s) \/ KidOpen(s) \/ KidRead(s) \/ KidWrite(s) \/ KidExit(s)

Next == Connect \/ \E s \in Session :
          \/ login(s) \/ Builtin(s) \/ Command(s) \/ GoesOn(s)
          \/ broadcast(s) \/ openForRead(s) \/ KidStep(s)

(* What processes can do they do at last, and fork succeeds in the end;    *)
(* nothing makes users connect or type.                                    *)
Fairness == \A s \in Session :
  WF_vars(login(s)) /\ WF_vars(GoesOn(s)) /\ WF_vars(broadcast(s)) /\ WF_vars(openForRead(s))
  /\ WF_vars(KidStep(s))

Spec == Init /\ [][Next]_vars
FairSpec == Spec /\ Fairness

-----------------------------------------------------------------------------
(* Properties.                                                             *)

Child == [st : {"none", "fork", "send", "open", "run", "done", "killed"},
          in : Id \cup {Tty, Null}, to : Id \cup {0}, left : Nat, filter : BOOLEAN, me : Nat,
          expects : Seq(Nat), clean : BOOLEAN, got : Seq(Nat)]

\* Every variable has its type (the shared memory, the sessions and the FIFOs).
TypeOK ==
  /\ pid_table \in [Id -> Session \cup {None}]
  /\ clients \in [Id -> [name : Name \cup {NoName, Blank}, fifos : SUBSET Id]]
  /\ up \in BOOLEAN /\ sender \in Id \cup {0} /\ made \subseteq Fifo
  /\ pc \in [Session -> Live \cup {"none", "born", "row", "gone"}]
  /\ num \in [Session -> Id \cup {0}]
  /\ todo \in [Session -> SUBSET (Id \cup Far)] /\ wants \in [Session -> Name \cup {NoName}]
  /\ usr1 \in [Session -> BOOLEAN] /\ usr2 \in [Session -> BOOLEAN]
  /\ opening \in [Session -> Id \cup {0}] /\ recvFds \in [Session -> SUBSET Id]
  /\ kid \in [Session -> Child] /\ fifo \in [Fifo -> Seq(Nat)]
  /\ sessions \in 0 .. MaxSessions /\ typed \in 0 .. MaxLines
  /\ unheard \subseteq Session /\ due \in [Fifo -> Seq(Nat)] /\ spoilt \subseteq Fifo

(* No two sessions have one number: the row of a session's number leads to *)
(* that session, though main draws the number and the session fills the    *)
(* row in.                                                                 *)
RowIsOwn == \A s \in Session : pc[s] \in Live \cup {"row"} => mine(s) = s

\* Numbers and names behave as Registry promises.
online == [n \in {m \in Id : pid_table[m] # None} |-> clients[n].name]
Reg == INSTANCE Registry WITH user <- online
ImplementsRegistry == Reg!Spec

(* Between commands, isFifoExists says of every user what the kernel has:  *)
(* a flag means that the session has the FIFO open, no flag that there is  *)
(* nothing left to receive; and unless an earlier command received from    *)
(* the FIFO and did not read it, what is due is in it and nothing else.    *)
PipesAsFlagged ==
  NoCommand =>
    \A t \in Session : pc[t] \in Live =>
      \A f \in Id :
        LET p == <<f, num[t]>>
        IN  /\ IF f \in clients[num[t]].fifos THEN f \in recvFds[t] ELSE due[p] = <<>>
            /\ p \notin spoilt => fifo[p] = due[p]

(* A command that receives and reads its input has read, when it ends, all *)
(* that was announced to its user and nothing else, however often numbers  *)
(* and FIFOs have been used before; unless an earlier receiver did not     *)
(* read: what was piped to that one is then still in the FIFO.             *)
Delivered ==
  \A s \in Session :
    kid[s].st = "done" /\ kid[s].in \in Id /\ kid[s].filter /\ kid[s].clean =>
      kid[s].got = kid[s].expects

(* The handler of t waits for a writer other than f: one that had written *)
(* and left before the handler ran, or one that piped to somebody else.    *)
Misled(t, f) == opening[t] \notin {0, f}

\* A command that receives from its own user and sends to it reads what it writes, for ever.
Turning(s) == kid[s].in = num[s] /\ kid[s].to = num[s]

\* A command has more to write than the FIFO holds, and its receiver waits until it is done.
Brimming(s) == kid[s].st = "run" /\ kid[s].left > 0 /\ kid[s].to # 0
               /\ Len(fifo[<<num[s], kid[s].to>>]) = Cap

(* What may keep a command from its end: it reads what it writes, the FIFO *)
(* is full, a handler is Misled, its own or the receiver's, or the         *)
(* receiver's session has ended by a blank line or by a signal at login.   *)
Excused(s) ==
  \/ Turning(s) \/ Brimming(s)
  \/ kid[s].st \in {"done", "killed"} /\ Misled(s, 0)
  \/ kid[s].st = "open" /\ (pc[receiver(s)] = "gone" \/ Misled(receiver(s), num[s]))

\* A command comes to its end, and the prompt after it: nothing else stops a user.
Returns ==
  \A s \in Session : pc[s] \in {"pipe", "wait"} ~> pc[s] \notin {"pipe", "wait"} \/ Excused(s)

(* The last message of broadcast, tell or yell reaches everyone it is      *)
(* meant for: whoever has not printed it has its signal, or the loop of a  *)
(* session that goes on is yet to come to its row, though others announce  *)
(* at the same time, in the same buffer, and sessions come and go.         *)
LastHeard ==
  \A t \in unheard :
    pc[t] \in Live /\ mine(t) = t =>
      usr1[t] \/ \E s \in Session : pc[s] \in Live /\ num[t] \in todo[s]

(* A user can receive from a user pipe again and go on: the handler that   *)
(* opens the FIFO returns, as the scenario of the project needs, in which  *)
(* one user pipes to another twice.                                        *)
HandlerReturns == \A s \in Session : opening[s] # 0 ~> opening[s] = 0
=============================================================================
