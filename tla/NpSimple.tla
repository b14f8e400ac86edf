------------------------------ MODULE NpSimple ------------------------------
(***************************************************************************)
(* np_simple, project 2's first server: the npshell of project 1 behind a  *)
(* socket.  shell_service's loop is npshell's main word for word, which    *)
(* NpShell models; here a line only starts programs, in so far as the      *)
(* shell waits for one, collects them, or leaves them behind with the      *)
(* user's connection.  The subject is the server around the sessions: its  *)
(* accept loop and its reaper.                                             *)
(***************************************************************************)
EXTENDS Naturals, FiniteSets

CONSTANTS
  User,     \* users, each of whom logs in once
  Nobody,   \* none of them
  MaxLeft   \* programs that each session may leave running at a time

ASSUME SimpleAssumption == Nobody \notin User /\ MaxLeft \in [User -> Nat]

VARIABLES
  at, back,  \* the server: "accept", "fork" or in its "reaper", and where that returns
  chld,      \* is a SIGCHLD pending for the server?
  queued,    \* the user whose connection waits: listen's backlog of 0 admits one
  newsockfd, \* the user last accepted
  held,      \* users whose connection the server itself holds
  shell,     \* a session: "none", "reading", "waiting", "retry" (fork failed, it
             \* waits for a child), "handler", "zombie", "gone"
  resume,    \* where its handler returns
  last,      \* lastWaitChild: "none", "running", "zombie"
  left, dead,\* other programs of the session, running and not collected
  sig        \* is a SIGCHLD pending for the shell?

server == <<at, back, chld, queued, newsockfd, held>>
session == <<shell, resume, last, left, dead, sig>>
vars == <<server, session>>

Alive == {"reading", "waiting", "retry", "handler"}
Was(u, s) == shell' = [shell EXCEPT ![u] = s]

-----------------------------------------------------------------------------
(* The session of user u.                                                  *)

(* fork: of the program that the shell will wait for, or of one before it  *)
(* in the line, or in front of a numbered pipe, which it leaves behind; or *)
(* there is no child.                                                      *)
forkOne(u) ==
  \/ last' = [last EXCEPT ![u] = "running"] /\ Was(u, "waiting") /\ UNCHANGED left
  \/ /\ left' = [left EXCEPT ![u] = @ + 1] /\ left'[u] + dead'[u] <= MaxLeft[u]
     /\ Was(u, "reading") /\ UNCHANGED last
  \/ Was(u, "retry") /\ UNCHANGED <<last, left>>

\* A line that starts no program changes nothing here.
Line(u) == /\ shell[u] = "reading" /\ UNCHANGED dead /\ forkOne(u)
           /\ UNCHANGED <<server, resume, sig>>

\* wait takes a child that has ended; it fails if there is none, and blocks if all run.
Retry(u) ==
  /\ shell[u] = "retry"
  /\ \/ dead[u] > 0 /\ dead' = [dead EXCEPT ![u] = @ - 1]
     \/ left[u] + dead[u] = 0 /\ UNCHANGED dead
  /\ forkOne(u) /\ UNCHANGED <<server, resume, sig>>

\* "exit", or the user has gone: the process ends with what it holds.
Logout(u) ==
  /\ shell[u] = "reading" /\ Was(u, "zombie") /\ chld' = TRUE
  /\ dead' = [dead EXCEPT ![u] = 0] /\ sig' = [sig EXCEPT ![u] = FALSE]
  /\ last' = [last EXCEPT ![u] = "none"]
  /\ UNCHANGED <<at, back, queued, newsockfd, held, resume, left>>

LastEnds(u) ==
  /\ last[u] = "running" /\ last' = [last EXCEPT ![u] = "zombie"]
  /\ sig' = [sig EXCEPT ![u] = TRUE] /\ UNCHANGED <<server, shell, resume, left, dead>>

\* Mutant: a program that has ended still counts as running.
LeftEndsTwice(u) ==
  /\ left[u] > 0 /\ UNCHANGED left
  /\ dead' = [dead EXCEPT ![u] = @ + 1] /\ sig' = [sig EXCEPT ![u] = TRUE]
  /\ UNCHANGED <<server, shell, resume, last>>

LeftEnds(u) ==
  /\ left[u] > 0 /\ left' = [left EXCEPT ![u] = @ - 1]
  /\ IF shell[u] \in Alive
     THEN dead' = [dead EXCEPT ![u] = @ + 1] /\ sig' = [sig EXCEPT ![u] = TRUE]
     ELSE UNCHANGED <<dead, sig>>
  /\ UNCHANGED <<server, shell, resume, last>>

\* It returns as well if the handler has collected the child before it.
waitpid(u) ==
  /\ shell[u] = "waiting" /\ last[u] # "running" /\ Was(u, "reading")
  /\ last' = [last EXCEPT ![u] = "none"] /\ UNCHANGED <<server, resume, left, dead, sig>>

Signalled(u) ==
  /\ sig[u] /\ shell[u] \in Alive \ {"handler"} /\ Was(u, "handler")
  /\ resume' = [resume EXCEPT ![u] = shell[u]] /\ sig' = [sig EXCEPT ![u] = FALSE]
  /\ UNCHANGED <<server, last, left, dead>>

\* Any child that has ended; with none but running ones, it blocks.
signalHandler(u) ==
  /\ shell[u] = "handler" /\ Was(u, resume[u]) /\ resume' = [resume EXCEPT ![u] = "reading"]
  /\ \/ last[u] = "zombie" /\ last' = [last EXCEPT ![u] = "none"] /\ UNCHANGED dead
     \/ dead[u] > 0 /\ dead' = [dead EXCEPT ![u] = @ - 1] /\ UNCHANGED last
     \/ last[u] = "none" /\ left[u] + dead[u] = 0 /\ UNCHANGED <<last, dead>>
  /\ UNCHANGED <<server, left, sig>>

-----------------------------------------------------------------------------
(* The server.                                                             *)

Connect(u) ==
  /\ queued = Nobody /\ shell[u] = "none" /\ u \notin held \cup {newsockfd}
  /\ queued' = u /\ UNCHANGED <<at, back, chld, newsockfd, held, session>>

accept ==
  /\ at = "accept" /\ queued # Nobody /\ at' = "fork"
  /\ newsockfd' = queued /\ held' = held \cup {queued} /\ queued' = Nobody
  /\ UNCHANGED <<back, chld, session>>

\* Without a child there is neither a session nor a close.
fork ==
  /\ at = "fork" /\ at' = "accept"
  /\ \/ Was(newsockfd, "reading") /\ held' = held \ {newsockfd}
     \/ UNCHANGED <<shell, held>>
  /\ UNCHANGED <<back, chld, queued, newsockfd, resume, last, left, dead, sig>>

Interrupted ==
  /\ chld /\ at # "reaper" /\ at' = "reaper" /\ back' = at /\ chld' = FALSE
  /\ UNCHANGED <<queued, newsockfd, held, session>>

\* Mutant: one wait for each signal.
reaperOnce ==
  /\ at = "reaper" /\ at' = back
  /\ \E u \in User : shell[u] = "zombie" /\ Was(u, "gone")
  /\ UNCHANGED <<back, chld, queued, newsockfd, held, resume, last, left, dead, sig>>

\* Mutant: the handler goes round even when there is no child.
reaperForEver ==
  /\ at = "reaper" /\ UNCHANGED at
  /\ \E u \in User : shell[u] = "zombie" /\ Was(u, "gone")
  /\ UNCHANGED <<back, chld, queued, newsockfd, held, resume, last, left, dead, sig>>

(* wait3 with WNOHANG says 0 as long as there are children none of which   *)
(* has ended: the handler goes round until there is no child at all.       *)
reaper ==
  /\ at = "reaper"
  /\ \/ \E u \in User : shell[u] = "zombie" /\ Was(u, "gone") /\ UNCHANGED at
     \/ (\A u \in User : shell[u] \in {"none", "gone"}) /\ at' = back /\ UNCHANGED shell
  /\ UNCHANGED <<back, chld, queued, newsockfd, held, resume, last, left, dead, sig>>

-----------------------------------------------------------------------------
Init ==
  /\ at = "accept" /\ back = "accept" /\ chld = FALSE
  /\ queued = Nobody /\ newsockfd = Nobody /\ held = {}
  /\ shell = [u \in User |-> "none"] /\ resume = [u \in User |-> "reading"]
  /\ last = [u \in User |-> "none"] /\ left = [u \in User |-> 0]
  /\ dead = [u \in User |-> 0] /\ sig = [u \in User |-> FALSE]

Shell(u) == Retry(u) \/ waitpid(u) \/ Signalled(u) \/ signalHandler(u)
Server == accept \/ fork \/ Interrupted \/ reaper

Next ==
  \/ \E u \in User :
       Connect(u) \/ Line(u) \/ Logout(u) \/ LastEnds(u) \/ LeftEnds(u) \/ Shell(u)
  \/ Server

(* Processes run, and a program that a shell waits for ends.  Nobody need  *)
(* log out, nor a program that was left end: it may read from the user.    *)
Fairness ==
  /\ WF_vars(accept) /\ WF_vars(fork) /\ WF_vars(Interrupted) /\ WF_vars(reaper)
  /\ \A u \in User :
       WF_vars(Shell(u)) /\ WF_vars(LastEnds(u))

Spec == Init /\ [][Next]_vars
FairSpec == Spec /\ Fairness

-----------------------------------------------------------------------------
TypeOK ==
  /\ at \in {"accept", "fork", "reaper"} /\ back \in {"accept", "fork"} /\ chld \in BOOLEAN
  /\ queued \in User \cup {Nobody} /\ newsockfd \in User \cup {Nobody} /\ held \subseteq User
  /\ shell \in [User -> Alive \cup {"none", "zombie", "gone"}]
  /\ resume \in [User -> Alive \ {"handler"}]
  /\ last \in [User -> {"none", "running", "zombie"}]
  /\ left \in [User -> Nat] /\ dead \in [User -> Nat] /\ sig \in [User -> BOOLEAN]
  /\ \A u \in User : left[u] + dead[u] <= MaxLeft[u]

(* Sessions that end together raise one signal: whenever the server is at  *)
(* its work and no signal is pending, it has collected them all.           *)
Collected ==
  at # "reaper" /\ ~chld => \A u \in User : shell[u] # "zombie"

(* Whoever connects is accepted, unless the reaper waits for ever for      *)
(* somebody who stays logged in: "The next user should be able to login    *)
(* after the previous user logout", says the specification of project 2,   *)
(* and is right as long as there is one at a time.                         *)
NextServed ==
  \/ <>[](at = "reaper" /\ \E u \in User : shell[u] \in Alive)
  \/ \A u \in User : queued = u ~> queued # u
=============================================================================
