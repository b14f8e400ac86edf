---------------------------- MODULE NpSimple_proofs ----------------------------
(***************************************************************************)
(* What holds of np_simple for any number of users and of programs that    *)
(* their sessions leave running: no session that has ended is forgotten.   *)
(***************************************************************************)
EXTENDS NpSimple, TLAPS

IInv == TypeOK /\ Collected

-----------------------------------------------------------------------------
LEMMA InitInv == Init => IInv
<1> SUFFICES ASSUME Init PROVE IInv
  OBVIOUS
<1>1. TypeOK
  <2>1. \A u \in User : left[u] + dead[u] <= MaxLeft[u]
    <3> SUFFICES ASSUME NEW u \in User PROVE left[u] + dead[u] <= MaxLeft[u]
      OBVIOUS
    <3>1. left[u] = 0 /\ dead[u] = 0 /\ MaxLeft[u] \in Nat
      BY SimpleAssumption DEF Init
    <3> QED BY <3>1
  <2>2. /\ left \in [User -> Nat] /\ dead \in [User -> Nat] /\ sig \in [User -> BOOLEAN]
        /\ shell \in [User -> Alive \cup {"none", "zombie", "gone"}]
        /\ resume \in [User -> Alive \ {"handler"}]
        /\ last \in [User -> {"none", "running", "zombie"}]
    BY DEF Init, Alive
  <2> QED BY <2>1, <2>2 DEF Init, TypeOK
<1>2. Collected
  BY DEF Init, Collected
<1> QED BY <1>1, <1>2 DEF IInv

\* A program that ends moves from those that run to those that are to be collected.
LEMMA Moved ==
  ASSUME NEW m \in Nat, NEW a \in Nat, NEW b \in Nat, a + b <= m
  PROVE  /\ a > 0 => a - 1 \in Nat /\ b + 1 \in Nat /\ (a - 1) + (b + 1) <= m
                     /\ (a - 1) + b <= m
         /\ b > 0 => b - 1 \in Nat /\ a + (b - 1) <= m
         /\ a + b < m => a + 1 \in Nat /\ (a + 1) + b <= m
         /\ a + 0 <= m
  OBVIOUS

(* The steps of a session: none but Logout makes a zombie, and that one    *)
(* signals the server.                                                     *)
LEMMA SessionInv ==
  ASSUME IInv, NEW u \in User,
         Line(u) \/ Logout(u) \/ LastEnds(u) \/ LeftEnds(u) \/ Shell(u)
  PROVE  IInv'
<1>0. /\ shell \in [User -> Alive \cup {"none", "zombie", "gone"}]
      /\ resume \in [User -> Alive \ {"handler"}]
      /\ last \in [User -> {"none", "running", "zombie"}]
      /\ left \in [User -> Nat] /\ dead \in [User -> Nat] /\ sig \in [User -> BOOLEAN]
      /\ left[u] \in Nat /\ dead[u] \in Nat /\ MaxLeft[u] \in Nat /\ left[u] + dead[u] <= MaxLeft[u]
  BY SimpleAssumption DEF IInv, TypeOK
<1>1. /\ UNCHANGED <<at, back, queued, newsockfd, held>> /\ chld' \in BOOLEAN
      /\ chld => chld'
  BY DEF Line, forkOne, Logout, LastEnds, LeftEnds, Shell, Retry, waitpid, Signalled, signalHandler, server,
         IInv, TypeOK
<1>2. /\ shell' \in [User -> Alive \cup {"none", "zombie", "gone"}]
      /\ resume' \in [User -> Alive \ {"handler"}]
  BY <1>0 DEF Line, forkOne, Logout, LastEnds, LeftEnds, Shell, Retry, waitpid, Signalled,
     signalHandler, Was, Alive
<1>3. /\ last' \in [User -> {"none", "running", "zombie"}] /\ sig' \in [User -> BOOLEAN]
  BY <1>0 DEF Line, forkOne, Logout, LastEnds, LeftEnds, Shell, Retry, waitpid, Signalled, signalHandler
<1>4. /\ left' \in [User -> Nat] /\ dead' \in [User -> Nat]
      /\ left'[u] + dead'[u] <= MaxLeft[u]
      /\ \A v \in User : v # u => left'[v] = left[v] /\ dead'[v] = dead[v]
  <2>0. /\ left[u] > 0 => left[u] - 1 \in Nat /\ dead[u] + 1 \in Nat
                          /\ (left[u] - 1) + (dead[u] + 1) <= MaxLeft[u]
                          /\ (left[u] - 1) + dead[u] <= MaxLeft[u]
        /\ dead[u] > 0 => dead[u] - 1 \in Nat /\ left[u] + (dead[u] - 1) <= MaxLeft[u]
        /\ left[u] + dead[u] < MaxLeft[u] =>
             left[u] + 1 \in Nat /\ (left[u] + 1) + dead[u] <= MaxLeft[u]
        /\ left[u] + 0 <= MaxLeft[u]
    BY <1>0, Moved
  <2>1. CASE /\ left' = [left EXCEPT ![u] = @ + 1] /\ left'[u] + dead'[u] <= MaxLeft[u]
             /\ \/ dead' = dead
                \/ dead[u] > 0 /\ dead' = [dead EXCEPT ![u] = @ - 1]
    BY <1>0, <2>0, <2>1
  <2>2. CASE left' = left /\ dead' = [dead EXCEPT ![u] = 0]
    BY <1>0, <2>0, <2>2
  <2>3. CASE left[u] > 0 /\ left' = [left EXCEPT ![u] = @ - 1]
             /\ (dead' = [dead EXCEPT ![u] = @ + 1] \/ dead' = dead)
    BY <1>0, <2>0, <2>3
  <2>4. CASE left' = left /\ dead[u] > 0 /\ dead' = [dead EXCEPT ![u] = @ - 1]
    BY <1>0, <2>0, <2>4
  <2>5. CASE left' = left /\ dead' = dead
    BY <1>0, <2>5
  <2>6. CASE Line(u) \/ Retry(u)
    BY <2>1, <2>4, <2>5, <2>6 DEF Line, Retry, forkOne
  <2> QED
    BY <2>2, <2>3, <2>4, <2>5, <2>6 DEF Logout, LastEnds, LeftEnds, Shell, waitpid,
       Signalled, signalHandler
<1>5. \A v \in User : left'[v] + dead'[v] <= MaxLeft[v]
  BY <1>4 DEF IInv, TypeOK
<1>6. TypeOK'
  BY <1>1, <1>2, <1>3, <1>4, <1>5 DEF IInv, TypeOK
<1>7. chld' \/ \A v \in User : shell'[v] = "zombie" => shell[v] = "zombie"
  <2>1. CASE Logout(u)
    BY <2>1 DEF Logout
  <2>2. CASE Line(u) \/ LastEnds(u) \/ LeftEnds(u) \/ Shell(u)
    BY <1>0, <2>2 DEF Line, forkOne, LastEnds, LeftEnds, Shell, Retry, waitpid, Signalled,
       signalHandler, Was, Alive
  <2> QED BY <2>1, <2>2
<1>8. Collected'
  BY <1>1, <1>7 DEF IInv, Collected
<1> QED BY <1>6, <1>8 DEF IInv

(* The steps of the server: it leaves its reaper only when there is no     *)
(* child, and enters it for every signal.                                  *)
LEMMA ServerInv ==
  ASSUME IInv, Server \/ \E u \in User : Connect(u)
  PROVE  IInv'
<1>1. UNCHANGED <<resume, last, left, dead, sig>>
  BY DEF Server, accept, fork, Interrupted, reaper, Connect, session
<1>2. /\ at' \in {"accept", "fork", "reaper"} /\ back' \in {"accept", "fork"} /\ chld' \in BOOLEAN
      /\ queued' \in User \cup {Nobody} /\ newsockfd' \in User \cup {Nobody} /\ held' \subseteq User
  BY DEF Server, accept, fork, Interrupted, reaper, Connect, session, IInv, TypeOK
<1>3. shell' \in [User -> Alive \cup {"none", "zombie", "gone"}]
  BY DEF Server, accept, fork, Interrupted, reaper, Connect, session, Was, Alive, IInv, TypeOK
<1>4. TypeOK'
  BY <1>1, <1>2, <1>3 DEF IInv, TypeOK
<1>5. Collected'
  <2>1. CASE accept \/ Interrupted \/ \E u \in User : Connect(u)
    BY <2>1 DEF accept, Interrupted, Connect, session, IInv, TypeOK, Collected
  <2>2. CASE fork
    <3>1. \A v \in User : shell'[v] = shell[v] \/ shell'[v] = "reading"
      BY <2>2 DEF fork, Was, IInv, TypeOK
    <3> QED BY <2>2, <3>1 DEF fork, IInv, TypeOK, Collected
  <2>3. CASE reaper
    BY <2>3 DEF reaper, Was, IInv, TypeOK, Collected
  <2> QED BY <2>1, <2>2, <2>3 DEF Server
<1> QED BY <1>4, <1>5 DEF IInv

LEMMA StepInv == IInv /\ [Next]_vars => IInv'
<1> SUFFICES ASSUME IInv, [Next]_vars PROVE IInv'
  OBVIOUS
<1>1. CASE Next
  BY <1>1, SessionInv, ServerInv DEF Next
<1>2. CASE UNCHANGED vars
  BY <1>2 DEF vars, server, session, IInv, TypeOK, Collected
<1> QED BY <1>1, <1>2

-----------------------------------------------------------------------------
THEOREM Invariance == Spec => []IInv
  BY InitInv, StepInv, PTL DEF Spec

\* Every variable of the server and of the sessions keeps its type, and no child is counted twice.
THEOREM TypeCorrect == Spec => []TypeOK
<1>1. IInv => TypeOK
  BY DEF IInv
<1> QED BY <1>1, Invariance, PTL

(* For any number of users: a session that has ended is collected before   *)
(* the server accepts or forks again, unless its signal has yet to come.   *)
THEOREM NoneForgotten == Spec => []Collected
<1>1. IInv => Collected
  BY DEF IInv
<1> QED BY <1>1, Invariance, PTL
=============================================================================
