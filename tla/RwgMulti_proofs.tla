---------------------------- MODULE RwgMulti_proofs ----------------------------
(***************************************************************************)
(* What holds of np_multi_proc for any number of users, names and command  *)
(* lines: types and the last announcement whatever users do Together; and, *)
(* if they do not connect while others are busy (Waiting), a row of one's  *)
(* own, flags that agree with FIFOs and descriptors, delivery and no       *)
(* standstill; Registry, if they do not rename then either (Taking).       *)
(***************************************************************************)
EXTENDS RwgMulti, SequenceTheorems, TLAPS

Stage == Live \cup {"none", "born", "row", "gone"}
Row == [name : Name \cup {NoName, Blank}, fifos : SUBSET Id]
Looping == {"greet", "talk", "leave", "pipe"}
Busy == {"born", "row", "greet", "leave", "pipe", "wait"}

(* Processes that are yet to be forked do nothing; those that are have a   *)
(* number, a child that is to make a FIFO has somebody to make it for, and *)
(* only a session that announces is in the loop over the rows.             *)
Numbered ==
  \A s \in Session :
    /\ s > sessions => pc[s] = "none"
    /\ pc[s] # "none" => num[s] \in Id
    /\ kid[s].st # "none" => pc[s] # "none"
    /\ kid[s].st = "send" => kid[s].to # 0
    /\ todo[s] # {} => pc[s] \in Looping

\* A row leads to the session that has taken it.
Led ==
  \A n \in Id : pid_table[n] # None =>
    num[pid_table[n]] = n /\ pc[pid_table[n]] \notin {"none", "born"}

\* LastHeard, whatever state the session in the loop is in.
Onway ==
  \A t \in unheard :
    pc[t] \in Live /\ mine(t) = t => usr1[t] \/ \E s \in Session : num[t] \in todo[s]

(* Unless users connect while others are busy, one at a time logs in,      *)
(* leaves or runs a command, with the number that main has drawn.          *)
Drawn == \A s \in Session : pc[s] = "born" => num[s] \in drawTicket
Alone == \A s, t \in Session : pc[s] \in Busy /\ pc[t] \in Busy => s = t
Claimed == Drawn /\ Alone /\ RowIsOwn

Waiting == "connect" \notin Together
IInv == TypeOK /\ Numbered /\ Led /\ Onway /\ (Waiting => Claimed)

-----------------------------------------------------------------------------
LEMMA InitInv == Init => IInv
<1> SUFFICES ASSUME Init PROVE IInv
  OBVIOUS
<1>1. TypeOK
  <2>1. NoKid \in Child
    BY DEF NoKid, Child, Tty
  <2> QED BY <2>1, MultiAssumption DEF Init, TypeOK, None
<1>2. Numbered /\ Led
  BY DEF Init, Numbered, Led, NoKid
<1>3. Onway /\ Claimed
  BY DEF Init, Onway, Claimed, Drawn, Alone, RowIsOwn, Live, Busy
<1> QED BY <1>1, <1>2, <1>3 DEF IInv

-----------------------------------------------------------------------------
(* Messages and signals.                                                   *)

\* Whoever is meant to hear has a row that the loop is yet to come to.
LEMMA Announced ==
  ASSUME IInv, NEW s \in Session, announce(s)
  PROVE  /\ todo' \in [Session -> SUBSET (Id \cup Far)] /\ unheard' \subseteq Session
         /\ todo'[s] = Rows(s) /\ \A t \in Session : t # s => todo'[t] = todo[t]
         /\ \A t \in unheard' : num[t] \in todo'[s]
<1>1. todo \in [Session -> SUBSET (Id \cup Far)] /\ pid_table \in [Id -> Session \cup {None}]
  BY DEF IInv, TypeOK
<1>2. Rows(s) \subseteq Id
  BY DEF Rows
<1>3. todo'[s] = Rows(s) /\ \A t \in Session : t # s => todo'[t] = todo[t]
  BY <1>1 DEF announce
<1>4. todo' \in [Session -> SUBSET (Id \cup Far)]
  BY <1>1, <1>2 DEF announce
<1>5. ASSUME NEW t \in unheard' PROVE t \in Session /\ num[t] \in Rows(s)
  <2>1. PICK n \in Id \ {num[s]} : pid_table[n] = t /\ t # None
    BY <1>5 DEF announce, Others
  <2>2. num[t] = n
    BY <2>1 DEF IInv, Led
  <2> QED BY <1>1, <2>1, <2>2 DEF Rows
<1> QED BY <1>3, <1>4, <1>5

\* A signal ends those who have no handler yet and nobody else.
LEMMA Strikes ==
  ASSUME TypeOK, NEW S
  PROVE  /\ Struck(S) \in [Session -> Stage]
         /\ \A t \in Session : \/ Struck(S)[t] = pc[t]
                               \/ pc[t] \in {"born", "row"} /\ Struck(S)[t] = "gone"
<1>1. pc \in [Session -> Stage]
  BY DEF TypeOK, Stage
<1> QED BY <1>1 DEF Struck, Stage

LEMMA Raises ==
  ASSUME TypeOK, NEW S
  PROVE  /\ Raised(usr1, S) \in [Session -> BOOLEAN] /\ Raised(usr2, S) \in [Session -> BOOLEAN]
         /\ \A t \in Session : usr1[t] => Raised(usr1, S)[t]
         /\ \A t \in S \cap Session : pc[t] \in Live => Raised(usr1, S)[t]
BY DEF TypeOK, Raised

\* A session goes on from where it is, or ends.
Onward ==
  \A s \in Session :
    \/ pc'[s] = pc[s]
    \/ pc[s] # "none" /\ pc'[s] = "gone"
    \/ pc[s] \in Live \cup {"row"} /\ pc'[s] \in Live

\* As long as sessions go on, and rows and numbers stay, so does what is said of them.
LEMMA OnwardClaims ==
  ASSUME IInv, Onward, UNCHANGED <<pid_table, num, sessions>>,
         \A s \in Session :
           /\ kid'[s].st # "none" => pc[s] # "none"
           /\ kid'[s].st = "send" => kid'[s].to # 0
           /\ todo'[s] # {} => pc'[s] \in Looping,
         \/ \A s \in Session : pc'[s] \in Busy => pc[s] \in Busy
         \/ \E s \in Session : \A t \in Session : pc'[t] \in Busy => t = s
  PROVE  Numbered' /\ Led' /\ (Waiting => Claimed')
<1>1. Numbered'
  BY DEF IInv, Onward, Numbered, Live
<1>2. Led'
  <2>1. \A n \in Id : pid_table[n] # None => pid_table[n] \in Session
    BY DEF IInv, TypeOK
  <2> QED BY <2>1 DEF IInv, Led, Onward, Live
<1>3. ASSUME Waiting PROVE Claimed'
  <2>1. drawTicket' = drawTicket
    BY DEF drawTicket, freeRows
  <2>2. \A s \in Session : pc'[s] = "born" => pc[s] = "born"
    BY DEF Onward, Live
  <2>3. \A s \in Session : pc'[s] \in Live \cup {"row"} => pc[s] \in Live \cup {"row"}
    BY DEF Onward, Live
  <2>4. Drawn' /\ Alone'
    BY <1>3, <2>1, <2>2 DEF IInv, Claimed, Drawn, Alone
  <2>5. RowIsOwn'
    BY <1>3, <2>3 DEF IInv, Claimed, RowIsOwn, mine
  <2> QED BY <2>4, <2>5 DEF Claimed
<1> QED BY <1>1, <1>2, <1>3

\* Who is still to be reached by a loop, or has the signal, goes on to be.
LEMMA StillHeard ==
  ASSUME IInv, \A t \in Session : usr1[t] => usr1'[t], UNCHANGED <<todo, num, unheard>>,
         \A t \in Session : pc'[t] \in Live /\ mine(t)' = t => pc[t] \in Live /\ mine(t) = t
  PROVE  Onway'
BY DEF IInv, TypeOK, Onway

LEMMA NowHeard ==
  ASSUME NEW s \in Session, num' = num, \A t \in unheard' : num[t] \in todo'[s]
  PROVE  Onway'
BY DEF Onway

-----------------------------------------------------------------------------
(* Connections.                                                            *)

LEMMA ConnectInv ==
  ASSUME IInv, Connect
  PROVE  IInv'
<1>0. PICK n \in drawTicket : num' = [num EXCEPT ![sessions + 1] = n]
  BY DEF Connect
<1>1. /\ sessions' = sessions + 1 /\ pc' = [pc EXCEPT ![sessions + 1] = "born"]
      /\ UNCHANGED <<up, shared, loops, signals, kid, files, typed, unheard>>
      /\ Apart(sessions + 1, "connect")
  BY DEF Connect
<1>2. /\ UNCHANGED <<up, pid_table, clients, sender, made, todo, wants>>
      /\ UNCHANGED <<usr1, usr2, opening, recvFds, kid, fifo, due, spoilt, typed, unheard>>
  BY <1>1 DEF shared, loops, signals, files
<1>3. sessions' \in 0 .. MaxSessions /\ sessions + 1 \in Session /\ n \in Id
  BY <1>0, <1>1, MultiAssumption DEF Connect, IInv, TypeOK, Session, drawTicket, freeRows
<1>4. /\ pc[sessions + 1] = "none"
      /\ \A t \in Session : t > sessions' => t > sessions /\ t # sessions + 1
  BY <1>1, <1>3 DEF IInv, TypeOK, Numbered, Session
<1>5. /\ pc' \in [Session -> Stage] /\ num' \in [Session -> Id \cup {0}]
      /\ pc'[sessions + 1] = "born" /\ num'[sessions + 1] = n
      /\ \A t \in Session : t # sessions + 1 => pc'[t] = pc[t] /\ num'[t] = num[t]
  BY <1>0, <1>1, <1>3 DEF IInv, TypeOK, Stage
<1>6. TypeOK'
  BY <1>2, <1>3, <1>5 DEF IInv, TypeOK, Stage
<1>7. Numbered'
  BY <1>2, <1>3, <1>4, <1>5 DEF IInv, Numbered, Looping
<1>8. Led'
  <2>1. \A m \in Id : pid_table[m] # None => pid_table[m] \in Session
    BY DEF IInv, TypeOK
  <2> QED BY <1>2, <1>4, <1>5, <2>1 DEF IInv, Led
<1>9. Onway'
  BY <1>2, <1>4, <1>5 DEF IInv, TypeOK, Onway, mine, Live
<1>10. ASSUME Waiting PROVE Claimed'
  <2>0. drawTicket' = drawTicket /\ \A t \in Session : t # sessions + 1 => pc[t] \in Idle
    BY <1>1, <1>2, <1>10 DEF drawTicket, freeRows, Apart, Waiting
  <2>1. Alone'
    BY <1>5, <2>0 DEF Alone, Busy, Idle
  <2>2. Drawn'
    BY <1>0, <1>5, <1>10, <2>0 DEF IInv, Claimed, Drawn
  <2>3. RowIsOwn'
    BY <1>2, <1>5, <1>10 DEF IInv, Claimed, RowIsOwn, mine, Live
  <2> QED BY <2>1, <2>2, <2>3 DEF Claimed
<1> QED BY <1>6, <1>7, <1>8, <1>9, <1>10 DEF IInv

(* The number is still free when the row is taken: nobody else logs in or  *)
(* leaves meanwhile.                                                       *)
LEMMA LoginRowInv ==
  ASSUME IInv, NEW s \in Session, LoginRow(s)
  PROVE  IInv'
<1>1. /\ UNCHANGED <<up, sender, made, num, todo, wants, usr1, usr2, opening, recvFds>>
      /\ UNCHANGED <<kid, fifo, sessions, typed, unheard>>
      /\ pc[s] = "born"
  BY DEF LoginRow, signals, loops
<1>2. num[s] \in Id /\ s # None
  BY <1>1 DEF IInv, Numbered, None, Session
<1>3. /\ pc' \in [Session -> Stage]
      /\ pc'[s] = "row" /\ \A t \in Session : t # s => pc'[t] = pc[t]
  BY DEF LoginRow, IInv, TypeOK, Stage
<1>4. /\ pid_table' \in [Id -> Session \cup {None}]
      /\ pid_table'[num[s]] = s /\ \A n \in Id : n # num[s] => pid_table'[n] = pid_table[n]
  BY <1>2 DEF LoginRow, IInv, TypeOK
<1>5. clients' \in [Id -> Row]
  <2>1. newRow(s) \in Row /\ clients \in [Id -> Row]
    BY DEF newRow, Row, IInv, TypeOK
  <2> HIDE DEF Row
  <2> QED BY <1>2, <2>1 DEF LoginRow
<1>6. due' \in [Fifo -> Seq(Nat)] /\ spoilt' \subseteq Fifo
  <2>1. <<>> \in Seq(Nat) /\ \A p \in Fifo : due[p] \in Seq(Nat)
    BY DEF IInv, TypeOK
  <2> QED BY <2>1 DEF LoginRow, IInv, TypeOK
<1>7. TypeOK'
  BY <1>1, <1>3, <1>4, <1>5, <1>6 DEF IInv, TypeOK, Stage, Row
<1>8. Numbered'
  BY <1>1, <1>3 DEF IInv, Numbered, Looping
<1>9. Led'
  <2>1. \A m \in Id : pid_table[m] # None => pid_table[m] \in Session
    BY DEF IInv, TypeOK
  <2> QED BY <1>1, <1>3, <1>4, <2>1 DEF IInv, Led
<1>10. Onway'
  <2>1. \A t \in Session : pc'[t] \in Live => t # s /\ pc[t] \in Live
    BY <1>3 DEF Live
  <2>2. \A t \in Session : pc[t] \in Live => num[t] \in Id
    BY DEF IInv, Numbered, Live
  <2>3. \A t \in Session : pc'[t] \in Live /\ mine(t)' = t => pc[t] \in Live /\ mine(t) = t
    BY <1>1, <1>4, <2>1, <2>2 DEF mine
  <2> QED BY <1>1, <2>3, StillHeard
<1>11. ASSUME Waiting PROVE Claimed'
  <2>1. \A t \in Session : t # s => pc[t] # "born"
    BY <1>1, <1>11 DEF IInv, Claimed, Alone, Busy
  <2>2. Alone' /\ Drawn'
    BY <1>1, <1>3, <1>11, <2>1 DEF IInv, Claimed, Drawn, Alone, Busy
  <2>3. pid_table[num[s]] = None
    BY <1>1, <1>11 DEF IInv, Claimed, Drawn, drawTicket, freeRows
  <2>4. RowIsOwn'
    <3> SUFFICES ASSUME NEW t \in Session, pc'[t] \in Live \cup {"row"}
                 PROVE  pid_table'[num[t]] = t
      BY <1>1 DEF RowIsOwn, mine
    <3>1. CASE t = s
      BY <3>1, <1>4
    <3>2. CASE t # s
      <4>1. pid_table[num[t]] = t /\ num[t] \in Id /\ t # None
        BY <3>2, <1>3, <1>11 DEF IInv, Claimed, RowIsOwn, mine, Numbered, None, Session, Live
      <4> QED BY <4>1, <1>4, <2>3
    <3> QED BY <3>1, <3>2
  <2> QED BY <2>2, <2>4 DEF Claimed
<1> QED BY <1>7, <1>8, <1>9, <1>10, <1>11 DEF IInv

\* A session that tells the others is the one that was busy, or nobody is.
LEMMA LoginTellInv ==
  ASSUME IInv, NEW s \in Session, LoginTell(s)
  PROVE  IInv'
<1>1. /\ UNCHANGED <<up, pid_table, clients, sender, made, num, wants, usr1, usr2, opening, recvFds>>
      /\ UNCHANGED <<kid, fifo, due, spoilt, sessions, typed>>
      /\ pc[s] = "row" /\ announce(s) /\ pc' = [pc EXCEPT ![s] = "greet"]
  BY DEF LoginTell, shared, signals, files
<1>2. /\ todo' \in [Session -> SUBSET (Id \cup Far)] /\ unheard' \subseteq Session
      /\ \A t \in Session : t # s => todo'[t] = todo[t]
      /\ \A t \in unheard' : num[t] \in todo'[s]
  BY <1>1, Announced
<1>3. /\ pc' \in [Session -> Stage] /\ pc'[s] = "greet"
      /\ \A t \in Session : t # s => pc'[t] = pc[t]
  BY <1>1 DEF IInv, TypeOK, Stage, Live
<1>4. TypeOK'
  BY <1>1, <1>2, <1>3 DEF IInv, TypeOK, Stage
<1>5. Onward /\ \A t \in Session : pc'[t] \in Busy => pc[t] \in Busy
  BY <1>1, <1>3 DEF Onward, Live, Busy
<1>6. \A t \in Session :
        /\ kid'[t].st # "none" => pc[t] # "none"
        /\ kid'[t].st = "send" => kid'[t].to # 0
        /\ todo'[t] # {} => pc'[t] \in Looping
  BY <1>1, <1>2, <1>3 DEF IInv, Numbered, Looping
<1>7. Numbered' /\ Led' /\ (Waiting => Claimed')
  BY <1>1, <1>5, <1>6, OnwardClaims
<1>8. Onway'
  BY <1>1, <1>2, NowHeard
<1> QED BY <1>4, <1>7, <1>8 DEF IInv

-----------------------------------------------------------------------------
(* The loop that sends the signals, and the handlers that they call.       *)

\* What steps have in common that leave rows, numbers, loops and lines alone.
LEMMA QuietInv ==
  ASSUME IInv, TypeOK', Onward, UNCHANGED <<pid_table, num, sessions, todo, unheard>>,
         \A t \in Session : usr1[t] => usr1'[t],
         \A t \in Session : pc'[t] \in Live => pc[t] \in Live,
         \A t \in Session : pc'[t] \in Busy => pc[t] \in Busy,
         \A t \in Session :
           /\ kid'[t].st # "none" => pc[t] # "none"
           /\ kid'[t].st = "send" => kid'[t].to # 0
           /\ todo[t] # {} => pc'[t] \in Looping
  PROVE  IInv'
<1>1. Numbered' /\ Led' /\ (Waiting => Claimed')
  BY OnwardClaims
<1>2. Onway'
  BY StillHeard DEF mine
<1> QED BY <1>1, <1>2 DEF IInv

LEMMA SameKid ==
  ASSUME IInv, kid' = kid
  PROVE  \A t \in Session : /\ kid'[t].st # "none" => pc[t] # "none"
                            /\ kid'[t].st = "send" => kid'[t].to # 0
BY DEF IInv, Numbered

LEMMA LookInv ==
  ASSUME IInv, NEW s \in Session, Look(s)
  PROVE  IInv'
<1>0. PICK n \in todo[s] \ Far :
        /\ todo' = [todo EXCEPT ![s] = @ \ {n}]
        /\ usr1' = Raised(usr1, {pid_table[n]} \ {None}) /\ pc' = Struck({pid_table[n]} \ {None})
        /\ UNCHANGED <<up, shared, num, wants, usr2, opening, recvFds, kid, files, sessions,
                       typed, unheard>>
  BY DEF Look
<1>1. /\ UNCHANGED <<up, pid_table, clients, sender, made, num, wants, usr2, opening, recvFds>>
      /\ UNCHANGED <<kid, fifo, due, spoilt, sessions, typed, unheard>>
  BY <1>0 DEF shared, files
<1>2. todo \in [Session -> SUBSET (Id \cup Far)] /\ pid_table \in [Id -> Session \cup {None}]
  BY DEF IInv, TypeOK
<1>3. /\ n \in Id /\ todo' \in [Session -> SUBSET (Id \cup Far)]
      /\ \A t \in Session : todo'[t] \subseteq todo[t]
      /\ \A t \in Session, m \in Id : m \in todo[t] => m \in todo'[t] \/ m = n
  BY <1>0, <1>2
<1>4. /\ pc' \in [Session -> Stage]
      /\ \A t \in Session : pc'[t] = pc[t] \/ (pc[t] \in {"born", "row"} /\ pc'[t] = "gone")
  BY <1>0, Strikes DEF IInv
<1>5. /\ usr1' \in [Session -> BOOLEAN] /\ \A t \in Session : usr1[t] => usr1'[t]
      /\ \A t \in Session : t = pid_table[n] /\ pc[t] \in Live => usr1'[t]
  <2>1. /\ usr1' \in [Session -> BOOLEAN] /\ \A t \in Session : usr1[t] => usr1'[t]
        /\ \A t \in ({pid_table[n]} \ {None}) \cap Session : pc[t] \in Live => usr1'[t]
    BY <1>0, Raises DEF IInv
  <2>2. None \notin Session
    BY DEF None, Session
  <2> QED BY <2>1, <2>2
<1>6. TypeOK'
  BY <1>1, <1>3, <1>4, <1>5 DEF IInv, TypeOK, Stage
<1>7. Onward /\ \A t \in Session : pc'[t] \in Busy => pc[t] \in Busy
  BY <1>4 DEF Onward, Busy
<1>8. \A t \in Session : todo'[t] # {} => pc'[t] \in Looping
  BY <1>3, <1>4 DEF IInv, Numbered, Looping
<1>9. Numbered' /\ Led' /\ (Waiting => Claimed')
  BY <1>1, <1>7, <1>8, SameKid, OnwardClaims
<1>10. Onway'
  <2> SUFFICES ASSUME NEW t \in unheard, pc'[t] \in Live, pid_table[num[t]] = t
               PROVE  usr1'[t] \/ \E u \in Session : num[t] \in todo'[u]
    BY <1>1 DEF Onway, mine
  <2>1. t \in Session /\ pc[t] \in Live /\ num[t] \in Id
    BY <1>4 DEF IInv, TypeOK, Numbered, Live
  <2>2. usr1[t] \/ \E u \in Session : num[t] \in todo[u]
    BY <2>1 DEF IInv, Onway, mine
  <2> QED BY <1>3, <1>5, <2>1, <2>2
<1> QED BY <1>6, <1>9, <1>10 DEF IInv

LEMMA LookPastInv ==
  ASSUME IInv, NEW s \in Session, LookPast(s)
  PROVE  IInv'
<1>0. PICK n \in todo[s] \cap Far, K \in SUBSET {t \in Session : kid[t].st = "run"} :
        /\ todo' = [todo EXCEPT ![s] = @ \ {n}] /\ up' = FALSE
        /\ usr1' = Raised(usr1, Session) /\ pc' = Struck(Session)
        /\ kid' = [t \in Session |-> IF t \in K THEN [kid[t] EXCEPT !.st = "killed"] ELSE kid[t]]
        /\ spoilt' = spoilt \cup (Fifo \cap {<<kid[t].in, num[t]>> : t \in K})
        /\ UNCHANGED <<shared, num, wants, usr2, opening, recvFds, fifo, due, sessions, typed,
                       unheard>>
  BY DEF LookPast
<1>1. /\ UNCHANGED <<pid_table, clients, sender, made, num, wants, usr2, opening, recvFds>>
      /\ UNCHANGED <<fifo, due, sessions, typed, unheard>> /\ up' \in BOOLEAN
  BY <1>0 DEF shared
<1>2. todo \in [Session -> SUBSET (Id \cup Far)] /\ n \notin Id
  BY <1>0, MultiAssumption DEF IInv, TypeOK
<1>3. /\ todo' \in [Session -> SUBSET (Id \cup Far)]
      /\ \A t \in Session : todo'[t] \subseteq todo[t]
      /\ \A t \in Session, m \in Id : m \in todo[t] => m \in todo'[t]
  BY <1>0, <1>2
<1>4. /\ pc' \in [Session -> Stage]
      /\ \A t \in Session : pc'[t] = pc[t] \/ (pc[t] \in {"born", "row"} /\ pc'[t] = "gone")
  BY <1>0, Strikes DEF IInv
<1>5. usr1' \in [Session -> BOOLEAN] /\ \A t \in Session : usr1[t] => usr1'[t]
  BY <1>0, Raises DEF IInv
<1>6. /\ kid' \in [Session -> Child]
      /\ \A t \in Session : kid'[t] = kid[t] \/ (kid[t].st = "run" /\ kid'[t].st = "killed")
  <2>1. kid \in [Session -> Child]
    BY DEF IInv, TypeOK
  <2>2. \A t \in Session : [kid[t] EXCEPT !.st = "killed"] \in Child
                           /\ [kid[t] EXCEPT !.st = "killed"].st = "killed"
    BY <2>1 DEF Child
  <2> QED BY <1>0, <2>1, <2>2
<1>7. spoilt' \subseteq Fifo
  BY <1>0 DEF IInv, TypeOK
<1>8. TypeOK'
  BY <1>1, <1>3, <1>4, <1>5, <1>6, <1>7 DEF IInv, TypeOK, Stage
<1>9. Onward /\ \A t \in Session : pc'[t] \in Busy => pc[t] \in Busy
  BY <1>4 DEF Onward, Busy
<1>10. \A t \in Session : /\ todo'[t] # {} => pc'[t] \in Looping
                          /\ kid'[t].st # "none" => pc[t] # "none"
                          /\ kid'[t].st = "send" => kid'[t].to # 0
  BY <1>3, <1>4, <1>6 DEF IInv, Numbered, Looping
<1>11. Numbered' /\ Led' /\ (Waiting => Claimed')
  BY <1>1, <1>9, <1>10, OnwardClaims
<1>12. Onway'
  <2> SUFFICES ASSUME NEW t \in unheard, pc'[t] \in Live, pid_table[num[t]] = t
               PROVE  usr1'[t] \/ \E u \in Session : num[t] \in todo'[u]
    BY <1>1 DEF Onway, mine
  <2>1. t \in Session /\ pc[t] \in Live /\ num[t] \in Id
    BY <1>4 DEF IInv, TypeOK, Numbered, Live
  <2>2. usr1[t] \/ \E u \in Session : num[t] \in todo[u]
    BY <2>1 DEF IInv, Onway, mine
  <2> QED BY <1>3, <1>5, <2>1, <2>2
<1> QED BY <1>8, <1>11, <1>12 DEF IInv

LEMMA SaidInv ==
  ASSUME IInv, NEW s \in Session, Said(s)
  PROVE  IInv'
<1>1. /\ UNCHANGED <<up, pid_table, clients, sender, made, num, todo, wants, usr1, usr2>>
      /\ UNCHANGED <<opening, recvFds, kid, fifo, due, spoilt, sessions, typed, unheard>>
      /\ pc[s] \in {"greet", "talk"} /\ todo[s] = {} /\ pc' = [pc EXCEPT ![s] = "prompt"]
  BY DEF Said, shared, loops, signals, files
<1>2. /\ pc' \in [Session -> Stage] /\ pc'[s] = "prompt"
      /\ \A t \in Session : t # s => pc'[t] = pc[t]
  BY <1>1 DEF IInv, TypeOK, Stage, Live
<1>3. TypeOK'
  BY <1>1, <1>2 DEF IInv, TypeOK, Stage
<1>4. Onward /\ \A t \in Session : /\ pc'[t] \in Busy => pc[t] \in Busy
                                   /\ pc'[t] \in Live => pc[t] \in Live
  BY <1>1, <1>2 DEF Onward, Live, Busy
<1>5. \A t \in Session : todo[t] # {} => pc'[t] \in Looping
  BY <1>1, <1>2 DEF IInv, Numbered
<1> QED BY <1>1, <1>3, <1>4, <1>5, SameKid, QuietInv

LEMMA broadcastInv ==
  ASSUME IInv, NEW s \in Session, broadcast(s)
  PROVE  IInv'
<1>1. /\ UNCHANGED <<up, pid_table, clients, sender, made, pc, num, todo, wants, usr2, opening>>
      /\ UNCHANGED <<recvFds, kid, fifo, due, spoilt, sessions, typed>>
      /\ usr1' = [usr1 EXCEPT ![s] = FALSE] /\ unheard' = unheard \ {s}
  BY DEF broadcast, shared, loops, files
<1>2. TypeOK'
  BY <1>1 DEF IInv, TypeOK
<1>3. Onway'
  BY <1>1 DEF IInv, TypeOK, Onway, mine
<1>4. \A t \in Session : todo[t] # {} => pc[t] \in Looping
  BY DEF IInv, Numbered
<1>5. Numbered' /\ Led' /\ (Waiting => Claimed')
  BY <1>1, <1>4, SameKid, OnwardClaims DEF Onward
<1> QED BY <1>2, <1>3, <1>5 DEF IInv

LEMMA openForReadInv ==
  ASSUME IInv, NEW s \in Session, openForRead(s)
  PROVE  IInv'
<1>1. /\ UNCHANGED <<up, pid_table, clients, sender, made, pc, num, todo, wants, usr1>>
      /\ UNCHANGED <<kid, fifo, due, spoilt, sessions, typed, unheard>>
  BY DEF openForRead, shared, loops, files
<1>2. usr2' \in [Session -> BOOLEAN] /\ opening' \in [Session -> Id \cup {0}]
  BY DEF openForRead, IInv, TypeOK
<1>3. recvFds' \in [Session -> SUBSET Id]
  <2>1. CASE /\ Writing(sender, num[s])
             /\ recvFds' = [recvFds EXCEPT ![s] = recvFds[s] \cup {sender}]
    <3>1. PICK t \in Session : num[t] = sender /\ kid[t].st = "run"
      BY <2>1 DEF Writing
    <3>2. sender \in Id
      BY <3>1 DEF IInv, Numbered
    <3>3. recvFds \in [Session -> SUBSET Id]
      BY DEF IInv, TypeOK
    <3> QED BY <2>1, <3>2, <3>3
  <2>2. CASE recvFds' = recvFds
    BY <2>2 DEF IInv, TypeOK
  <2> QED BY <2>1, <2>2 DEF openForRead
<1>4. TypeOK'
  BY <1>1, <1>2, <1>3 DEF IInv, TypeOK
<1>5. \A t \in Session : todo[t] # {} => pc[t] \in Looping
  BY DEF IInv, Numbered
<1> QED BY <1>1, <1>4, <1>5, SameKid, QuietInv DEF Onward

-----------------------------------------------------------------------------
(* The lines a user types.                                                 *)

LEMMA Typing ==
  ASSUME IInv, NEW s \in Session, NEW what, Types(s, what)
  PROVE  /\ UNCHANGED <<up, pid_table, sender, made, num, usr1, usr2, opening, recvFds, sessions>>
         /\ typed' \in 0 .. MaxLines /\ typed' \in Nat
         /\ pc[s] = "prompt" /\ num[s] \in Id /\ todo[s] = {}
         /\ what \notin Together => \A t \in Session \ {s} : pc[t] \in Idle
<1>1. typed \in Nat /\ typed < MaxLines /\ typed' = typed + 1 /\ MaxLines \in Nat
  BY MultiAssumption DEF Types, IInv, TypeOK
<1>2. pc[s] = "prompt" /\ num[s] \in Id /\ todo[s] = {}
  BY DEF Types, IInv, Numbered, Looping
<1> QED BY <1>1, <1>2 DEF Types, signals, Apart

\* What Goes does, and whom it leaves alone.
LEMMA Going ==
  ASSUME TypeOK, NEW s \in Session, NEW where \in Stage, Goes(s, where)
  PROVE  /\ pc' \in [Session -> Stage] /\ pc'[s] = where
         /\ \A t \in Session : t # s => pc'[t] = pc[t]
BY DEF TypeOK, Stage, Goes

\* Nobody else is busy when a line other than talk is typed, nor does talking make busy.
LEMMA StillAlone ==
  ASSUME IInv, NEW s \in Session, pc[s] = "prompt",
         \A t \in Session : t # s => pc'[t] = pc[t],
         pc'[s] \notin Busy \/ \A t \in Session \ {s} : pc[t] \in Idle
  PROVE  \/ \A t \in Session : pc'[t] \in Busy => pc[t] \in Busy
         \/ \E u \in Session : \A t \in Session : pc'[t] \in Busy => t = u
BY DEF Busy, Idle

LEMMA ClosedType ==
  ASSUME TypeOK, NEW s \in Session
  PROVE  Closed(s) \in [Fifo -> Seq(Nat)]
<1>1. \A p \in Fifo : fifo[p] \in Seq(Nat)
  BY DEF TypeOK
<1>2. <<>> \in Seq(Nat)
  OBVIOUS
<1> QED BY <1>1, <1>2 DEF Closed

LEMMA EmptyLineInv ==
  ASSUME IInv, NEW s \in Session, EmptyLine(s)
  PROVE  IInv'
<1>1. /\ UNCHANGED <<clients, todo, wants, kid, due, spoilt, unheard>> /\ Types(s, "leave")
      /\ Goes(s, "gone") /\ fifo' = Closed(s)
  BY DEF EmptyLine, loops
<1>2. /\ UNCHANGED <<up, pid_table, sender, made, num, usr1, usr2, opening, recvFds, sessions>>
      /\ typed' \in 0 .. MaxLines /\ pc[s] = "prompt" /\ todo[s] = {}
  BY <1>1, Typing
<1>3. fifo' \in [Fifo -> Seq(Nat)]
  BY <1>1, ClosedType DEF IInv
<1>4. pc' \in [Session -> Stage] /\ pc'[s] = "gone" /\ \A t \in Session : t # s => pc'[t] = pc[t]
  BY <1>1, Going DEF IInv, Stage
<1>5. TypeOK'
  BY <1>1, <1>2, <1>3, <1>4 DEF IInv, TypeOK, Stage
<1>6. Onward /\ \A t \in Session : /\ pc'[t] \in Busy => pc[t] \in Busy
                                   /\ pc'[t] \in Live => pc[t] \in Live
  BY <1>2, <1>4 DEF Onward, Busy, Live
<1>7. \A t \in Session : todo[t] # {} => pc'[t] \in Looping
  BY <1>2, <1>4 DEF IInv, Numbered
<1> QED BY <1>1, <1>2, <1>5, <1>6, <1>7, SameKid, QuietInv

\* What logout, tell, yell and Renames have in common: the session is now in the loop.
LEMMA SpeaksInv ==
  ASSUME IInv, NEW s \in Session, UNCHANGED <<pid_table, num, sessions, kid>>, TypeOK',
         pc[s] \in Live, pc'[s] \in {"talk", "leave"},
         \A t \in Session : t # s => pc'[t] = pc[t] /\ todo'[t] = todo[t],
         \A t \in unheard' : num[t] \in todo'[s],
         pc'[s] = "talk" \/ \A t \in Session \ {s} : pc[t] \in Idle
  PROVE  IInv'
<1>1. Onward
  BY DEF Onward, Live
<1>2. \/ \A t \in Session : pc'[t] \in Busy => pc[t] \in Busy
      \/ \E u \in Session : \A t \in Session : pc'[t] \in Busy => t = u
  BY DEF Busy, Idle
<1>3. \A t \in Session : todo'[t] # {} => pc'[t] \in Looping
  BY DEF IInv, Numbered, Looping
<1>4. Numbered' /\ Led' /\ (Waiting => Claimed')
  BY <1>1, <1>2, <1>3, SameKid, OnwardClaims
<1>5. Onway'
  BY NowHeard
<1> QED BY <1>4, <1>5 DEF IInv

LEMMA logoutInv ==
  ASSUME IInv, NEW s \in Session, logout(s) \/ yell(s)
  PROVE  IInv'
<1>1. PICK where \in {"leave", "talk"} :
        /\ UNCHANGED <<clients, wants, kid, files>> /\ Types(s, where) /\ announce(s)
        /\ Goes(s, where)
  BY DEF logout, yell
<1>2. /\ UNCHANGED <<up, pid_table, sender, made, num, usr1, usr2, opening, recvFds, sessions>>
      /\ typed' \in 0 .. MaxLines /\ pc[s] = "prompt"
      /\ where = "leave" => \A t \in Session \ {s} : pc[t] \in Idle
  <2>1. /\ UNCHANGED <<up, pid_table, sender, made, num, usr1, usr2, opening, recvFds, sessions>>
        /\ typed' \in 0 .. MaxLines /\ pc[s] = "prompt"
        /\ where \notin Together => \A t \in Session \ {s} : pc[t] \in Idle
    BY <1>1, Typing
  <2> QED BY <2>1, MultiAssumption
<1>3. /\ todo' \in [Session -> SUBSET (Id \cup Far)] /\ unheard' \subseteq Session
      /\ \A t \in Session : t # s => todo'[t] = todo[t]
      /\ \A t \in unheard' : num[t] \in todo'[s]
  BY <1>1, Announced
<1>4. pc' \in [Session -> Stage] /\ pc'[s] = where /\ \A t \in Session : t # s => pc'[t] = pc[t]
  BY <1>1, Going DEF IInv, Stage, Live
<1>5. TypeOK'
  BY <1>1, <1>2, <1>3, <1>4 DEF IInv, TypeOK, Stage, files
<1>6. pc[s] \in Live
  BY <1>2 DEF Live
<1> QED BY <1>1, <1>2, <1>3, <1>4, <1>5, <1>6, SpeaksInv

LEMMA tellInv ==
  ASSUME IInv, NEW s \in Session, tell(s)
  PROVE  IInv'
<1>1. PICK n \in Id \cup Far :
        /\ Types(s, "talk") /\ Goes(s, "talk") /\ todo' = [todo EXCEPT ![s] = {n}]
        /\ unheard' = IF n \in Id THEN {pid_table[n]} \ {None} ELSE {}
        /\ UNCHANGED <<clients, wants, kid, fifo, due, spoilt>>
  BY DEF tell, files
<1>2. /\ UNCHANGED <<up, pid_table, sender, made, num, usr1, usr2, opening, recvFds, sessions>>
      /\ typed' \in 0 .. MaxLines /\ pc[s] = "prompt"
  BY <1>1, Typing
<1>3. pid_table \in [Id -> Session \cup {None}] /\ todo \in [Session -> SUBSET (Id \cup Far)]
  BY DEF IInv, TypeOK
<1>4. /\ todo' \in [Session -> SUBSET (Id \cup Far)] /\ unheard' \subseteq Session
      /\ todo'[s] = {n} /\ \A t \in Session : t # s => todo'[t] = todo[t]
  BY <1>1, <1>3
<1>5. \A t \in unheard' : num[t] \in todo'[s]
  BY <1>1, <1>3, <1>4 DEF IInv, Led
<1>6. pc' \in [Session -> Stage] /\ pc'[s] = "talk" /\ \A t \in Session : t # s => pc'[t] = pc[t]
  BY <1>1, Going DEF IInv, Stage, Live
<1>7. TypeOK'
  BY <1>1, <1>2, <1>4, <1>6 DEF IInv, TypeOK, Stage
<1>8. pc[s] \in Live
  BY <1>2 DEF Live
<1> QED BY <1>1, <1>2, <1>4, <1>5, <1>6, <1>7, <1>8, SpeaksInv

\* Whoever leaves frees its own row and no other.
LEMMA LeavesInv ==
  ASSUME IInv, NEW s \in Session, Leaves(s)
  PROVE  IInv'
<1>1. /\ UNCHANGED <<up, clients, sender, made, num, todo, wants, usr1, usr2, opening, recvFds>>
      /\ UNCHANGED <<kid, due, spoilt, sessions, typed, unheard>>
      /\ pc[s] = "leave" /\ todo[s] = {} /\ Goes(s, "gone") /\ fifo' = Closed(s)
      /\ pid_table' = [pid_table EXCEPT ![num[s]] = None]
  BY DEF Leaves, returnTicket, loops, signals
<1>2. pc' \in [Session -> Stage] /\ pc'[s] = "gone" /\ \A t \in Session : t # s => pc'[t] = pc[t]
  BY <1>1, Going DEF IInv, Stage
<1>3. /\ pid_table' \in [Id -> Session \cup {None}] /\ pid_table \in [Id -> Session \cup {None}]
      /\ \A n \in Id : pid_table'[n] = IF n = num[s] THEN None ELSE pid_table[n]
  BY <1>1 DEF IInv, TypeOK
<1>4. num[s] \in Id /\ \A t \in Session : pc[t] \in Live => num[t] \in Id
  BY <1>1 DEF IInv, Numbered, Live
<1>5. TypeOK'
  BY <1>1, <1>2, <1>3, ClosedType DEF IInv, TypeOK, Stage
<1>6. Numbered'
  BY <1>1, <1>2 DEF IInv, Numbered
<1>7. Led'
  BY <1>1, <1>2, <1>3 DEF IInv, Led
<1>8. Onway'
  <2>1. \A t \in Session : pc'[t] \in Live /\ mine(t)' = t => pc[t] \in Live /\ mine(t) = t
    BY <1>1, <1>2, <1>3, <1>4 DEF mine, Live, None, Session
  <2> QED BY <1>1, <2>1, StillHeard
<1>9. ASSUME Waiting PROVE Claimed'
  <2>1. \A t \in Session : pc'[t] \in Busy => t # s /\ pc[t] \in Busy
    BY <1>2 DEF Busy
  <2>2. \A t \in Session : pc'[t] \notin Busy
    BY <1>1, <1>9, <2>1 DEF IInv, Claimed, Alone, Busy
  <2>3. Drawn' /\ Alone'
    BY <2>2 DEF Drawn, Alone, Busy
  <2>4. RowIsOwn'
    <3> SUFFICES ASSUME NEW t \in Session, pc'[t] \in Live \cup {"row"}
                 PROVE  pid_table'[num[t]] = t
      BY <1>1 DEF RowIsOwn, mine
    <3>1. t # s /\ pc[t] \in Live
      BY <1>2, <2>2 DEF Live, Busy
    <3>2. pid_table[num[t]] = t /\ pid_table[num[s]] = s /\ num[t] \in Id
      BY <1>1, <1>4, <1>9, <3>1 DEF IInv, Claimed, RowIsOwn, mine, Live
    <3> QED BY <1>3, <3>1, <3>2
  <2> QED BY <2>3, <2>4 DEF Claimed
<1> QED BY <1>5, <1>6, <1>7, <1>8, <1>9 DEF IInv

LEMMA renameInv ==
  ASSUME IInv, NEW s \in Session, rename(s)
  PROVE  IInv'
<1>1. PICK nm \in Name :
        /\ Types(s, "name")
        /\ IF collision(s, nm) THEN UNCHANGED <<pc, wants>>
           ELSE Goes(s, "name") /\ wants' = [wants EXCEPT ![s] = nm]
        /\ UNCHANGED <<clients, todo, kid, fifo, due, spoilt, unheard>>
  BY DEF rename, files
<1>2. /\ UNCHANGED <<up, pid_table, sender, made, num, usr1, usr2, opening, recvFds, sessions>>
      /\ typed' \in 0 .. MaxLines /\ pc[s] = "prompt" /\ todo[s] = {}
  BY <1>1, Typing
<1>3. /\ pc' \in [Session -> Stage] /\ pc'[s] \in {"prompt", "name"}
      /\ \A t \in Session : t # s => pc'[t] = pc[t]
  <2>1. CASE pc' = pc
    BY <1>2, <2>1 DEF IInv, TypeOK, Stage
  <2>2. CASE Goes(s, "name")
    BY <2>2, Going DEF IInv, Stage, Live
  <2> QED BY <1>1, <2>1, <2>2
<1>4. wants' \in [Session -> Name \cup {NoName}]
  BY <1>1 DEF IInv, TypeOK
<1>5. TypeOK'
  BY <1>1, <1>2, <1>3, <1>4 DEF IInv, TypeOK, Stage
<1>6. Onward /\ \A t \in Session : /\ pc'[t] \in Busy => pc[t] \in Busy
                                   /\ pc'[t] \in Live => pc[t] \in Live
  BY <1>2, <1>3 DEF Onward, Busy, Live
<1>7. \A t \in Session : todo[t] # {} => pc'[t] \in Looping
  BY <1>2, <1>3 DEF IInv, Numbered
<1> QED BY <1>1, <1>2, <1>5, <1>6, <1>7, SameKid, QuietInv

LEMMA RenamesInv ==
  ASSUME IInv, NEW s \in Session, Renames(s)
  PROVE  IInv'
<1>1. /\ UNCHANGED <<up, pid_table, sender, made, num, usr1, usr2, opening, recvFds>>
      /\ UNCHANGED <<kid, fifo, due, spoilt, sessions, typed>>
      /\ pc[s] = "name" /\ Goes(s, "talk") /\ announce(s)
      /\ clients' = [clients EXCEPT ![num[s]].name = wants[s]]
      /\ wants' = [wants EXCEPT ![s] = NoName]
  BY DEF Renames, signals, files
<1>2. /\ todo' \in [Session -> SUBSET (Id \cup Far)] /\ unheard' \subseteq Session
      /\ \A t \in Session : t # s => todo'[t] = todo[t]
      /\ \A t \in unheard' : num[t] \in todo'[s]
  BY <1>1, Announced
<1>3. pc' \in [Session -> Stage] /\ pc'[s] = "talk" /\ \A t \in Session : t # s => pc'[t] = pc[t]
  BY <1>1, Going DEF IInv, Stage, Live
<1>4. clients' \in [Id -> Row]
  <2> DEFINE row == [clients[num[s]] EXCEPT !.name = wants[s]]
  <2>1. clients \in [Id -> Row] /\ num[s] \in Id /\ wants[s] \in Name \cup {NoName}
    BY <1>1 DEF IInv, TypeOK, Row, Numbered
  <2>2. row \in Row
    BY <2>1 DEF Row
  <2>3. clients' = [clients EXCEPT ![num[s]] = row]
    BY <1>1
  <2> HIDE DEF row, Row
  <2> QED BY <2>1, <2>2, <2>3
<1>5. wants' \in [Session -> Name \cup {NoName}]
  BY <1>1 DEF IInv, TypeOK
<1>6. TypeOK'
  BY <1>1, <1>2, <1>3, <1>4, <1>5 DEF IInv, TypeOK, Stage, Row
<1>7. pc[s] \in Live
  BY <1>1 DEF Live
<1> QED BY <1>1, <1>2, <1>3, <1>6, <1>7, SpeaksInv

-----------------------------------------------------------------------------
(* A command and its child.                                                *)

\* The flags a command clears and sets are those of users who have a number.
LEMMA CommandFlags ==
  ASSUME IInv, NEW s \in Session, NEW l \in Lines, num[s] \in Id
  PROVE  /\ Taken(s, l) \in [Id -> Row]
         /\ Sends(s, l) => [Taken(s, l) EXCEPT ![l.to].fifos = @ \cup {num[s]}] \in [Id -> Row]
<1>1. clients \in [Id -> Row]
  BY DEF IInv, TypeOK, Row
<1>2. Taken(s, l) \in [Id -> Row]
  BY <1>1 DEF Taken, Row
<1>3. Sends(s, l) => l.to \in Id
  BY MultiAssumption DEF Sends
<1> QED BY <1>2, <1>3 DEF Row

\* What a command is when it is yet to be forked.
kidOf(s, l) ==
  [st |-> "fork", in |-> IF l.from # 0 /\ ~Receives(s, l) THEN Null ELSE l.from,
   to |-> IF Sends(s, l) THEN l.to ELSE 0,
   left |-> l.size, filter |-> l.filter, me |-> typed + 1,
   expects |-> IF Receives(s, l) THEN due[<<l.from, num[s]>>] ELSE <<>>,
   clean |-> <<l.from, num[s]>> \notin spoilt, got |-> <<>>]

LEMMA CommandDoes ==
  ASSUME IInv, NEW s \in Session, Command(s)
  PROVE  \E l \in Lines :
           LET p == <<l.from, num[s]>>
           IN  /\ Types(s, "command") /\ Goes(s, "pipe")
               /\ clients' = IF Sends(s, l)
                             THEN [Taken(s, l) EXCEPT ![l.to].fifos = @ \cup {num[s]}]
                             ELSE Taken(s, l)
               /\ IF Receives(s, l) \/ Sends(s, l) THEN announce(s) ELSE UNCHANGED <<todo, unheard>>
               /\ kid' = [kid EXCEPT ![s] = kidOf(s, l)]
               /\ IF Receives(s, l)
                  THEN /\ due' = [due EXCEPT ![p] = <<>>]
                       /\ spoilt' = IF l.filter THEN spoilt \ {p} ELSE spoilt \cup {p}
                  ELSE UNCHANGED <<due, spoilt>>
               /\ UNCHANGED <<wants, fifo>>
BY DEF Command, kidOf, Types

LEMMA KidOfType ==
  ASSUME IInv, NEW s \in Session, NEW l \in Lines, num[s] \in Id
  PROVE  kidOf(s, l) \in Child
<1>1. /\ l.from \in Id \cup {0} /\ l.to \in Id \cup {0} /\ l.size \in Nat /\ l.filter \in BOOLEAN
  BY MultiAssumption
<1>2. due \in [Fifo -> Seq(Nat)] /\ typed + 1 \in Nat
  BY MultiAssumption DEF IInv, TypeOK
<1>3. Receives(s, l) => <<l.from, num[s]>> \in Fifo
  BY <1>1 DEF Receives, Fifo
<1>4. (IF Receives(s, l) THEN due[<<l.from, num[s]>>] ELSE <<>>) \in Seq(Nat)
  <2>1. CASE Receives(s, l)
    BY <1>2, <1>3, <2>1
  <2>2. CASE ~Receives(s, l)
    BY <2>2
  <2> QED BY <2>1, <2>2
<1>5. /\ (IF l.from # 0 /\ ~Receives(s, l) THEN Null ELSE l.from) \in Id \cup {Tty, Null}
      /\ (IF Sends(s, l) THEN l.to ELSE 0) \in Id \cup {0}
      /\ (<<l.from, num[s]>> \notin spoilt) \in BOOLEAN /\ <<>> \in Seq(Nat)
  BY <1>1 DEF Tty
<1> QED BY <1>1, <1>2, <1>4, <1>5 DEF kidOf, Child

LEMMA CommandInv ==
  ASSUME IInv, NEW s \in Session, Command(s)
  PROVE  IInv'
<1> PICK l \in Lines :
       LET p == <<l.from, num[s]>>
       IN  /\ Types(s, "command") /\ Goes(s, "pipe")
           /\ clients' = IF Sends(s, l)
                         THEN [Taken(s, l) EXCEPT ![l.to].fifos = @ \cup {num[s]}]
                         ELSE Taken(s, l)
           /\ IF Receives(s, l) \/ Sends(s, l) THEN announce(s) ELSE UNCHANGED <<todo, unheard>>
           /\ kid' = [kid EXCEPT ![s] = kidOf(s, l)]
           /\ IF Receives(s, l)
              THEN /\ due' = [due EXCEPT ![p] = <<>>]
                   /\ spoilt' = IF l.filter THEN spoilt \ {p} ELSE spoilt \cup {p}
              ELSE UNCHANGED <<due, spoilt>>
           /\ UNCHANGED <<wants, fifo>>
  BY CommandDoes
<1>1. /\ UNCHANGED <<up, pid_table, sender, made, num, usr1, usr2, opening, recvFds, sessions>>
      /\ typed' \in 0 .. MaxLines /\ pc[s] = "prompt" /\ num[s] \in Id /\ todo[s] = {}
      /\ \A t \in Session \ {s} : pc[t] \in Idle
  <2>1. "command" \notin Together
    BY MultiAssumption
  <2> QED BY <2>1, Typing
<1>2. clients' \in [Id -> Row]
  BY <1>1, CommandFlags
<1>3. due' \in [Fifo -> Seq(Nat)] /\ spoilt' \subseteq Fifo
  <2>1. <<>> \in Seq(Nat) /\ due \in [Fifo -> Seq(Nat)] /\ spoilt \subseteq Fifo
    BY DEF IInv, TypeOK
  <2>2. Receives(s, l) => <<l.from, num[s]>> \in Fifo
    BY <1>1, MultiAssumption DEF Receives, Fifo
  <2> QED BY <2>1, <2>2
<1>4. kid' \in [Session -> Child] /\ kid'[s].st = "fork" /\ \A t \in Session : t # s => kid'[t] = kid[t]
  <2>1. kidOf(s, l) \in Child /\ kid \in [Session -> Child] /\ kidOf(s, l).st = "fork"
    BY <1>1, KidOfType DEF IInv, TypeOK, kidOf
  <2> QED BY <2>1
<1>5. pc' \in [Session -> Stage] /\ pc'[s] = "pipe" /\ \A t \in Session : t # s => pc'[t] = pc[t]
  BY Going DEF IInv, Stage, Live
<1>6. /\ todo' \in [Session -> SUBSET (Id \cup Far)] /\ unheard' \subseteq Session
      /\ \A t \in Session : t # s => todo'[t] = todo[t]
  <2>1. CASE Receives(s, l) \/ Sends(s, l)
    BY <2>1, Announced
  <2>2. CASE ~(Receives(s, l) \/ Sends(s, l))
    BY <2>2 DEF IInv, TypeOK
  <2> QED BY <2>1, <2>2
<1>7. Onway'
  <2>1. CASE Receives(s, l) \/ Sends(s, l)
    BY <1>1, <2>1, Announced, NowHeard
  <2>2. CASE ~(Receives(s, l) \/ Sends(s, l))
    <3>1. \A t \in Session : pc'[t] \in Live => pc[t] \in Live
      BY <1>1, <1>5 DEF Live
    <3> QED BY <1>1, <2>2, <3>1, StillHeard DEF mine
  <2> QED BY <2>1, <2>2
<1>8. TypeOK'
  BY <1>1, <1>2, <1>3, <1>4, <1>5, <1>6 DEF IInv, TypeOK, Stage, Row
<1>9. Numbered' /\ Led' /\ (Waiting => Claimed')
  <2>1. Onward
    BY <1>1, <1>5 DEF Onward, Live
  <2>2. \E u \in Session : \A t \in Session : pc'[t] \in Busy => t = u
    BY <1>1, <1>5 DEF Busy, Idle
  <2>3. \A t \in Session : /\ kid'[t].st # "none" => pc[t] # "none"
                           /\ kid'[t].st = "send" => kid'[t].to # 0
                           /\ todo'[t] # {} => pc'[t] \in Looping
    BY <1>1, <1>4, <1>5, <1>6 DEF IInv, Numbered, Looping
  <2> QED BY <1>1, <2>1, <2>2, <2>3, OnwardClaims
<1> QED BY <1>7, <1>8, <1>9 DEF IInv

LEMMA ForkInv ==
  ASSUME IInv, NEW s \in Session, Fork(s)
  PROVE  IInv'
<1> DEFINE k == [kid[s] EXCEPT !.st = IF kid[s].to = 0 THEN "run" ELSE "send",
                               !.in = IF kid[s].in \in Id \ recvFds[s] THEN Tty ELSE kid[s].in]
<1>1. /\ UNCHANGED <<up, pid_table, clients, sender, made, num, todo, wants, usr1, usr2>>
      /\ UNCHANGED <<opening, recvFds, fifo, due, spoilt, sessions, typed, unheard>>
      /\ pc[s] = "pipe" /\ todo[s] = {} /\ Goes(s, "wait") /\ kid' = [kid EXCEPT ![s] = k]
  BY DEF Fork, shared, loops, signals, files, IInv, TypeOK
<1>2. pc' \in [Session -> Stage] /\ pc'[s] = "wait" /\ \A t \in Session : t # s => pc'[t] = pc[t]
  BY <1>1, Going DEF IInv, Stage, Live
<1>3. kid \in [Session -> Child] /\ kid[s] \in Child
  BY DEF IInv, TypeOK
<1>4. k \in Child /\ (k.st = "send" => k.to # 0)
  <2>1. kid[s].in \in Id \cup {Tty, Null}
    BY <1>3 DEF Child
  <2> QED BY <1>3, <2>1 DEF Child
<1> HIDE DEF k
<1>5. kid' \in [Session -> Child] /\ kid'[s] = k /\ \A t \in Session : t # s => kid'[t] = kid[t]
  BY <1>1, <1>3, <1>4
<1>6. TypeOK'
  BY <1>1, <1>2, <1>5 DEF IInv, TypeOK, Stage
<1>7. Onward /\ \A t \in Session : /\ pc'[t] \in Busy => pc[t] \in Busy
                                   /\ pc'[t] \in Live => pc[t] \in Live
  BY <1>1, <1>2 DEF Onward, Live, Busy
<1>8. \A t \in Session : /\ kid'[t].st # "none" => pc[t] # "none"
                         /\ kid'[t].st = "send" => kid'[t].to # 0
                         /\ todo[t] # {} => pc'[t] \in Looping
  BY <1>1, <1>2, <1>4, <1>5 DEF IInv, Numbered
<1> QED BY <1>1, <1>6, <1>7, <1>8, QuietInv

(* What a child's steps have in common: they touch the child, the signal   *)
(* of the receiver and the FIFOs.                                          *)
LEMMA ChildInv ==
  ASSUME IInv, NEW s \in Session, still' = still, usr1' = usr1,
         pc' \in [Session -> Stage],
         \A t \in Session : pc'[t] = pc[t] \/ (pc[t] \in {"born", "row"} /\ pc'[t] = "gone"),
         NEW k \in Child, kid' = [kid EXCEPT ![s] = k], kid[s].st # "none", k.st # "send",
         sender' \in Id \cup {0}, made' \subseteq Fifo, usr2' \in [Session -> BOOLEAN],
         opening' \in [Session -> Id \cup {0}], recvFds' \in [Session -> SUBSET Id],
         fifo' \in [Fifo -> Seq(Nat)], due' \in [Fifo -> Seq(Nat)], spoilt' = spoilt
  PROVE  IInv'
<1>1. UNCHANGED <<up, pid_table, clients, num, todo, wants, sessions, typed, unheard>>
  BY DEF still, loops
<1>2. kid \in [Session -> Child]
  BY DEF IInv, TypeOK
<1>3. kid' \in [Session -> Child] /\ kid'[s] = k /\ \A t \in Session : t # s => kid'[t] = kid[t]
  BY <1>2
<1>4. TypeOK'
  BY <1>1, <1>3 DEF IInv, TypeOK, Stage
<1>5. Onward /\ \A t \in Session : /\ pc'[t] \in Busy => pc[t] \in Busy
                                   /\ pc'[t] \in Live => pc[t] \in Live
  BY DEF Onward, Live, Busy
<1>6. \A t \in Session : /\ kid'[t].st # "none" => pc[t] # "none"
                         /\ kid'[t].st = "send" => kid'[t].to # 0
                         /\ todo[t] # {} => pc'[t] \in Looping
  BY <1>3 DEF IInv, Numbered, Looping
<1> QED BY <1>1, <1>4, <1>5, <1>6, QuietInv

LEMMA KidSignalInv ==
  ASSUME IInv, NEW s \in Session, KidSignal(s)
  PROVE  IInv'
<1> DEFINE k == [kid[s] EXCEPT !.st = "open"]
<1>1. /\ kid[s].st = "send" /\ kid' = [kid EXCEPT ![s] = k] /\ still' = still
      /\ sender' = num[s] /\ made' = made \cup {<<num[s], kid[s].to>>}
      /\ usr2' = Raised(usr2, {receiver(s)}) /\ pc' = Struck({receiver(s)})
      /\ UNCHANGED <<usr1, opening, recvFds, fifo, due, spoilt>>
  BY DEF KidSignal, files
<1>2. kid[s] \in Child
  BY DEF IInv, TypeOK
<1>3. k \in Child /\ k.st # "send" /\ kid[s].to \in Id \cup {0}
  BY <1>2 DEF Child
<1>4. num[s] \in Id \cup {0} /\ made' \subseteq Fifo /\ usr2' \in [Session -> BOOLEAN]
  <2>1. num[s] \in Id /\ kid[s].to \in Id
    BY <1>1, <1>3 DEF IInv, Numbered
  <2>2. made' \subseteq Fifo
    BY <1>1, <2>1 DEF IInv, TypeOK, Fifo
  <2> QED BY <1>1, <2>1, <2>2, Raises DEF IInv
<1>5. /\ pc' \in [Session -> Stage]
      /\ \A t \in Session : pc'[t] = pc[t] \/ (pc[t] \in {"born", "row"} /\ pc'[t] = "gone")
  BY <1>1, Strikes DEF IInv
<1>6. /\ opening \in [Session -> Id \cup {0}] /\ recvFds \in [Session -> SUBSET Id]
      /\ fifo \in [Fifo -> Seq(Nat)] /\ due \in [Fifo -> Seq(Nat)]
  BY DEF IInv, TypeOK
<1> HIDE DEF k
<1> QED BY <1>1, <1>3, <1>4, <1>5, <1>6, ChildInv

LEMMA KidOpenInv ==
  ASSUME IInv, NEW s \in Session, KidOpen(s)
  PROVE  IInv'
<1> DEFINE k == [kid[s] EXCEPT !.st = "run"]
           Woken == {t \in Session : num[t] = kid[s].to /\ Waits(t, num[s])}
<1>1. /\ kid[s].st = "open" /\ kid' = [kid EXCEPT ![s] = k] /\ still' = still
      /\ opening' = [t \in Session |-> IF t \in Woken THEN 0 ELSE opening[t]]
      /\ recvFds' = [t \in Session |-> IF t \in Woken THEN recvFds[t] \cup {num[s]}
                                       ELSE recvFds[t]]
      /\ UNCHANGED <<pc, sender, made, usr1, usr2, fifo, due, spoilt>>
  BY DEF KidOpen, files
<1> HIDE DEF Woken
<1>2. kid[s] \in Child
  BY DEF IInv, TypeOK
<1>3. k \in Child /\ k.st # "send"
  BY <1>2 DEF Child
<1>4. num[s] \in Id
  BY <1>1 DEF IInv, Numbered
<1>5. opening' \in [Session -> Id \cup {0}] /\ recvFds' \in [Session -> SUBSET Id]
  BY <1>1, <1>4 DEF IInv, TypeOK
<1>6. /\ sender \in Id \cup {0} /\ made \subseteq Fifo /\ usr2 \in [Session -> BOOLEAN]
      /\ fifo \in [Fifo -> Seq(Nat)] /\ due \in [Fifo -> Seq(Nat)] /\ pc \in [Session -> Stage]
  BY DEF IInv, TypeOK, Stage
<1> HIDE DEF k
<1> QED BY <1>1, <1>3, <1>5, <1>6, ChildInv

\* What the other steps of a child leave alone.
LEMMA QuietChild ==
  ASSUME IInv, NEW s \in Session, UNCHANGED <<still, pc, sender, made, signals, spoilt>>,
         NEW k \in Child, kid' = [kid EXCEPT ![s] = k], kid[s].st # "none", k.st # "send",
         fifo' \in [Fifo -> Seq(Nat)], due' \in [Fifo -> Seq(Nat)]
  PROVE  IInv'
<1>1. pc' \in [Session -> Stage] /\ usr1' = usr1 /\ still' = still
  BY DEF IInv, TypeOK, Stage, signals
<1>2. /\ sender' \in Id \cup {0} /\ made' \subseteq Fifo /\ usr2' \in [Session -> BOOLEAN]
      /\ opening' \in [Session -> Id \cup {0}] /\ recvFds' \in [Session -> SUBSET Id]
  BY DEF IInv, TypeOK, signals
<1> QED BY <1>1, <1>2, ChildInv

LEMMA KidReadInv ==
  ASSUME IInv, NEW s \in Session, KidRead(s)
  PROVE  IInv'
<1> DEFINE p == fifoName(s)
           k == [kid[s] EXCEPT !.got = Append(@, Head(fifo[p])), !.left = @ + 1]
<1>1. /\ kid[s].st = "run" /\ kid[s].in \in Id /\ fifo[p] # <<>>
      /\ kid' = [kid EXCEPT ![s] = k]
      /\ fifo' = [fifo EXCEPT ![p] = Tail(fifo[p])]
      /\ UNCHANGED <<still, pc, sender, made, signals, due, spoilt>>
  BY DEF KidRead
<1>2. kid[s] \in Child /\ fifo \in [Fifo -> Seq(Nat)] /\ due \in [Fifo -> Seq(Nat)]
  BY DEF IInv, TypeOK
<1>3. num[s] \in Id
  BY <1>1 DEF IInv, Numbered
<1>4. p \in Fifo
  BY <1>1, <1>3 DEF fifoName, Fifo
<1> HIDE DEF p
<1>5. fifo[p] \in Seq(Nat)
  BY <1>2, <1>4
<1>6. Head(fifo[p]) \in Nat /\ Tail(fifo[p]) \in Seq(Nat)
  BY <1>1, <1>5
<1>7. k \in Child /\ k.st # "send"
  <2>1. kid[s].got \in Seq(Nat) /\ kid[s].left \in Nat
    BY <1>2 DEF Child
  <2>2. Append(kid[s].got, Head(fifo[p])) \in Seq(Nat) /\ kid[s].left + 1 \in Nat
    BY <1>6, <2>1
  <2> QED BY <1>1, <1>2, <2>2 DEF Child
<1>8. fifo' \in [Fifo -> Seq(Nat)]
  BY <1>1, <1>2, <1>6
<1> HIDE DEF k
<1> QED BY <1>1, <1>2, <1>7, <1>8, QuietChild

LEMMA KidWriteInv ==
  ASSUME IInv, NEW s \in Session, KidWrite(s)
  PROVE  IInv'
<1> DEFINE k == [kid[s] EXCEPT !.left = @ - 1]
           p == <<num[s], kid[s].to>>
<1>1. /\ kid[s].st = "run" /\ kid[s].left > 0
      /\ kid' = [kid EXCEPT ![s] = k]
      /\ UNCHANGED <<still, pc, sender, made, signals, spoilt>>
      /\ \/ UNCHANGED <<fifo, due>>
         \/ /\ fifo' = [fifo EXCEPT ![p] = Append(fifo[p], kid[s].me)] /\ kid[s].to # 0
            /\ due' = [due EXCEPT ![p] = Append(due[p], kid[s].me)]
  BY DEF KidWrite
<1>2. kid[s] \in Child /\ fifo \in [Fifo -> Seq(Nat)] /\ due \in [Fifo -> Seq(Nat)]
  BY DEF IInv, TypeOK
<1>3. num[s] \in Id
  BY <1>1 DEF IInv, Numbered
<1>4. k \in Child /\ k.st # "send"
  <2>1. kid[s].left \in Nat
    BY <1>2 DEF Child
  <2>2. kid[s].left - 1 \in Nat
    BY <1>1, <2>1
  <2> QED BY <1>1, <1>2, <2>2 DEF Child
<1>5. kid[s].me \in Nat /\ kid[s].to \in Id \cup {0}
  BY <1>2 DEF Child
<1> HIDE DEF k
<1>6. fifo' \in [Fifo -> Seq(Nat)] /\ due' \in [Fifo -> Seq(Nat)]
  <2>1. CASE UNCHANGED <<fifo, due>>
    BY <1>2, <2>1
  <2>2. CASE /\ fifo' = [fifo EXCEPT ![p] = Append(fifo[p], kid[s].me)] /\ kid[s].to # 0
             /\ due' = [due EXCEPT ![p] = Append(due[p], kid[s].me)]
    <3>1. p \in Fifo
      BY <1>3, <1>5, <2>2 DEF Fifo
    <3> HIDE DEF p
    <3>2. Append(fifo[p], kid[s].me) \in Seq(Nat) /\ Append(due[p], kid[s].me) \in Seq(Nat)
      BY <1>2, <1>5, <3>1
    <3> QED BY <1>2, <2>2, <3>2
  <2> QED BY <1>1, <2>1, <2>2
<1> QED BY <1>1, <1>4, <1>6, QuietChild

LEMMA KidExitInv ==
  ASSUME IInv, NEW s \in Session, KidExit(s)
  PROVE  IInv'
<1> DEFINE k == [kid[s] EXCEPT !.st = "done"]
<1>1. /\ kid[s].st = "run" /\ kid' = [kid EXCEPT ![s] = k]
      /\ UNCHANGED <<still, pc, sender, made, signals, fifo, due, spoilt>>
  BY DEF KidExit, files
<1>2. kid[s] \in Child /\ fifo \in [Fifo -> Seq(Nat)] /\ due \in [Fifo -> Seq(Nat)]
  BY DEF IInv, TypeOK
<1>3. k \in Child /\ k.st # "send"
  BY <1>2 DEF Child
<1> HIDE DEF k
<1> QED BY <1>1, <1>2, <1>3, QuietChild

LEMMA WaitKidInv ==
  ASSUME IInv, NEW s \in Session, WaitKid(s)
  PROVE  IInv'
<1>1. /\ UNCHANGED <<up, pid_table, clients, sender, made, num, todo, wants, usr1, usr2>>
      /\ UNCHANGED <<opening, recvFds, fifo, due, spoilt, sessions, typed, unheard>>
      /\ pc[s] = "wait" /\ Goes(s, "prompt") /\ kid' = [kid EXCEPT ![s] = NoKid]
  BY DEF WaitKid, still, loops, signals, files
<1>2. NoKid \in Child /\ NoKid.st = "none"
  BY DEF NoKid, Child, Tty
<1>3. pc' \in [Session -> Stage] /\ pc'[s] = "prompt" /\ \A t \in Session : t # s => pc'[t] = pc[t]
  BY <1>1, Going DEF IInv, Stage, Live
<1>4. kid' \in [Session -> Child] /\ kid'[s] = NoKid /\ \A t \in Session : t # s => kid'[t] = kid[t]
  BY <1>1, <1>2 DEF IInv, TypeOK
<1>5. TypeOK'
  BY <1>1, <1>3, <1>4 DEF IInv, TypeOK, Stage
<1>6. Onward /\ \A t \in Session : /\ pc'[t] \in Busy => pc[t] \in Busy
                                   /\ pc'[t] \in Live => pc[t] \in Live
  BY <1>1, <1>3 DEF Onward, Live, Busy
<1>7. \A t \in Session : /\ kid'[t].st # "none" => pc[t] # "none"
                         /\ kid'[t].st = "send" => kid'[t].to # 0
                         /\ todo[t] # {} => pc'[t] \in Looping
  BY <1>1, <1>2, <1>3, <1>4 DEF IInv, Numbered, Looping
<1> QED BY <1>1, <1>5, <1>6, <1>7, QuietInv

LEMMA StutterInv ==
  ASSUME IInv, UNCHANGED vars
  PROVE  IInv'
<1>1. /\ UNCHANGED <<up, pid_table, clients, sender, made, pc, num, todo, wants, usr1, usr2>>
      /\ UNCHANGED <<opening, recvFds, kid, fifo, due, spoilt, sessions, typed, unheard>>
  BY DEF vars, shared, loops, signals, files
<1>2. TypeOK'
  BY <1>1 DEF IInv, TypeOK
<1>3. \A t \in Session : todo[t] # {} => pc[t] \in Looping
  BY DEF IInv, Numbered
<1> QED BY <1>1, <1>2, <1>3, SameKid, QuietInv DEF Onward

LEMMA StepInv == IInv /\ [Next]_vars => IInv'
<1> SUFFICES ASSUME IInv, [Next]_vars PROVE IInv'
  OBVIOUS
<1>1. CASE Connect
  BY <1>1, ConnectInv
<1>2. ASSUME NEW s \in Session, login(s) PROVE IInv'
  BY <1>2, LoginRowInv, LoginTellInv DEF login
<1>3. ASSUME NEW s \in Session, Builtin(s) PROVE IInv'
  BY <1>3, tellInv, renameInv, logoutInv, EmptyLineInv DEF Builtin
<1>4. ASSUME NEW s \in Session, Command(s) \/ GoesOn(s) PROVE IInv'
  BY <1>4, CommandInv, LookInv, LookPastInv, SaidInv, RenamesInv, LeavesInv, ForkInv, WaitKidInv
     DEF GoesOn
<1>5. ASSUME NEW s \in Session, broadcast(s) \/ openForRead(s) PROVE IInv'
  BY <1>5, broadcastInv, openForReadInv
<1>6. ASSUME NEW s \in Session, KidStep(s) PROVE IInv'
  BY <1>6, KidSignalInv, KidOpenInv, KidReadInv, KidWriteInv, KidExitInv DEF KidStep
<1>7. CASE UNCHANGED vars
  BY <1>7, StutterInv
<1> QED BY <1>1, <1>2, <1>3, <1>4, <1>5, <1>6, <1>7 DEF Next

\* Invariance: IInv holds in every state of every behaviour.
THEOREM Invariance == Spec => []IInv
BY InitInv, StepInv, PTL DEF Spec

\* TypeCorrect: the shared memory, the sessions and the FIFOs hold what their types say.
THEOREM TypeCorrect == Spec => []TypeOK
BY Invariance, PTL DEF IInv

(* LastIsHeard: whoever the message in the buffer is meant for has printed *)
(* it, has SIGUSR1 pending or is in a row that the loop of a live session  *)
(* is yet to come to, whatever users do Together.                          *)
THEOREM LastIsHeard == Spec => []LastHeard
<1>1. IInv => LastHeard
  BY DEF IInv, Onway, LastHeard, Numbered, Looping, Live
<1> QED BY <1>1, Invariance, PTL

(* RowsAreOwn: no two sessions have one number, though main draws it and   *)
(* the session takes the row, when a user logs in only while nobody else   *)
(* is busy, whatever users say and rename Together.                        *)
THEOREM RowsAreOwn == ASSUME Waiting PROVE Spec => []RowIsOwn
<1>1. IInv => RowIsOwn
  BY DEF IInv, Claimed
<1> QED BY <1>1, Invariance, PTL

-----------------------------------------------------------------------------
(* Numbers and names: every step of the sessions is one of Registry's.     *)

\* A name that has been found free is, until it is taken: nobody else logs in or renames.
AtEase == {"none", "gone", "prompt", "talk"}
Named ==
  \A s \in Session : pc[s] = "name" =>
    /\ wants[s] \in Name /\ ~collision(s, wants[s])
    /\ \A t \in Session \ {s} : pc[t] \in AtEase

Taking == Waiting /\ "name" \notin Together

LEMMA NamedKept ==
  ASSUME Named, \A n \in Id : clients'[n].name = clients[n].name, wants' = wants,
         \A t \in Session : pc'[t] = pc[t] \/ pc'[t] \in AtEase
  PROVE  Named'
<1>1. \A t \in Session : pc'[t] = "name" => pc[t] = "name"
  BY DEF AtEase
<1> QED BY <1>1 DEF Named, collision

LEMMA NamedNone ==
  ASSUME \A t \in Session : pc'[t] # "name"
  PROVE  Named'
BY DEF Named

\* A command touches flags only, never a name.
LEMMA CommandNames ==
  ASSUME IInv, NEW s \in Session, Command(s)
  PROVE  \A n \in Id : clients'[n].name = clients[n].name
<1>1. PICK l \in Lines :
        clients' = IF Sends(s, l) THEN [Taken(s, l) EXCEPT ![l.to].fifos = @ \cup {num[s]}]
                   ELSE Taken(s, l)
  BY DEF Command
<1>2. clients \in [Id -> Row] /\ num[s] \in Id
  BY DEF Command, Types, IInv, TypeOK, Row, Numbered
<1>3. Taken(s, l) \in [Id -> Row] /\ \A n \in Id : Taken(s, l)[n].name = clients[n].name
  <2>1. CASE ~Receives(s, l)
    BY <1>2, <2>1 DEF Taken
  <2>2. CASE Receives(s, l)
    <3>1. Taken(s, l) = [clients EXCEPT ![num[s]].fifos = @ \ {l.from}]
      BY <2>2 DEF Taken
    <3>2. \A m \in Id : Taken(s, l)[m].name = clients[m].name
      BY <1>2, <3>1 DEF Row
    <3> QED BY <1>2, <3>2, CommandFlags
  <2> QED BY <2>1, <2>2
<1> DEFINE T == Taken(s, l)
<1>4. T \in [Id -> Row] /\ clients' = IF Sends(s, l) THEN [T EXCEPT ![l.to].fifos = @ \cup {num[s]}] ELSE T
  BY <1>1, <1>3
<1> HIDE DEF T
<1>5. \A n \in Id : clients'[n].name = T[n].name
  BY <1>4 DEF Row
<1> QED BY <1>3, <1>5 DEF T

LEMMA StepNamed ==
  ASSUME IInv, Taking, Named, [Next]_vars
  PROVE  Named'
<1>0. /\ \A u, t \in Session : pc[u] \notin {"name"} \cup AtEase => pc[t] # "name"
      /\ pc \in [Session -> Stage]
  BY DEF Named, IInv, TypeOK, Stage, AtEase
<1>1. CASE Connect
  <2>1. \A t \in Session : t # sessions + 1 => pc[t] \in Idle
    BY <1>1 DEF Connect, Apart, Taking, Waiting
  <2>2. \A t \in Session : pc'[t] # "name"
    BY <1>0, <1>1, <2>1 DEF Connect, Idle
  <2> QED BY <2>2, NamedNone
<1>2. ASSUME NEW s \in Session, login(s) PROVE Named'
  <2>1. pc[s] \in {"born", "row"} /\ \E g \in {"row", "greet"} : pc' = [pc EXCEPT ![s] = g]
    BY <1>2 DEF login, LoginRow, LoginTell
  <2>2. \A t \in Session : pc'[t] # "name"
    BY <1>0, <2>1 DEF AtEase
  <2> QED BY <2>2, NamedNone
<1>3. ASSUME NEW s \in Session, Builtin(s) \/ Command(s) PROVE Named'
  <2>1. CASE tell(s) \/ yell(s) \/ EmptyLine(s)
    <3>1. /\ UNCHANGED <<clients, wants>>
          /\ \E g \in {"talk", "gone"} : pc' = [pc EXCEPT ![s] = g]
      BY <2>1 DEF tell, yell, EmptyLine, Goes, loops
    <3> QED BY <1>0, <3>1, NamedKept DEF AtEase
  <2>2. CASE logout(s) \/ Command(s)
    <3>1. /\ \E g \in {"leave", "pipe"} : pc' = [pc EXCEPT ![s] = g]
          /\ \A t \in Session \ {s} : pc[t] \in Idle
      BY <2>2, MultiAssumption DEF logout, Command, Types, Apart, Goes
    <3>2. \A t \in Session : pc'[t] # "name"
      BY <1>0, <3>1 DEF Idle
    <3> QED BY <3>2, NamedNone
  <2>3. CASE rename(s)
    <3>1. PICK nm \in Name :
            /\ IF collision(s, nm) THEN UNCHANGED <<pc, wants>>
               ELSE Goes(s, "name") /\ wants' = [wants EXCEPT ![s] = nm]
            /\ clients' = clients
            /\ \A t \in Session \ {s} : pc[t] \in Idle
      BY <2>3 DEF rename, Types, Apart, Taking
    <3>2. CASE collision(s, nm)
      BY <3>1, <3>2, NamedKept
    <3>3. CASE ~collision(s, nm)
      <4>1. /\ pc'[s] = "name" /\ wants'[s] = nm
            /\ \A t \in Session \ {s} : pc'[t] \in Idle
        BY <1>0, <3>1, <3>3 DEF Goes, IInv, TypeOK
      <4>2. \A t \in Session \ {s} : pc'[t] \in AtEase /\ pc'[t] # "name"
        BY <4>1 DEF Idle, AtEase
      <4>3. ~collision(s, nm)'
        BY <3>1, <3>3 DEF collision
      <4> QED BY <4>1, <4>2, <4>3 DEF Named, collision
    <3> QED BY <3>2, <3>3
  <2> QED BY <1>3, <2>1, <2>2, <2>3 DEF Builtin
<1>4. ASSUME NEW s \in Session, GoesOn(s) PROVE Named'
  <2>1. CASE Look(s) \/ LookPast(s)
    <3>1. UNCHANGED <<clients, wants>> /\ \E S : pc' = Struck(S)
      BY <2>1 DEF Look, LookPast, shared
    <3> QED BY <3>1, NamedKept, Strikes DEF IInv, AtEase
  <2>2. CASE Said(s) \/ Leaves(s) \/ WaitKid(s)
    <3>1. UNCHANGED <<clients, wants>> /\ \E g \in {"prompt", "gone"} : pc' = [pc EXCEPT ![s] = g]
      BY <2>2 DEF Said, Leaves, WaitKid, still, shared, loops, Goes
    <3> QED BY <1>0, <3>1, NamedKept DEF AtEase
  <2>3. CASE Renames(s) \/ Fork(s)
    <3>1. pc[s] \in {"name", "pipe"} /\ \E g \in {"talk", "wait"} : pc' = [pc EXCEPT ![s] = g]
      BY <2>3 DEF Renames, Fork, Goes
    <3>2. \A t \in Session : t # s => pc[t] # "name"
      BY <1>0, <3>1 DEF Named, AtEase
    <3>3. \A t \in Session : pc'[t] # "name"
      BY <1>0, <3>1, <3>2
    <3> QED BY <3>3, NamedNone
  <2> QED BY <1>4, <2>1, <2>2, <2>3 DEF GoesOn
<1>5. ASSUME NEW s \in Session, broadcast(s) \/ openForRead(s) PROVE Named'
  BY <1>5, NamedKept DEF broadcast, openForRead, shared, loops
<1>6. ASSUME NEW s \in Session, KidStep(s) PROVE Named'
  <2>1. UNCHANGED <<clients, wants>> /\ (pc' = pc \/ \E S : pc' = Struck(S))
    BY <1>6 DEF KidStep, KidSignal, KidOpen, KidRead, KidWrite, KidExit, still, loops
  <2> QED BY <2>1, NamedKept, Strikes DEF IInv, AtEase
<1>7. CASE UNCHANGED vars
  BY <1>7, NamedKept DEF vars, shared, loops
<1> QED BY <1>1, <1>2, <1>3, <1>4, <1>5, <1>6, <1>7 DEF Next

LEMMA SameOnline ==
  ASSUME pid_table' = pid_table, \A n \in Id : clients'[n].name = clients[n].name
  PROVE  online' = online
BY DEF online

LEMMA LoginReg ==
  ASSUME IInv, Taking, NEW s \in Session, LoginRow(s)
  PROVE  Reg!Next
<1> DEFINE n == num[s]
<1>1. n \in Id /\ n \in drawTicket /\ s # None
  BY DEF LoginRow, IInv, Numbered, Claimed, Drawn, None, Session, Taking
<1>2. DOMAIN online = {m \in Id : pid_table[m] # None}
  BY DEF online
<1>3. Reg!Smallest(n)
  BY <1>1, <1>2 DEF Reg!Smallest, drawTicket, freeRows
<1>4. /\ pid_table \in [Id -> Session \cup {None}] /\ clients \in [Id -> Row]
      /\ pid_table' = [pid_table EXCEPT ![n] = s]
      /\ clients' = [clients EXCEPT ![n] = [name |-> NoName, fifos |-> {}]]
  BY DEF LoginRow, newRow, IInv, TypeOK, Row
<1> HIDE DEF n
<1>5. online' = [m \in DOMAIN online \cup {n} |-> IF m = n THEN NoName ELSE online[m]]
  <2>1. {m \in Id : pid_table'[m] # None} = {m \in Id : pid_table[m] # None} \cup {n}
    BY <1>1, <1>4
  <2>2. \A m \in Id : clients'[m].name = IF m = n THEN NoName ELSE clients[m].name
    BY <1>1, <1>4
  <2> QED BY <1>2, <2>1, <2>2 DEF online
<1> QED BY <1>1, <1>3, <1>5 DEF Reg!Next, Reg!Login

LEMMA LeavesReg ==
  ASSUME IInv, Taking, NEW s \in Session, Leaves(s)
  PROVE  Reg!Next
<1> DEFINE n == num[s]
<1>1. n \in Id /\ pid_table[n] # None
  <2>1. pc[s] = "leave"
    BY DEF Leaves
  <2> QED BY <2>1 DEF IInv, Numbered, Claimed, RowIsOwn, mine, None, Session, Live, Taking
<1>2. /\ pid_table \in [Id -> Session \cup {None}]
      /\ pid_table' = [pid_table EXCEPT ![n] = None] /\ clients' = clients
  BY DEF Leaves, returnTicket, IInv, TypeOK
<1> HIDE DEF n
<1>3. {m \in Id : pid_table'[m] # None} = {m \in Id : pid_table[m] # None} \ {n}
  BY <1>1, <1>2
<1>4. n \in DOMAIN online /\ online' = [m \in DOMAIN online \ {n} |-> online[m]]
  BY <1>1, <1>2, <1>3 DEF online
<1> QED BY <1>1, <1>4 DEF Reg!Next, Reg!Logout

\* Every row counts in the collision test: a name is given once.
LEMMA RenamesReg ==
  ASSUME IInv, Taking, Named, NEW s \in Session, Renames(s)
  PROVE  Reg!Next
<1> DEFINE n == num[s]
           nm == wants[s]
<1>1. /\ pc[s] = "name" /\ pid_table' = pid_table
      /\ clients' = [clients EXCEPT ![n].name = nm]
  BY DEF Renames
<1>2. n \in Id /\ pid_table[n] # None
  BY <1>1 DEF IInv, Numbered, Claimed, RowIsOwn, mine, None, Session, Live, Taking
<1>3. nm \in Name /\ ~collision(s, nm)
  BY <1>1 DEF Named
<1> HIDE DEF n, nm
<1>4. \A m \in Id : clients'[m].name = IF m = n THEN nm ELSE clients[m].name
  <2>1. clients \in [Id -> Row]
    BY DEF IInv, TypeOK, Row
  <2> QED BY <1>1, <1>2, <2>1 DEF Row
<1>5. DOMAIN online = {m \in Id : pid_table[m] # None} /\ n \in DOMAIN online
  BY <1>2 DEF online
<1>6. \A m \in DOMAIN online : online[m] # nm
  BY <1>3, <1>5 DEF collision, online
<1>7. online' = [online EXCEPT ![n] = nm]
  BY <1>1, <1>4, <1>5 DEF online
<1> QED BY <1>2, <1>3, <1>5, <1>6, <1>7 DEF Reg!Next, Reg!Rename

LEMMA StepReg ==
  ASSUME IInv, Taking, Named, [Next]_vars
  PROVE  Reg!Next \/ online' = online
<1>1. CASE Connect
  BY <1>1, SameOnline DEF Connect, shared
<1>2. ASSUME NEW s \in Session, login(s) PROVE Reg!Next \/ online' = online
  BY <1>2, LoginReg, SameOnline DEF login, LoginTell, shared
<1>3. ASSUME NEW s \in Session, Builtin(s) PROVE Reg!Next \/ online' = online
  BY <1>3, SameOnline DEF Builtin, tell, yell, rename, logout, EmptyLine, Types
<1>4. ASSUME NEW s \in Session, Command(s) PROVE online' = online
  BY <1>4, CommandNames, SameOnline DEF Command, Types
<1>5. ASSUME NEW s \in Session, GoesOn(s) PROVE Reg!Next \/ online' = online
  <2>1. CASE Look(s) \/ LookPast(s) \/ Said(s) \/ Fork(s) \/ WaitKid(s)
    <3>1. UNCHANGED <<pid_table, clients>>
      BY <2>1 DEF Look, LookPast, Said, Fork, WaitKid, still, shared
    <3> QED BY <3>1, SameOnline
  <2> QED BY <1>5, <2>1, RenamesReg, LeavesReg DEF GoesOn
<1>6. ASSUME NEW s \in Session, broadcast(s) \/ openForRead(s) PROVE online' = online
  BY <1>6, SameOnline DEF broadcast, openForRead, shared
<1>7. ASSUME NEW s \in Session, KidStep(s) PROVE online' = online
  BY <1>7, SameOnline DEF KidStep, KidSignal, KidOpen, KidRead, KidWrite, KidExit, still
<1>8. CASE UNCHANGED vars
  BY <1>8, SameOnline DEF vars, shared
<1> QED BY <1>1, <1>2, <1>3, <1>4, <1>5, <1>6, <1>7, <1>8 DEF Next

(* Implements: when users connect and rename one at a time, the sessions   *)
(* give numbers and names as Registry promises: the smallest free number   *)
(* to who logs in, a name to one user at most, both free again at logout.  *)
THEOREM Implements == ASSUME Taking PROVE Spec => ImplementsRegistry
<1>1. Init => Named /\ Reg!Init
  BY DEF Init, Named, Reg!Init, online
<1>2. IInv /\ Named /\ [Next]_vars => Named' /\ [Reg!Next]_online
  BY StepNamed, StepReg
<1> QED BY <1>1, <1>2, Invariance, PTL DEF Spec, ImplementsRegistry, Reg!Spec

-----------------------------------------------------------------------------
(* User pipes, when users do not connect while others are busy.  What a    *)
(* flag says has to be carried from the line that sets it through the      *)
(* steps of the child up to the line that clears it, past users who leave  *)
(* and numbers that are given again.                                       *)

\* A session has a child while it waits, which runs, and has one to fork before.
Childless == \A s \in Session :
  /\ pc[s] \notin {"pipe", "wait"} => kid[s] = NoKid
  /\ pc[s] = "pipe" => kid[s].st = "fork"
  /\ pc[s] = "wait" => kid[s].st \in {"send", "open", "run", "done", "killed"}

\* A new user finds nothing flagged or due; nothing is in a FIFO that nobody can have open.
NewRow == \A s \in Session : pc[s] = "row" =>
  /\ clients[num[s]].fifos = {}
  /\ \A f \in Id : due[<<f, num[s]>>] = <<>> /\ <<f, num[s]>> \notin spoilt
Unread ==
  \A n \in Id :
    (\A t \in Session : pc[t] \in Live => num[t] # n) => \A f \in Id : fifo[<<f, n>>] = <<>>

\* The child's ends: it reads what its session has open, and flags what it is to write to.
Joined(s) ==
  /\ kid[s].in \in Id => kid[s].in \in recvFds[s]
  /\ kid[s].filter => kid[s].in # Tty
  /\ kid[s].in \in Id /\ ~Turning(s) => kid[s].in \notin clients[num[s]].fifos
  /\ kid[s].to # 0 => num[s] \in clients[kid[s].to].fifos
  /\ kid[s].st = "open" => kid[s].to # 0
  /\ kid[s].to # 0 /\ kid[s].st \in {"run", "done", "killed"} =>
       \E t \in Session : pc[t] \in Live /\ num[t] = kid[s].to
\* What it was to receive it has read, or that is in the FIFO; what it does not read is spoilt.
Rest(s) ==
  kid[s].in \in Id =>
    /\ kid[s].filter /\ kid[s].clean /\ ~Turning(s) =>
         kid[s].got \o fifo[fifoName(s)] = kid[s].expects
    /\ ~kid[s].filter \/ kid[s].st = "killed" => fifoName(s) \in spoilt
\* When it ends it has read everything.
Ended(s) ==
  kid[s].st = "done" /\ kid[s].in \in Id /\ kid[s].filter =>
    ~Turning(s) /\ fifo[fifoName(s)] = <<>>
OneChild(s) == Joined(s) /\ Rest(s) /\ Ended(s)
Children == \A s \in Session : pc[s] \in {"pipe", "wait"} => OneChild(s)

Coming(f, n) == \E s \in Session : kid[s].st \in {"fork", "send", "open"} /\ num[s] = f /\ kid[s].to = n
Reading(t, f) == kid[t].filter /\ kid[t].in = f /\ kid[t].st # "done"

\* What isFifoExists and the FIFO from f say of each other, for the user in session t.
Flagged(t, f) ==
  LET p == <<f, num[t]>>
  IN  /\ IF f \in clients[num[t]].fifos THEN f \in recvFds[t] \/ Coming(f, num[t])
         ELSE due[p] = <<>>
      /\ p \in spoilt \/ Reading(t, f) \/ fifo[p] = due[p]
Flags == \A t \in Session : pc[t] \in Live => \A f \in Id : Flagged(t, f)

\* With this the two invariants are inductive, if users connect one at a time.
FInv == Childless /\ NewRow /\ Unread /\ Children /\ Flags

\* One user at a time connects, and pipes are as flagged.
Calm == IInv /\ Waiting /\ FInv

-----------------------------------------------------------------------------
(* Who is there.                                                           *)

LEMMA Ranges ==
  ASSUME IInv
  PROVE  /\ kid \in [Session -> Child] /\ fifo \in [Fifo -> Seq(Nat)] /\ due \in [Fifo -> Seq(Nat)]
         /\ clients \in [Id -> Row] /\ pc \in [Session -> Stage] /\ num \in [Session -> Id \cup {0}]
         /\ recvFds \in [Session -> SUBSET Id] /\ spoilt \subseteq Fifo
         /\ 0 \notin Id /\ Null \notin Id
<1>1. 0 \notin Id /\ Null \notin Id
  <2>1. -1 \notin Nat
    OBVIOUS
  <2> QED BY <2>1, MultiAssumption DEF Null
<1> QED BY <1>1 DEF IInv, TypeOK, Row, Stage

\* Two sessions that are there have different numbers.
LEMMA OneEach ==
  ASSUME Calm, NEW s \in Session, NEW t \in Session, pc[s] \in Live \cup {"row"},
         pc[t] \in Live \cup {"row"}, num[s] = num[t]
  PROVE  s = t
BY DEF Calm, IInv, Claimed, RowIsOwn, mine

LEMMA Numbers ==
  ASSUME Calm, NEW s \in Session, pc[s] # "none"
  PROVE  num[s] \in Id
BY DEF Calm, IInv, Numbered

\* Whoever has a child is in its command, and nobody else is busy.
LEMMA Waiter ==
  ASSUME Calm, NEW s \in Session, kid[s].st # "none" \/ pc[s] \in {"pipe", "wait"}
  PROVE  /\ pc[s] \in {"pipe", "wait"} /\ pc[s] \in Live /\ num[s] \in Id /\ OneChild(s)
         /\ kid[s].st # "none" /\ (kid[s].st = "fork" <=> pc[s] = "pipe")
         /\ \A t \in Session : t # s => pc[t] \notin Busy /\ kid[t] = NoKid
         /\ \A S : Struck(S) = pc
<1>1. pc[s] \in {"pipe", "wait"}
  BY DEF Calm, FInv, Childless, NoKid
<1>2. num[s] \in Id /\ OneChild(s)
  BY <1>1, Numbers DEF Calm, FInv, Children
<1>3. \A t \in Session : t # s => pc[t] \notin Busy
  BY <1>1 DEF Calm, IInv, Claimed, Alone, Busy
<1>4. kid[s].st # "none" /\ (kid[s].st = "fork" <=> pc[s] = "pipe")
  BY <1>1 DEF Calm, FInv, Childless
<1>5. \A t \in Session : t # s => kid[t] = NoKid
  BY <1>3 DEF Calm, FInv, Childless, Busy
<1>6. \A S : Struck(S) = pc
  BY <1>1, <1>3, Ranges DEF Struck, Busy, Calm
<1> QED BY <1>1, <1>2, <1>3, <1>4, <1>5, <1>6 DEF Live

\* When nobody is in a command nobody has a child.
LEMMA Resting ==
  ASSUME Calm, NoCommand
  PROVE  \A t \in Session : kid[t] = NoKid /\ kid[t].st = "none" /\ ~kid[t].filter /\ kid[t].in \notin Id
<1>1. 0 \notin Id
  BY Ranges DEF Calm
<1> QED BY <1>1 DEF Calm, FInv, Childless, NoCommand, NoKid, Tty

LEMMA NoneComing ==
  ASSUME Calm, NoCommand
  PROVE  \A t \in Session, f \in Id : ~Coming(f, num[t]) /\ ~Reading(t, f)
BY Resting DEF Coming, Reading

-----------------------------------------------------------------------------
(* Steps that leave pipes and children alone.                              *)

LEMMA InitFInv == Init => FInv
<1> SUFFICES ASSUME Init PROVE FInv
  OBVIOUS
<1>1. Childless /\ NewRow /\ Children /\ Flags
  BY DEF Init, Childless, NewRow, Children, Flags, Live
<1>2. Unread
  BY DEF Init, Unread, Fifo
<1> QED BY <1>1, <1>2 DEF FInv

\* Talk, names, signals and handlers: a FIFO may be opened, and a login struck down.
LEMMA QuietFInv ==
  ASSUME Calm, UNCHANGED <<num, kid, fifo, due, spoilt>>,
         \A n \in Id : clients'[n].fifos = clients[n].fifos,
         \A t \in Session : /\ recvFds[t] \subseteq recvFds'[t]
                            /\ pc'[t] \in Live <=> pc[t] \in Live
                            /\ pc'[t] = "row" => pc[t] = "row"
                            /\ pc'[t] = "pipe" <=> pc[t] = "pipe"
                            /\ pc'[t] = "wait" <=> pc[t] = "wait"
  PROVE  FInv'
<1>1. Childless'
  BY DEF Calm, FInv, Childless
<1>2. NewRow'
  <2>1. \A t \in Session : pc'[t] = "row" => num[t] \in Id
    BY Numbers
  <2> QED BY <2>1 DEF Calm, FInv, NewRow
<1>3. Unread'
  BY DEF Calm, FInv, Unread
<1>4. Children'
  <2> SUFFICES ASSUME NEW s \in Session, pc[s] \in {"pipe", "wait"} PROVE OneChild(s)'
    BY DEF Children
  <2>1. OneChild(s) /\ num[s] \in Id /\ kid[s] \in Child
    BY Waiter, Ranges DEF Calm
  <2>2. kid[s].to # 0 => kid[s].to \in Id
    BY <2>1 DEF Child
  <2>3. Joined(s)'
    BY <2>1, <2>2 DEF OneChild, Joined, Turning
  <2>4. Rest(s)' /\ Ended(s)'
    BY <2>1 DEF OneChild, Rest, Ended, Turning, fifoName
  <2> QED BY <2>3, <2>4 DEF OneChild
<1>5. Flags'
  <2> SUFFICES ASSUME NEW t \in Session, pc[t] \in Live, NEW f \in Id PROVE Flagged(t, f)'
    BY DEF Flags
  <2>1. Flagged(t, f) /\ num[t] \in Id
    BY Numbers DEF Calm, FInv, Flags, Live
  <2>2. Coming(f, num[t])' = Coming(f, num[t]) /\ Reading(t, f)' = Reading(t, f)
    BY DEF Coming, Reading
  <2> QED BY <2>1, <2>2 DEF Flagged
<1> QED BY <1>1, <1>2, <1>3, <1>4, <1>5 DEF FInv

LEMMA ConnectFInv ==
  ASSUME Calm, Connect
  PROVE  FInv'
<1>0. PICK n \in drawTicket : num' = [num EXCEPT ![sessions + 1] = n]
  BY DEF Connect
<1>1. /\ pc' = [pc EXCEPT ![sessions + 1] = "born"]
      /\ UNCHANGED <<clients, recvFds, kid, fifo, due, spoilt>>
      /\ \A t \in Session : t # sessions + 1 => pc[t] \in Idle
  BY DEF Connect, Apart, Waiting, Calm, shared, signals, files
<1>2. sessions + 1 \in Session /\ sessions + 1 > sessions
  BY MultiAssumption DEF Connect, Calm, IInv, TypeOK, Session
<1>3. PICK new \in Session : new = sessions + 1 /\ pc[new] = "none"
  BY <1>2 DEF Calm, IInv, Numbered
<1>4. /\ pc'[new] = "born"
      /\ \A t \in Session : t # new => pc'[t] = pc[t] /\ num'[t] = num[t]
  BY <1>0, <1>1, <1>3, Ranges DEF Calm
<1>5. NoCommand
  BY <1>1, <1>3 DEF NoCommand, Idle
<1>6. \A t \in Session : pc'[t] \in Live <=> pc[t] \in Live /\ t # new
  BY <1>3, <1>4 DEF Live
<1>7. Childless' /\ NewRow' /\ Children'
  <2>1. \A t \in Session : pc'[t] \notin {"row", "pipe", "wait"}
    BY <1>1, <1>3, <1>4 DEF Idle
  <2> QED BY <1>1, <1>5, <2>1, Resting DEF Childless, NewRow, Children
<1>8. Unread'
  BY <1>1, <1>3, <1>4, <1>6 DEF Calm, FInv, Unread, Live
<1>9. Flags'
  <2> SUFFICES ASSUME NEW t \in Session, pc'[t] \in Live, NEW f \in Id PROVE Flagged(t, f)'
    BY DEF Flags
  <2>1. pc[t] \in Live /\ t # new /\ num'[t] = num[t]
    BY <1>4, <1>6
  <2>2. Flagged(t, f) /\ ~Coming(f, num[t]) /\ ~Reading(t, f)
    BY <1>5, <2>1, NoneComing DEF Calm, FInv, Flags
  <2> QED BY <1>1, <2>1, <2>2 DEF Flagged
<1> QED BY <1>7, <1>8, <1>9 DEF FInv

\* The row's new user has no session yet: nobody who is there looks at its flags.
LEMMA LoginRowFInv ==
  ASSUME Calm, NEW s \in Session, LoginRow(s)
  PROVE  FInv'
<1>1. /\ UNCHANGED <<num, recvFds, kid, fifo>>
      /\ pc[s] = "born" /\ pc' = [pc EXCEPT ![s] = "row"]
      /\ clients' = [clients EXCEPT ![num[s]] = [name |-> NoName, fifos |-> {}]]
      /\ due' = [p \in Fifo |-> IF p[2] = num[s] THEN <<>> ELSE due[p]]
      /\ spoilt' = {p \in spoilt : p[2] # num[s]}
  BY DEF LoginRow, newRow, signals
<1>2. num[s] \in Id /\ pid_table[num[s]] = None
  BY <1>1, Numbers DEF Calm, IInv, Claimed, Drawn, drawTicket, freeRows
<1>3. /\ pc'[s] = "row" /\ \A t \in Session : t # s => pc'[t] = pc[t]
      /\ clients'[num[s]].fifos = {} /\ \A n \in Id : n # num[s] => clients'[n] = clients[n]
  BY <1>1, <1>2, Ranges DEF Calm
<1>4. NoCommand /\ \A t \in Session : t # s => pc[t] \notin Busy
  BY <1>1 DEF Calm, IInv, Claimed, Alone, Busy, NoCommand
<1>5. \A t \in Session : /\ pc'[t] \in Live <=> pc[t] \in Live
                         /\ pc'[t] = "row" => t = s
                         /\ pc'[t] \notin {"pipe", "wait"}
  BY <1>1, <1>3, <1>4 DEF Busy, Live
<1>6. ASSUME NEW t \in Session, pc[t] \in Live PROVE num[t] # num[s] /\ num[t] \in Id
  <2>1. pid_table[num[t]] = t /\ num[t] \in Id
    BY <1>6, Numbers DEF Calm, IInv, Claimed, RowIsOwn, mine, Live
  <2> QED BY <1>2, <2>1 DEF None, Session
<1>7. \A p \in Fifo : IF p[2] = num[s] THEN due'[p] = <<>> /\ p \notin spoilt'
                      ELSE due'[p] = due[p] /\ (p \in spoilt' <=> p \in spoilt)
  BY <1>1
<1>8. Childless' /\ Children'
  BY <1>1, <1>4, <1>5, Resting DEF Childless, Children
<1>9. NewRow'
  BY <1>1, <1>2, <1>3, <1>5, <1>7 DEF NewRow, Fifo
<1>10. Unread'
  BY <1>1, <1>5 DEF Calm, FInv, Unread
<1>11. Flags'
  <2> SUFFICES ASSUME NEW t \in Session, pc[t] \in Live, NEW f \in Id PROVE Flagged(t, f)'
    BY <1>5 DEF Flags
  <2>1. clients'[num[t]] = clients[num[t]] /\ <<f, num[t]>> \in Fifo /\ num[t] # num[s]
    BY <1>3, <1>6 DEF Fifo
  <2>2. Flagged(t, f) /\ ~Coming(f, num[t]) /\ ~Reading(t, f)
    BY <1>4, NoneComing DEF Calm, FInv, Flags
  <2>3. due'[<<f, num[t]>>] = due[<<f, num[t]>>] /\ (<<f, num[t]>> \in spoilt => <<f, num[t]>> \in spoilt')
    BY <1>7, <2>1
  <2> QED BY <1>1, <2>1, <2>2, <2>3 DEF Flagged
<1> QED BY <1>8, <1>9, <1>10, <1>11 DEF FInv

\* It comes to an empty mailbox, whatever its number was used for before.
LEMMA LoginTellFInv ==
  ASSUME Calm, NEW s \in Session, LoginTell(s)
  PROVE  FInv'
<1>1. /\ UNCHANGED <<clients, num, recvFds, kid, fifo, due, spoilt>>
      /\ pc[s] = "row" /\ pc' = [pc EXCEPT ![s] = "greet"]
  BY DEF LoginTell, shared, signals, files
<1>2. NoCommand /\ \A t \in Session : t # s => pc[t] \notin Busy
  BY <1>1 DEF Calm, IInv, Claimed, Alone, Busy, NoCommand
<1>3. pc'[s] = "greet" /\ \A t \in Session : t # s => pc'[t] = pc[t]
  BY <1>1, Ranges DEF Calm
<1>4. \A t \in Session : /\ pc'[t] \in Live <=> pc[t] \in Live \/ t = s
                         /\ pc'[t] \notin {"row", "pipe", "wait"}
  BY <1>2, <1>3 DEF Busy, Live
<1>5. num[s] \in Id /\ clients[num[s]].fifos = {} /\ \A f \in Id : due[<<f, num[s]>>] = <<>>
  BY <1>1, Numbers DEF Calm, FInv, NewRow
<1>6. \A f \in Id : fifo[<<f, num[s]>>] = <<>>
  <2>1. \A t \in Session : pc[t] \in Live => num[t] # num[s]
    BY <1>1, OneEach DEF Live
  <2> QED BY <1>5, <2>1 DEF Calm, FInv, Unread
<1>7. Childless' /\ NewRow' /\ Children'
  BY <1>1, <1>2, <1>4, Resting DEF Childless, NewRow, Children
<1>8. Unread'
  BY <1>1, <1>4 DEF Calm, FInv, Unread
<1>9. Flags'
  <2> SUFFICES ASSUME NEW t \in Session, pc'[t] \in Live, NEW f \in Id PROVE Flagged(t, f)'
    BY DEF Flags
  <2>1. ~Coming(f, num[t]) /\ ~Reading(t, f)
    BY <1>2, NoneComing
  <2>2. CASE t = s
    BY <1>1, <1>5, <1>6, <2>2 DEF Flagged
  <2>3. CASE t # s
    <3>1. Flagged(t, f)
      BY <1>4, <2>3 DEF Calm, FInv, Flags
    <3> QED BY <1>1, <2>1, <3>1 DEF Flagged
  <2> QED BY <2>2, <2>3
<1> QED BY <1>7, <1>8, <1>9 DEF FInv

\* Who leaves takes along what others sent to it, and nothing else.
LEMMA DepartFInv ==
  ASSUME Calm, NEW s \in Session, EmptyLine(s) \/ Leaves(s)
  PROVE  FInv'
<1>1. /\ UNCHANGED <<clients, num, recvFds, kid, due, spoilt>>
      /\ pc[s] \in Live /\ pc' = [pc EXCEPT ![s] = "gone"] /\ fifo' = Closed(s)
  BY DEF EmptyLine, Leaves, Types, Goes, signals, Live
<1>2. NoCommand
  <2>1. CASE EmptyLine(s)
    <3>1. "leave" \notin Together
      BY MultiAssumption
    <3> QED BY <2>1, <3>1 DEF EmptyLine, Types, Apart, Idle, NoCommand
  <2>2. CASE Leaves(s)
    BY <2>2 DEF Leaves, Calm, IInv, Claimed, Alone, Busy, NoCommand
  <2> QED BY <2>1, <2>2
<1>3. num[s] \in Id /\ pc'[s] = "gone" /\ \A t \in Session : t # s => pc'[t] = pc[t]
  BY <1>1, Numbers, Ranges DEF Calm, Live
<1>4. \A t \in Session : /\ pc'[t] \in Live <=> pc[t] \in Live /\ t # s
                         /\ pc'[t] = "row" => pc[t] = "row"
                         /\ pc'[t] \notin {"pipe", "wait"}
  BY <1>2, <1>3 DEF Live, NoCommand
<1>5. \A t \in Session : pc[t] \in Live /\ t # s => num[t] # num[s]
  BY <1>1, OneEach
<1>6. \A f, n \in Id : fifo'[<<f, n>>] = IF n = num[s] THEN <<>> ELSE fifo[<<f, n>>]
  BY <1>1, <1>5 DEF Closed, HasOpen, Fifo
<1>7. Childless' /\ Children'
  BY <1>1, <1>2, <1>4, Resting DEF Childless, Children
<1>8. NewRow'
  BY <1>1, <1>4 DEF Calm, FInv, NewRow
<1>9. Unread'
  <2> SUFFICES ASSUME NEW n \in Id, \A t \in Session : pc'[t] \in Live => num[t] # n, NEW f \in Id
               PROVE  fifo'[<<f, n>>] = <<>>
    BY <1>1 DEF Unread
  <2>1. CASE n = num[s]
    BY <1>6, <2>1
  <2>2. CASE n # num[s]
    BY <1>4, <1>6, <2>2 DEF Calm, FInv, Unread
  <2> QED BY <2>1, <2>2
<1>10. Flags'
  <2> SUFFICES ASSUME NEW t \in Session, pc'[t] \in Live, NEW f \in Id PROVE Flagged(t, f)'
    BY DEF Flags
  <2>1. pc[t] \in Live /\ t # s /\ num[t] # num[s] /\ num[t] \in Id
    BY <1>4, <1>5, Numbers DEF Live
  <2>2. Flagged(t, f) /\ ~Coming(f, num[t]) /\ ~Reading(t, f)
    BY <1>2, <2>1, NoneComing DEF Calm, FInv, Flags
  <2> QED BY <1>1, <1>6, <2>1, <2>2 DEF Flagged
<1> QED BY <1>7, <1>8, <1>9, <1>10 DEF FInv

\* A signal past the end of the table: a command that is killed leaves its FIFO spoilt.
LEMMA LookPastFInv ==
  ASSUME Calm, NEW u \in Session, LookPast(u)
  PROVE  FInv'
<1>0. PICK K \in SUBSET {t \in Session : kid[t].st = "run"} :
        /\ pc' = Struck(Session)
        /\ kid' = [t \in Session |-> IF t \in K THEN [kid[t] EXCEPT !.st = "killed"] ELSE kid[t]]
        /\ spoilt' = spoilt \cup (Fifo \cap {<<kid[t].in, num[t]>> : t \in K})
        /\ UNCHANGED <<clients, num, recvFds, fifo, due>>
  BY DEF LookPast, shared
<1>1. \A t \in Session : pc'[t] = pc[t] \/ (pc[t] \in {"born", "row"} /\ pc'[t] = "gone")
  BY <1>0, Strikes DEF Calm, IInv
<1>2. \A t \in Session : /\ pc'[t] \in Live <=> pc[t] \in Live
                         /\ pc'[t] = "row" => pc[t] = "row"
                         /\ pc'[t] \in {"pipe", "wait"} => pc'[t] = pc[t]
                         /\ pc[t] \in {"pipe", "wait"} => pc'[t] = pc[t]
  BY <1>1 DEF Live
<1>3. spoilt \subseteq spoilt'
  BY <1>0
<1>4. \A t \in Session :
        \/ kid'[t] = kid[t]
        \/ /\ kid[t].st = "run" /\ kid'[t].st = "killed"
           /\ kid'[t].in = kid[t].in /\ kid'[t].to = kid[t].to /\ kid'[t].filter = kid[t].filter
           /\ kid'[t].expects = kid[t].expects /\ kid'[t].clean = kid[t].clean
           /\ kid'[t].got = kid[t].got
           /\ kid[t].in \in Id /\ num[t] \in Id => <<kid[t].in, num[t]>> \in spoilt'
  <2>1. kid \in [Session -> Child]
    BY Ranges DEF Calm
  <2>2. \A t \in Session :
          LET k == [kid[t] EXCEPT !.st = "killed"]
          IN  /\ k.st = "killed" /\ k.in = kid[t].in /\ k.to = kid[t].to /\ k.filter = kid[t].filter
              /\ k.expects = kid[t].expects /\ k.clean = kid[t].clean /\ k.got = kid[t].got
    BY <2>1 DEF Child
  <2>3. \A t \in K : kid[t].in \in Id /\ num[t] \in Id => <<kid[t].in, num[t]>> \in spoilt'
    BY <1>0 DEF Fifo
  <2> QED BY <1>0, <2>2, <2>3
<1>5. Childless'
  <2> SUFFICES ASSUME NEW t \in Session
               PROVE  /\ pc'[t] \notin {"pipe", "wait"} => kid'[t] = NoKid
                      /\ pc'[t] = "pipe" => kid'[t].st = "fork"
                      /\ pc'[t] = "wait" => kid'[t].st \in {"send", "open", "run", "done", "killed"}
    BY DEF Childless
  <2>1. /\ pc[t] \notin {"pipe", "wait"} => kid[t] = NoKid
        /\ pc[t] = "pipe" => kid[t].st = "fork"
        /\ pc[t] = "wait" => kid[t].st \in {"send", "open", "run", "done", "killed"}
    BY DEF Calm, FInv, Childless
  <2>2. CASE kid'[t] = kid[t]
    BY <1>2, <2>1, <2>2
  <2>3. CASE kid[t].st = "run" /\ kid'[t].st = "killed"
    <3>1. pc[t] = "wait"
      <4>1. NoKid.st # "run"
        BY DEF NoKid
      <4> QED BY <2>1, <2>3, <4>1
    <3>2. pc'[t] = "wait"
      BY <1>2, <3>1
    <3> QED BY <2>3, <3>2
  <2> QED BY <1>4, <2>2, <2>3
<1>6. NewRow'
  <2>1. \A t \in Session : pc'[t] = "row" => \A K1 \in K : kid[K1].st = "none"
    <3> SUFFICES ASSUME NEW t \in Session, pc[t] = "row", NEW v \in K PROVE FALSE
      BY <1>2
    <3>1. v \in Session /\ kid[v].st = "run"
      BY <1>0
    <3>2. pc[v] \in {"pipe", "wait"} /\ \A w \in Session : w # v => pc[w] \notin Busy
      BY <3>1, Waiter
    <3> QED BY <3>1, <3>2 DEF Busy
  <2>2. \A t \in Session : pc'[t] = "row" => spoilt' = spoilt
    BY <1>0, <2>1
  <2> QED BY <1>0, <1>2, <2>2 DEF Calm, FInv, NewRow
<1>7. Unread'
  BY <1>0, <1>2 DEF Calm, FInv, Unread
<1>8. Children'
  <2> SUFFICES ASSUME NEW s \in Session, pc[s] \in {"pipe", "wait"} PROVE OneChild(s)'
    BY <1>2 DEF Children
  <2>1. OneChild(s) /\ num[s] \in Id
    BY Waiter
  <2>2. CASE kid'[s] = kid[s]
    <3>1. Joined(s)'
      BY <1>0, <1>2, <2>1, <2>2 DEF OneChild, Joined, Turning
    <3>2. Rest(s)' /\ Ended(s)'
      BY <1>0, <1>3, <2>1, <2>2 DEF OneChild, Rest, Ended, Turning, fifoName
    <3> QED BY <3>1, <3>2 DEF OneChild
  <2>3. CASE kid'[s] # kid[s]
    <3>0. /\ kid[s].st = "run" /\ kid'[s].st = "killed"
          /\ kid'[s].in = kid[s].in /\ kid'[s].to = kid[s].to /\ kid'[s].filter = kid[s].filter
          /\ kid'[s].expects = kid[s].expects /\ kid'[s].clean = kid[s].clean
          /\ kid'[s].got = kid[s].got
          /\ kid[s].in \in Id => <<kid[s].in, num[s]>> \in spoilt'
      BY <1>4, <2>1, <2>3
    <3>1. Joined(s)'
      BY <1>0, <1>2, <2>1, <3>0 DEF OneChild, Joined, Turning
    <3>2. Rest(s)' /\ Ended(s)'
      BY <1>0, <2>1, <3>0 DEF OneChild, Rest, Ended, Turning, fifoName
    <3> QED BY <3>1, <3>2 DEF OneChild
  <2> QED BY <2>2, <2>3
<1>9. Flags'
  <2> SUFFICES ASSUME NEW t \in Session, pc[t] \in Live, NEW f \in Id PROVE Flagged(t, f)'
    BY <1>2 DEF Flags
  <2>1. Flagged(t, f)
    BY DEF Calm, FInv, Flags
  <2>2. Coming(f, num[t]) => Coming(f, num[t])'
    BY <1>0, <1>4 DEF Coming
  <2>3. Reading(t, f) => Reading(t, f)'
    BY <1>4 DEF Reading
  <2> QED BY <1>0, <1>3, <2>1, <2>2, <2>3 DEF Flagged
<1> QED BY <1>5, <1>6, <1>7, <1>8, <1>9 DEF FInv

LEMMA StruckFInv ==
  ASSUME Calm, NEW S, pc' = Struck(S), UNCHANGED <<clients, num, recvFds, kid, fifo, due, spoilt>>
  PROVE  FInv'
<1>1. \A t \in Session : pc'[t] = pc[t] \/ (pc[t] \in {"born", "row"} /\ pc'[t] = "gone")
  BY Strikes DEF Calm, IInv
<1>2. \A t \in Session : /\ recvFds[t] \subseteq recvFds'[t]
                         /\ pc'[t] \in Live <=> pc[t] \in Live
                         /\ pc'[t] = "row" => pc[t] = "row"
                         /\ pc'[t] = "pipe" <=> pc[t] = "pipe"
                         /\ pc'[t] = "wait" <=> pc[t] = "wait"
  BY <1>1 DEF Live
<1> QED BY <1>2, QuietFInv

LEMMA TalkFInv ==
  ASSUME Calm, NEW s \in Session,
         tell(s) \/ yell(s) \/ rename(s) \/ logout(s) \/ Said(s) \/ Renames(s) \/ Look(s)
  PROVE  FInv'
<1>1. CASE Look(s)
  <2>1. /\ \E S : pc' = Struck(S)
        /\ UNCHANGED <<clients, num, recvFds, kid, fifo, due, spoilt>>
    BY <1>1 DEF Look, shared, files
  <2> QED BY <2>1, StruckFInv
<1>2. CASE ~Look(s)
  <2>1. /\ UNCHANGED <<num, recvFds, kid, fifo, due, spoilt>>
        /\ pc[s] \in {"prompt", "greet", "talk", "name"}
        /\ \E where \in {"prompt", "name", "talk", "leave"} : pc' = [pc EXCEPT ![s] = where]
    <3>1. CASE tell(s) \/ yell(s) \/ logout(s)
      BY <3>1 DEF tell, yell, logout, Types, Goes, signals, files
    <3>2. CASE rename(s)
      <4>1. /\ UNCHANGED <<num, recvFds, kid, fifo, due, spoilt>> /\ pc[s] = "prompt"
            /\ pc' = pc \/ pc' = [pc EXCEPT ![s] = "name"]
        BY <3>2 DEF rename, Types, Goes, signals, files
      <4>2. pc = [pc EXCEPT ![s] = "prompt"]
        BY <4>1, Ranges DEF Calm
      <4> QED BY <4>1, <4>2
    <3>3. CASE Said(s) \/ Renames(s)
      BY <3>3 DEF Said, Renames, Goes, signals, files
    <3> QED BY <1>2, <3>1, <3>2, <3>3
  <2>2. \A n \in Id : clients'[n].fifos = clients[n].fifos
    <3>1. CASE clients' = clients
      BY <3>1
    <3>2. CASE Renames(s)
      <4>1. clients' = [clients EXCEPT ![num[s]].name = wants[s]] /\ clients \in [Id -> Row]
        BY <3>2, Ranges DEF Renames, Calm
      <4> QED BY <4>1 DEF Row
    <3> QED BY <1>2, <3>1, <3>2 DEF tell, yell, rename, logout, Said, shared
  <2>3. \A t \in Session : /\ recvFds[t] \subseteq recvFds'[t]
                           /\ pc'[t] \in Live <=> pc[t] \in Live
                           /\ pc'[t] = "row" => pc[t] = "row"
                           /\ pc'[t] = "pipe" <=> pc[t] = "pipe"
                           /\ pc'[t] = "wait" <=> pc[t] = "wait"
    BY <2>1, Ranges DEF Live, Calm
  <2> QED BY <2>1, <2>2, <2>3, QuietFInv
<1> QED BY <1>1, <1>2

LEMMA HandlerFInv ==
  ASSUME Calm, NEW s \in Session, broadcast(s) \/ openForRead(s)
  PROVE  FInv'
<1>1. UNCHANGED <<clients, pc, num, kid, fifo, due, spoilt>>
  BY DEF broadcast, openForRead, shared, files
<1>2. \A t \in Session : recvFds[t] \subseteq recvFds'[t]
  <2>1. recvFds \in [Session -> SUBSET Id]
    BY Ranges DEF Calm
  <2>2. recvFds' = recvFds \/ recvFds' = [recvFds EXCEPT ![s] = @ \cup {sender}]
    BY DEF broadcast, openForRead
  <2> QED BY <2>1, <2>2
<1> QED BY <1>1, <1>2, QuietFInv

-----------------------------------------------------------------------------
(* A command.                                                              *)

\* The flag of what is received is cleared, and then that of what is sent set.
LEMMA FlagsOfLine ==
  ASSUME Calm, NEW s \in Session, num[s] \in Id, NEW l \in Lines,
         clients' = IF Sends(s, l) THEN [Taken(s, l) EXCEPT ![l.to].fifos = @ \cup {num[s]}]
                    ELSE Taken(s, l)
  PROVE  \A m, f \in Id :
           f \in clients'[m].fifos <=>
             \/ Sends(s, l) /\ m = l.to /\ f = num[s]
             \/ f \in clients[m].fifos /\ ~(Receives(s, l) /\ m = num[s] /\ f = l.from)
<1>1. clients \in [Id -> Row] /\ l.from \in Id \cup {0} /\ l.to \in Id \cup {0}
  BY Ranges, MultiAssumption DEF Calm
<1> DEFINE T == Taken(s, l)
<1>2. T \in [Id -> Row]
  BY CommandFlags DEF Calm
<1>3. \A m, f \in Id : f \in T[m].fifos <=>
                         f \in clients[m].fifos /\ ~(Receives(s, l) /\ m = num[s] /\ f = l.from)
  BY <1>1 DEF Taken, Row
<1>4. clients' = IF Sends(s, l) THEN [T EXCEPT ![l.to].fifos = @ \cup {num[s]}] ELSE T
  OBVIOUS
<1>5. Sends(s, l) => l.to \in Id
  BY <1>1 DEF Sends
<1> HIDE DEF T
<1>6. \A m, f \in Id : f \in clients'[m].fifos <=>
                         f \in T[m].fifos \/ (Sends(s, l) /\ m = l.to /\ f = num[s])
  BY <1>2, <1>4, <1>5 DEF Row
<1> QED BY <1>3, <1>6

LEMMA CommandFInv ==
  ASSUME Calm, NEW s \in Session, Command(s)
  PROVE  FInv'
<1>0. PICK l \in Lines :
       LET p == <<l.from, num[s]>>
       IN  /\ Types(s, "command") /\ Goes(s, "pipe")
           /\ clients' = IF Sends(s, l)
                         THEN [Taken(s, l) EXCEPT ![l.to].fifos = @ \cup {num[s]}]
                         ELSE Taken(s, l)
           /\ IF Receives(s, l) \/ Sends(s, l) THEN announce(s) ELSE UNCHANGED <<todo, unheard>>
           /\ kid' = [kid EXCEPT ![s] = kidOf(s, l)]
           /\ IF Receives(s, l)
              THEN /\ due' = [due EXCEPT ![p] = <<>>]
                   /\ spoilt' = IF l.filter THEN spoilt \ {p} ELSE spoilt \cup {p}
              ELSE UNCHANGED <<due, spoilt>>
           /\ UNCHANGED <<wants, fifo>>
  BY CommandDoes DEF Calm
<1> DEFINE n == num[s]
           p == <<l.from, n>>
           k == kidOf(s, l)
<1>1. /\ UNCHANGED <<num, recvFds, fifo>> /\ pc[s] = "prompt" /\ n \in Id
      /\ \A t \in Session : t # s => pc[t] \in Idle
  BY <1>0, Typing, MultiAssumption DEF Calm
<1>2. pc'[s] = "pipe" /\ \A t \in Session : t # s => pc'[t] = pc[t]
  BY <1>0, Ranges DEF Goes, Calm
<1>3. NoCommand
  BY <1>1 DEF NoCommand, Idle
<1>4. \A t \in Session : /\ pc'[t] \in Live <=> pc[t] \in Live
                         /\ pc'[t] # "row"
                         /\ pc'[t] \in {"pipe", "wait"} <=> t = s
  BY <1>1, <1>2 DEF Live, Idle
<1>5. kid'[s] = k /\ \A t \in Session : t # s => kid'[t] = NoKid
  BY <1>0, <1>3, Ranges, Resting DEF Calm
<1>6. /\ k.st = "fork" /\ k.filter = l.filter /\ k.got = <<>> /\ k.clean = (p \notin spoilt)
      /\ k.in = IF l.from # 0 /\ ~Receives(s, l) THEN Null ELSE l.from
      /\ k.to = IF Sends(s, l) THEN l.to ELSE 0
      /\ k.expects = IF Receives(s, l) THEN due[p] ELSE <<>>
  BY DEF kidOf
<1>7. /\ l.from \in Id \cup {0} /\ l.to \in Id \cup {0} /\ (l.filter => l.from # 0)
      /\ 0 \notin Id /\ Null \notin Id
  BY MultiAssumption, Ranges DEF Calm
<1> HIDE DEF k
<1>8. k.in \in Id => Receives(s, l) /\ k.in = l.from
  BY <1>6, <1>7
<1>9. \A m, f \in Id :
        f \in clients'[m].fifos <=>
          \/ Sends(s, l) /\ m = l.to /\ f = n
          \/ f \in clients[m].fifos /\ ~(Receives(s, l) /\ m = n /\ f = l.from)
  BY <1>0, <1>1, FlagsOfLine
<1>10. Receives(s, l) => l.from \in Id /\ l.from \in clients[n].fifos /\ p \in Fifo
  BY <1>1, <1>7 DEF Receives, Fifo
<1>11. \A f \in Id : Flagged(s, f)
  BY <1>1 DEF Calm, FInv, Flags, Live
<1>12. Childless'
  BY <1>2, <1>4, <1>5, <1>6 DEF Childless
<1>13. NewRow'
  BY <1>4 DEF NewRow
<1>14. Unread'
  BY <1>1, <1>4 DEF Calm, FInv, Unread
<1>15. OneChild(s)'
  <2>1. Joined(s)'
    <3>1. k.in \in Id => k.in \in recvFds[s]
      <4>1. Receives(s, l) => l.from \in recvFds[s] \/ Coming(l.from, num[s])
        BY <1>10, <1>11 DEF Flagged
      <4>2. l.from \in Id => ~Coming(l.from, num[s])
        BY <1>3, NoneComing
      <4> QED BY <1>8, <1>10, <4>1, <4>2
    <3>2. k.filter => k.in # Tty
      BY <1>6, <1>7 DEF Tty, Null
    <3>3. k.in \in Id /\ ~(k.in = n /\ k.to = n) => k.in \notin clients'[n].fifos
      BY <1>1, <1>6, <1>8, <1>9
    <3>4. k.to # 0 => n \in clients'[k.to].fifos
      BY <1>1, <1>6, <1>7, <1>9
    <3> QED BY <1>1, <1>5, <1>6, <3>1, <3>2, <3>3, <3>4 DEF Joined, Turning
  <2>2. Rest(s)'
    <3> SUFFICES ASSUME k.in \in Id
                 PROVE  /\ k.filter /\ k.clean => k.got \o fifo[p] = k.expects
                        /\ ~k.filter => p \in spoilt'
      BY <1>1, <1>5, <1>6, <1>8 DEF Rest, Turning, fifoName
    <3>1. Receives(s, l) /\ p \in Fifo /\ l.from \in Id
      BY <1>8, <1>10
    <3>2. ~k.filter => p \in spoilt'
      BY <1>0, <1>6, <3>1
    <3>3. ASSUME k.clean PROVE k.got \o fifo[p] = k.expects
      <4>1. ~Reading(s, l.from)
        BY <1>3, <3>1, NoneComing
      <4>2. fifo[p] = due[p] /\ fifo[p] \in Seq(Nat)
        BY <1>6, <1>11, <3>1, <3>3, <4>1, Ranges DEF Flagged, Calm
      <4>3. <<>> \o fifo[p] = fifo[p]
        BY <4>2, ConcatEmptySeq
      <4> QED BY <1>6, <3>1, <4>2, <4>3
    <3> QED BY <3>2, <3>3
  <2>3. Ended(s)'
    BY <1>5, <1>6 DEF Ended
  <2> QED BY <2>1, <2>2, <2>3 DEF OneChild
<1>16. Children'
  BY <1>4, <1>15 DEF Children
<1>17. Flags'
  <2> SUFFICES ASSUME NEW t \in Session, pc[t] \in Live, NEW f \in Id PROVE Flagged(t, f)'
    BY <1>4 DEF Flags
  <2> DEFINE q == <<f, num[t]>>
  <2>1. num[t] \in Id /\ Flagged(t, f) /\ ~Coming(f, num[t]) /\ ~Reading(t, f) /\ q \in Fifo
    <3>1. num[t] \in Id
      BY Numbers DEF Live
    <3> QED BY <1>3, <3>1, NoneComing DEF Calm, FInv, Flags, Fifo
  <2>2. ASSUME Sends(s, l), num[t] = l.to, f = n PROVE Coming(f, num[t])'
    <3>1. kid'[s].st = "fork" /\ num'[s] = f /\ kid'[s].to = num'[t]
      BY <1>1, <1>5, <1>6, <2>2
    <3> QED BY <1>1, <3>1 DEF Coming
  <2>3. CASE Receives(s, l) /\ q = p
    <3>0. f = l.from /\ num[t] = n /\ t = s
      BY <1>1, <2>3, OneEach DEF Live
    <3>1. due'[q] = <<>>
      BY <1>0, <1>10, <2>3, Ranges DEF Calm
    <3>2. f \in clients'[num[t]].fifos => Coming(f, num[t])'
      BY <1>1, <1>9, <2>2, <2>3, <3>0
    <3>3. q \in spoilt' \/ Reading(t, f)'
      <4>1. CASE l.filter
        <5>1. kid'[t].filter /\ kid'[t].in = f /\ kid'[t].st # "done"
          BY <1>5, <1>6, <2>3, <3>0, <4>1
        <5> QED BY <5>1 DEF Reading
      <4>2. CASE ~l.filter
        BY <1>0, <2>3, <4>2
      <4> QED BY <4>1, <4>2
    <3> QED BY <1>1, <3>1, <3>2, <3>3 DEF Flagged
  <2>4. CASE ~(Receives(s, l) /\ q = p)
    <3>1. due'[q] = due[q] /\ (q \in spoilt => q \in spoilt')
      BY <1>0, <1>10, <2>1, <2>4, Ranges DEF Calm
    <3>2. f \in clients'[num[t]].fifos => f \in clients[num[t]].fifos \/ Coming(f, num[t])'
      BY <1>9, <2>1, <2>2
    <3>3. f \in clients[num[t]].fifos => f \in clients'[num[t]].fifos
      BY <1>1, <1>9, <2>1, <2>4
    <3> QED BY <1>1, <2>1, <3>1, <3>2, <3>3 DEF Flagged
  <2> QED BY <2>3, <2>4
<1> QED BY <1>12, <1>13, <1>14, <1>16, <1>17 DEF FInv

-----------------------------------------------------------------------------
(* The child's own steps.                                                  *)

\* The child of s becomes k: its ends and what it is to receive stay.
Step(s, k) ==
  /\ kid' = [kid EXCEPT ![s] = k] /\ kid[s].st # "none" /\ UNCHANGED <<clients, num, spoilt>>
  /\ k.in = kid[s].in /\ k.to = kid[s].to /\ k.filter = kid[s].filter
  /\ k.expects = kid[s].expects /\ k.clean = kid[s].clean
  /\ k.st \in {"send", "open", "run", "done"}
  /\ pc'[s] = "wait" /\ \A t \in Session : t # s => pc'[t] = pc[t]
  /\ \A t \in Session : recvFds[t] \subseteq recvFds'[t]

LEMMA StepFacts ==
  ASSUME Calm, NEW s \in Session, NEW k, Step(s, k)
  PROVE  /\ kid'[s] = k /\ \A t \in Session : t # s => kid'[t] = NoKid /\ kid[t] = NoKid
         /\ pc[s] \in Live /\ num[s] \in Id /\ OneChild(s)
         /\ \A t \in Session : t # s => pc'[t] \notin Busy
         /\ \A t \in Session : pc'[t] \in Live <=> pc[t] \in Live
         /\ Turning(s)' = Turning(s) /\ fifoName(s)' = fifoName(s)
         /\ \A t \in Session, f \in Id : t # s => ~Reading(t, f) /\ ~Reading(t, f)'
<1>1. kid'[s] = k /\ \A t \in Session : t # s => kid'[t] = kid[t]
  BY Ranges DEF Step, Calm
<1>2. /\ pc[s] \in Live /\ num[s] \in Id /\ OneChild(s)
      /\ \A t \in Session : t # s => pc[t] \notin Busy /\ kid[t] = NoKid
  BY Waiter DEF Step
<1>3. Turning(s)' = Turning(s) /\ fifoName(s)' = fifoName(s)
  BY <1>1 DEF Step, Turning, fifoName
<1>4. \A t \in Session : pc'[t] \in Live <=> pc[t] \in Live
  BY <1>2 DEF Step, Live
<1>5. \A t \in Session, f \in Id : t # s => ~Reading(t, f) /\ ~Reading(t, f)'
  BY <1>1, <1>2 DEF Reading, NoKid
<1> QED BY <1>1, <1>2, <1>3, <1>4, <1>5 DEF Step

\* What is left to show of a step of a child.
LEMMA ChildFInv ==
  ASSUME Calm, NEW s \in Session, NEW k, Step(s, k), Unread', Rest(s)', Ended(s)',
         k.st = "open" => k.to # 0,
         k.to # 0 /\ k.st \in {"run", "done"} =>
           \E t \in Session : pc[t] \in Live /\ num[t] = k.to,
         \A t \in Session, f \in Id : pc[t] \in Live => Flagged(t, f)'
  PROVE  FInv'
<1>1. /\ kid'[s] = k /\ \A t \in Session : t # s => kid'[t] = NoKid
      /\ OneChild(s) /\ num[s] \in Id /\ Turning(s)' = Turning(s)
      /\ \A t \in Session : t # s => pc'[t] \notin Busy
      /\ \A t \in Session : pc'[t] \in Live <=> pc[t] \in Live
  BY StepFacts
<1>2. Childless'
  BY <1>1 DEF Step, Childless, Busy
<1>3. NewRow'
  BY <1>1 DEF Step, NewRow, Busy
<1>4. Children'
  <2>1. Joined(s)'
    BY <1>1 DEF OneChild, Joined, Step
  <2> QED BY <1>1, <2>1 DEF Children, OneChild, Busy
<1>5. Flags'
  BY <1>1 DEF Flags
<1> QED BY <1>2, <1>3, <1>4, <1>5 DEF FInv

\* A step that touches neither FIFOs nor what is due.
LEMMA DryFInv ==
  ASSUME Calm, NEW s \in Session, NEW k, Step(s, k), UNCHANGED <<fifo, due>>,
         k.got = kid[s].got, k.st # "done",
         k.st = "open" => k.to # 0,
         k.to # 0 /\ k.st = "run" => \E t \in Session : pc[t] \in Live /\ num[t] = k.to,
         \A t \in Session, f \in Id :
           pc[t] \in Live /\ Coming(f, num[t]) => f \in recvFds'[t] \/ Coming(f, num[t])'
  PROVE  FInv'
<1>1. /\ kid'[s] = k /\ OneChild(s) /\ num[s] \in Id /\ Turning(s)' = Turning(s)
      /\ fifoName(s)' = fifoName(s)
      /\ \A t \in Session : pc'[t] \in Live <=> pc[t] \in Live
      /\ \A t \in Session, f \in Id : t # s => ~Reading(t, f) /\ ~Reading(t, f)'
  BY StepFacts
<1>2. Unread'
  BY <1>1 DEF Calm, FInv, Unread, Step
<1>3. Rest(s)' /\ Ended(s)'
  BY <1>1 DEF OneChild, Rest, Ended, Step
<1>4. ASSUME NEW t \in Session, NEW f \in Id, pc[t] \in Live PROVE Flagged(t, f)'
  <2>1. Flagged(t, f)
    BY <1>4 DEF Calm, FInv, Flags
  <2>2. Reading(t, f) => Reading(t, f)'
    BY <1>1 DEF Reading, Step
  <2> QED BY <1>4, <2>1, <2>2 DEF Flagged, Step
<1> QED BY <1>2, <1>3, <1>4, ChildFInv

\* The child inherits what its session has open, so that forking it changes no end.
LEMMA ForkFInv ==
  ASSUME Calm, NEW s \in Session, Fork(s)
  PROVE  FInv'
<1> DEFINE k == [kid[s] EXCEPT !.st = IF kid[s].to = 0 THEN "run" ELSE "send",
                               !.in = IF kid[s].in \in Id \ recvFds[s] THEN Tty ELSE kid[s].in]
<1>1. /\ UNCHANGED <<clients, num, recvFds, fifo, due, spoilt>>
      /\ pc[s] = "pipe" /\ pc' = [pc EXCEPT ![s] = "wait"] /\ kid' = [kid EXCEPT ![s] = k]
  BY DEF Fork, Goes, shared, signals, files, Calm, IInv, TypeOK
<1>2. OneChild(s) /\ kid[s].st # "none" /\ kid[s].st = "fork" /\ kid[s] \in Child
  BY <1>1, Waiter, Ranges DEF Calm
<1>3. ~(kid[s].in \in Id \ recvFds[s])
  BY <1>2 DEF OneChild, Joined
<1>4. /\ k.in = kid[s].in /\ k.to = kid[s].to /\ k.filter = kid[s].filter /\ k.got = kid[s].got
      /\ k.expects = kid[s].expects /\ k.clean = kid[s].clean
      /\ k.st = IF kid[s].to = 0 THEN "run" ELSE "send"
  BY <1>2, <1>3 DEF Child
<1> HIDE DEF k
<1>5. Step(s, k)
  BY <1>1, <1>2, <1>4, Ranges DEF Step, Calm
<1>6. kid'[s] = k /\ \A t \in Session : t # s => kid'[t] = NoKid /\ kid[t] = NoKid
  BY <1>5, StepFacts
<1>7. ASSUME NEW t \in Session, NEW f \in Id, pc[t] \in Live, Coming(f, num[t])
      PROVE  Coming(f, num[t])'
  <2>1. 0 \notin Id /\ num[t] \in Id
    BY <1>7, Numbers, Ranges DEF Calm, Live
  <2>2. num[s] = f /\ kid[s].to = num[t]
    BY <1>6, <1>7 DEF Coming, NoKid
  <2> QED BY <1>1, <1>4, <1>6, <2>1, <2>2 DEF Coming
<1> QED BY <1>1, <1>4, <1>5, <1>7, DryFInv

LEMMA SignalFInv ==
  ASSUME Calm, NEW s \in Session, KidSignal(s)
  PROVE  FInv'
<1> DEFINE k == [kid[s] EXCEPT !.st = "open"]
<1>1. /\ kid[s].st = "send" /\ kid' = [kid EXCEPT ![s] = k] /\ pc' = Struck({receiver(s)})
      /\ UNCHANGED <<clients, num, recvFds, fifo, due, spoilt>>
  BY DEF KidSignal, still, files
<1>2. pc' = pc /\ pc[s] = "wait"
  BY <1>1, Waiter
<1>3. kid[s] \in Child /\ kid[s].to # 0
  BY <1>1, Ranges DEF Calm, IInv, Numbered
<1>4. /\ k.in = kid[s].in /\ k.to = kid[s].to /\ k.filter = kid[s].filter /\ k.got = kid[s].got
      /\ k.expects = kid[s].expects /\ k.clean = kid[s].clean /\ k.st = "open"
  BY <1>3 DEF Child
<1> HIDE DEF k
<1>5. Step(s, k)
  BY <1>1, <1>2, <1>4 DEF Step
<1>6. kid'[s] = k /\ \A t \in Session : t # s => kid'[t] = NoKid /\ kid[t] = NoKid
  BY <1>5, StepFacts
<1>7. \A t \in Session, f \in Id : Coming(f, num[t]) => Coming(f, num[t])'
  BY <1>1, <1>4, <1>6 DEF Coming, NoKid
<1> QED BY <1>1, <1>3, <1>4, <1>5, <1>7, DryFInv

\* The child has opened its FIFO once the receiver has it open: the flag stays true.
LEMMA OpenFInv ==
  ASSUME Calm, NEW s \in Session, KidOpen(s)
  PROVE  FInv'
<1> DEFINE k == [kid[s] EXCEPT !.st = "run"]
           Woken == {t \in Session : num[t] = kid[s].to /\ Waits(t, num[s])}
<1>1. /\ kid[s].st = "open" /\ kid' = [kid EXCEPT ![s] = k]
      /\ recvFds' = [t \in Session |-> IF t \in Woken THEN recvFds[t] \cup {num[s]}
                                       ELSE recvFds[t]]
      /\ UNCHANGED <<clients, pc, num, fifo, due, spoilt>>
  BY DEF KidOpen, still, files
<1>2. PICK r \in Session : num[r] = kid[s].to /\ (HasOpen(r, num[s]) \/ r \in Woken)
  BY DEF KidOpen
<1>3. pc[r] \in Live /\ num[s] \in recvFds'[r]
  BY <1>1, <1>2 DEF HasOpen, Waits
<1>4. \A t \in Session : recvFds[t] \subseteq recvFds'[t]
  BY <1>1
<1>5. kid[s] \in Child /\ pc[s] = "wait"
  BY <1>1, Waiter, Ranges DEF Calm
<1>6. /\ k.in = kid[s].in /\ k.to = kid[s].to /\ k.filter = kid[s].filter /\ k.got = kid[s].got
      /\ k.expects = kid[s].expects /\ k.clean = kid[s].clean /\ k.st = "run"
  BY <1>5 DEF Child
<1> HIDE DEF k, Woken
<1>7. Step(s, k)
  BY <1>1, <1>4, <1>5, <1>6 DEF Step
<1>8. \A t \in Session : t # s => kid[t] = NoKid
  BY <1>7, StepFacts
<1>9. ASSUME NEW t \in Session, NEW f \in Id, pc[t] \in Live, Coming(f, num[t])
      PROVE  f \in recvFds'[t]
  <2>1. num[s] = f /\ kid[s].to = num[t]
    BY <1>8, <1>9 DEF Coming, NoKid
  <2>2. t = r
    BY <1>2, <1>3, <1>9, <2>1, OneEach
  <2> QED BY <1>3, <2>1, <2>2
<1> QED BY <1>1, <1>2, <1>3, <1>6, <1>7, <1>9, DryFInv

\* Reading on: what has been read and what is left stay the same text.
LEMMA ReadOn ==
  ASSUME NEW S, NEW g \in Seq(S), NEW q \in Seq(S), q # <<>>
  PROVE  Append(g, Head(q)) \o Tail(q) = g \o q
<1> DEFINE a == Append(g, Head(q)) \o Tail(q)
           b == g \o q
<1>1. /\ Append(g, Head(q)) \in Seq(S) /\ Len(Append(g, Head(q))) = Len(g) + 1
      /\ Tail(q) \in Seq(S) /\ Len(Tail(q)) = Len(q) - 1 /\ Len(q) \in Nat /\ Len(g) \in Nat
      /\ Len(q) > 0
      /\ \A i \in 1 .. Len(q) - 1 : Tail(q)[i] = q[i + 1]
      /\ Head(q) = q[1]
      /\ \A i \in 1 .. Len(g) : Append(g, Head(q))[i] = g[i]
      /\ Append(g, Head(q))[Len(g) + 1] = Head(q)
  OBVIOUS
<1>2. Len(a) = Len(b) /\ a \in Seq(S) /\ b \in Seq(S)
  BY <1>1, ConcatProperties
<1>3. ASSUME NEW i \in 1 .. Len(a) PROVE a[i] = b[i]
  BY <1>1, <1>2, <1>3
<1> QED BY <1>2, <1>3, SeqEqual

LEMMA ReadFInv ==
  ASSUME Calm, NEW s \in Session, KidRead(s)
  PROVE  FInv'
<1> DEFINE p == fifoName(s)
           k == [kid[s] EXCEPT !.got = Append(@, Head(fifo[p])), !.left = @ + 1]
<1>1. /\ kid[s].st = "run" /\ kid[s].filter /\ kid[s].in \in Id /\ fifo[p] # <<>>
      /\ kid' = [kid EXCEPT ![s] = k] /\ fifo' = [fifo EXCEPT ![p] = Tail(fifo[p])]
      /\ UNCHANGED <<clients, pc, num, recvFds, due, spoilt>>
  BY DEF KidRead, still, signals
<1>2. kid[s] \in Child /\ fifo \in [Fifo -> Seq(Nat)] /\ pc[s] = "wait" /\ num[s] \in Id
  BY <1>1, Waiter, Ranges DEF Calm
<1>3. /\ k.in = kid[s].in /\ k.to = kid[s].to /\ k.filter = kid[s].filter
      /\ k.expects = kid[s].expects /\ k.clean = kid[s].clean /\ k.st = "run"
      /\ k.got = Append(kid[s].got, Head(fifo[p]))
  BY <1>1, <1>2 DEF Child
<1> HIDE DEF k
<1>4. Step(s, k)
  BY <1>1, <1>2, <1>3 DEF Step
<1>5. /\ kid'[s] = k /\ OneChild(s) /\ pc[s] \in Live
      /\ Turning(s)' = Turning(s) /\ fifoName(s)' = fifoName(s)
      /\ \A t \in Session, f \in Id : t # s => ~Reading(t, f)
  BY <1>4, StepFacts
<1>6. p = <<kid[s].in, num[s]>> /\ p \in Fifo
  BY <1>1, <1>2 DEF fifoName, Fifo
<1>7. fifo'[p] = Tail(fifo[p]) /\ \A q \in Fifo : q # p => fifo'[q] = fifo[q]
  BY <1>1, <1>2, <1>6
<1> HIDE DEF p
<1>8. Unread'
  <2> SUFFICES ASSUME NEW n \in Id, \A t \in Session : pc'[t] \in Live => num'[t] # n, NEW f \in Id
               PROVE  fifo'[<<f, n>>] = <<>>
    BY DEF Unread
  <2>1. fifo[<<f, n>>] = <<>>
    BY <1>1 DEF Calm, FInv, Unread
  <2> QED BY <1>1, <1>7, <2>1 DEF Fifo
<1>9. Rest(s)'
  <2>1. fifo[p] \in Seq(Nat) /\ kid[s].got \in Seq(Nat)
    BY <1>2, <1>6 DEF Child
  <2>2. Append(kid[s].got, Head(fifo[p])) \o Tail(fifo[p]) = kid[s].got \o fifo[p]
    BY <1>1, <2>1, ReadOn
  <2>3. k.got \o fifo'[p] = kid[s].got \o fifo[p]
    BY <1>3, <1>7, <2>2
  <2> QED BY <1>1, <1>3, <1>5, <2>3 DEF OneChild, Rest, p
<1>10. Ended(s)'
  BY <1>3, <1>5 DEF Ended
<1>11. ASSUME NEW t \in Session, NEW f \in Id, pc[t] \in Live PROVE Flagged(t, f)'
  <2>1. Flagged(t, f) /\ num[t] \in Id
    BY <1>11, Numbers DEF Calm, FInv, Flags, Live
  <2>2. Coming(f, num[t]) => Coming(f, num[t])'
    BY <1>1, <1>3, <1>4, <1>5, StepFacts DEF Coming, NoKid
  <2>3. CASE t = s /\ f = kid[s].in
    <3>1. Reading(t, f)'
      BY <1>1, <1>3, <1>5, <2>3 DEF Reading
    <3> QED BY <1>1, <2>1, <2>2, <3>1 DEF Flagged
  <2>4. CASE ~(t = s /\ f = kid[s].in)
    <3>1. <<f, num[t]>> # p /\ <<f, num[t]>> \in Fifo
      BY <1>5, <1>6, <1>11, <2>1, <2>4, OneEach DEF Fifo
    <3>2. ~Reading(t, f)
      BY <1>5, <2>4 DEF Reading
    <3> QED BY <1>1, <1>7, <2>1, <2>2, <3>1, <3>2 DEF Flagged
  <2> QED BY <2>3, <2>4
<1>12. k.to # 0 => \E t \in Session : pc[t] \in Live /\ num[t] = k.to
  BY <1>1, <1>3, <1>5 DEF OneChild, Joined
<1> QED BY <1>3, <1>4, <1>8, <1>9, <1>10, <1>11, <1>12, ChildFInv

LEMMA WriteFInv ==
  ASSUME Calm, NEW s \in Session, KidWrite(s)
  PROVE  FInv'
<1> DEFINE k == [kid[s] EXCEPT !.left = @ - 1]
           p == <<num[s], kid[s].to>>
<1>1. /\ kid[s].st = "run" /\ kid' = [kid EXCEPT ![s] = k]
      /\ UNCHANGED <<clients, pc, num, recvFds, spoilt>>
      /\ \/ UNCHANGED <<fifo, due>>
         \/ /\ fifo' = [fifo EXCEPT ![p] = Append(fifo[p], kid[s].me)] /\ kid[s].to # 0
            /\ due' = [due EXCEPT ![p] = Append(due[p], kid[s].me)]
  BY DEF KidWrite, still, signals
<1>2. kid[s] \in Child /\ pc[s] = "wait" /\ num[s] \in Id
  BY <1>1, Waiter, Ranges DEF Calm
<1>3. /\ k.in = kid[s].in /\ k.to = kid[s].to /\ k.filter = kid[s].filter /\ k.got = kid[s].got
      /\ k.expects = kid[s].expects /\ k.clean = kid[s].clean /\ k.st = "run"
  BY <1>1, <1>2 DEF Child
<1> HIDE DEF k
<1>4. Step(s, k)
  BY <1>1, <1>2, <1>3 DEF Step
<1>5. /\ kid'[s] = k /\ OneChild(s) /\ pc[s] \in Live
      /\ \A t \in Session : t # s => kid'[t] = NoKid /\ kid[t] = NoKid
      /\ Turning(s)' = Turning(s) /\ fifoName(s)' = fifoName(s)
      /\ \A t \in Session, f \in Id : t # s => ~Reading(t, f)
  BY <1>4, StepFacts
<1>6. k.to # 0 => \E t \in Session : pc[t] \in Live /\ num[t] = k.to
  BY <1>1, <1>3, <1>5 DEF OneChild, Joined
<1>7. \A t \in Session, f \in Id : Coming(f, num[t]) => Coming(f, num[t])'
  BY <1>1, <1>3, <1>5 DEF Coming, NoKid
<1>8. CASE UNCHANGED <<fifo, due>>
  BY <1>3, <1>4, <1>6, <1>7, <1>8, DryFInv
<1>9. CASE /\ fifo' = [fifo EXCEPT ![p] = Append(fifo[p], kid[s].me)] /\ kid[s].to # 0
           /\ due' = [due EXCEPT ![p] = Append(due[p], kid[s].me)]
  <2>1. kid[s].to \in Id /\ p \in Fifo
    BY <1>2, <1>9 DEF Child, Fifo
  <2>2. /\ fifo'[p] = Append(fifo[p], kid[s].me) /\ due'[p] = Append(due[p], kid[s].me)
        /\ \A q \in Fifo : q # p => fifo'[q] = fifo[q] /\ due'[q] = due[q]
    BY <1>9, <2>1, Ranges DEF Calm
  <2>3. Unread'
    <3> SUFFICES ASSUME NEW n \in Id, \A t \in Session : pc[t] \in Live => num[t] # n, NEW f \in Id
                 PROVE  fifo'[<<f, n>>] = <<>>
      BY <1>1 DEF Unread
    <3>1. fifo[<<f, n>>] = <<>> /\ <<f, n>> # p /\ <<f, n>> \in Fifo
      BY <1>3, <1>6, <1>9 DEF Calm, FInv, Unread, Fifo
    <3> QED BY <2>2, <3>1
  <2>4. Rest(s)'
    <3> SUFFICES ASSUME kid[s].in \in Id
                 PROVE  /\ kid[s].filter /\ kid[s].clean /\ ~Turning(s) =>
                             kid[s].got \o fifo'[fifoName(s)] = kid[s].expects
                        /\ ~kid[s].filter => fifoName(s) \in spoilt
      BY <1>1, <1>3, <1>5 DEF Rest
    <3>1. ~Turning(s) => fifoName(s) # p /\ fifoName(s) \in Fifo
      BY <1>2 DEF Turning, fifoName, Fifo
    <3> QED BY <1>5, <2>2, <3>1 DEF OneChild, Rest
  <2>5. Ended(s)'
    BY <1>3, <1>5 DEF Ended
  <2>6. ASSUME NEW t \in Session, NEW f \in Id, pc[t] \in Live PROVE Flagged(t, f)'
    <3>1. Flagged(t, f) /\ num[t] \in Id
      BY <2>6, Numbers DEF Calm, FInv, Flags, Live
    <3>2. Reading(t, f) => Reading(t, f)'
      BY <1>3, <1>5 DEF Reading
    <3>3. CASE <<f, num[t]>> = p
      <4>1. f \in clients[num[t]].fifos
        BY <1>5, <1>9, <3>3 DEF OneChild, Joined
      <4> QED BY <1>1, <1>7, <2>2, <3>1, <3>2, <3>3, <4>1 DEF Flagged
    <3>4. CASE <<f, num[t]>> # p
      <4>1. <<f, num[t]>> \in Fifo
        BY <3>1 DEF Fifo
      <4> QED BY <1>1, <1>7, <2>2, <3>1, <3>2, <3>4, <4>1 DEF Flagged
    <3> QED BY <3>3, <3>4
  <2> QED BY <1>3, <1>4, <1>6, <2>3, <2>4, <2>5, <2>6, ChildFInv
<1> QED BY <1>1, <1>8, <1>9

\* A child ends when its FIFO is empty and nobody can write to it, itself included.
LEMMA ExitFInv ==
  ASSUME Calm, NEW s \in Session, KidExit(s)
  PROVE  FInv'
<1> DEFINE k == [kid[s] EXCEPT !.st = "done"]
<1>1. /\ kid[s].st = "run" /\ kid' = [kid EXCEPT ![s] = k] /\ (kid[s].filter => AtEof(s))
      /\ UNCHANGED <<clients, pc, num, recvFds, fifo, due, spoilt>>
  BY DEF KidExit, still, signals, files
<1>2. kid[s] \in Child /\ pc[s] = "wait" /\ num[s] \in Id
  BY <1>1, Waiter, Ranges DEF Calm
<1>3. /\ k.in = kid[s].in /\ k.to = kid[s].to /\ k.filter = kid[s].filter /\ k.got = kid[s].got
      /\ k.expects = kid[s].expects /\ k.clean = kid[s].clean /\ k.st = "done"
  BY <1>2 DEF Child
<1> HIDE DEF k
<1>4. Step(s, k)
  BY <1>1, <1>2, <1>3 DEF Step
<1>5. /\ kid'[s] = k /\ OneChild(s) /\ pc[s] \in Live
      /\ \A t \in Session : t # s => kid'[t] = NoKid /\ kid[t] = NoKid
      /\ Turning(s)' = Turning(s) /\ fifoName(s)' = fifoName(s)
      /\ \A t \in Session, f \in Id : t # s => ~Reading(t, f)
  BY <1>4, StepFacts
<1>6. ASSUME kid[s].in \in Id, kid[s].filter
      PROVE  ~Turning(s) /\ fifo[fifoName(s)] = <<>> /\ kid[s].in \notin clients[num[s]].fifos
  <2>1. fifo[fifoName(s)] = <<>> /\ ~Writing(kid[s].in, num[s])
    BY <1>1, <1>6, Ranges DEF AtEof, Calm
  <2>2. ~Turning(s)
    BY <1>1, <2>1 DEF Turning, Writing
  <2> QED BY <1>5, <1>6, <2>1, <2>2 DEF OneChild, Joined
<1>7. Unread'
  BY <1>1 DEF Calm, FInv, Unread
<1>8. Rest(s)' /\ Ended(s)'
  BY <1>1, <1>3, <1>5, <1>6 DEF OneChild, Rest, Ended
<1>9. ASSUME NEW t \in Session, NEW f \in Id, pc[t] \in Live PROVE Flagged(t, f)'
  <2>1. Flagged(t, f)
    BY <1>9 DEF Calm, FInv, Flags
  <2>2. Coming(f, num[t]) => Coming(f, num[t])'
    BY <1>1, <1>5 DEF Coming, NoKid
  <2>3. Reading(t, f) => fifo[<<f, num[t]>>] = due[<<f, num[t]>>]
    <3> SUFFICES ASSUME Reading(t, f) PROVE fifo[<<f, num[t]>>] = due[<<f, num[t]>>]
      OBVIOUS
    <3>1. t = s /\ kid[s].in = f /\ kid[s].filter
      BY <1>5 DEF Reading
    <3> QED BY <1>6, <2>1, <3>1 DEF Flagged, fifoName
  <2> QED BY <1>1, <2>1, <2>2, <2>3 DEF Flagged
<1>10. k.to # 0 => \E t \in Session : pc[t] \in Live /\ num[t] = k.to
  BY <1>1, <1>3, <1>5 DEF OneChild, Joined
<1> QED BY <1>3, <1>4, <1>7, <1>8, <1>9, <1>10, ChildFInv

\* After the command nothing of it is left but what it has written, or has not read.
LEMMA WaitFInv ==
  ASSUME Calm, NEW s \in Session, WaitKid(s)
  PROVE  FInv'
<1>1. /\ pc[s] = "wait" /\ pc' = [pc EXCEPT ![s] = "prompt"] /\ kid' = [kid EXCEPT ![s] = NoKid]
      /\ kid[s].st \in {"done", "killed"}
      /\ UNCHANGED <<clients, num, recvFds, fifo, due, spoilt>>
  BY DEF WaitKid, Goes, still, signals, files
<1>2. num[s] \in Id /\ OneChild(s) /\ \A t \in Session : t # s => pc[t] \notin Busy /\ kid[t] = NoKid
  BY <1>1, Waiter
<1>3. pc'[s] = "prompt" /\ \A t \in Session : t # s => pc'[t] = pc[t]
  BY <1>1, Ranges DEF Calm
<1>4. \A t \in Session : kid'[t] = NoKid
  BY <1>1, <1>2, Ranges DEF Calm
<1>5. \A t \in Session : /\ pc'[t] \in Live <=> pc[t] \in Live
                         /\ pc'[t] \notin {"row", "pipe", "wait"}
  BY <1>1, <1>2, <1>3 DEF Live, Busy
<1>6. Childless' /\ NewRow' /\ Children'
  BY <1>4, <1>5 DEF Childless, NewRow, Children
<1>7. Unread'
  BY <1>1, <1>5 DEF Calm, FInv, Unread
<1>8. Flags'
  <2> SUFFICES ASSUME NEW t \in Session, pc[t] \in Live, NEW f \in Id PROVE Flagged(t, f)'
    BY <1>5 DEF Flags
  <2>1. Flagged(t, f)
    BY DEF Calm, FInv, Flags
  <2>2. ~Coming(f, num[t])
    BY <1>1, <1>2 DEF Coming, NoKid
  <2>3. Reading(t, f) => <<f, num[t]>> \in spoilt
    <3> SUFFICES ASSUME Reading(t, f) PROVE <<f, num[t]>> \in spoilt
      OBVIOUS
    <3>1. t = s /\ kid[s].in = f /\ kid[s].st = "killed"
      BY <1>1, <1>2 DEF Reading, NoKid
    <3> QED BY <1>2, <3>1 DEF OneChild, Rest, fifoName
  <2> QED BY <1>1, <2>1, <2>2, <2>3 DEF Flagged
<1> QED BY <1>6, <1>7, <1>8 DEF FInv

LEMMA StepFInv == IInv /\ Waiting /\ FInv /\ [Next]_vars => FInv'
<1> SUFFICES ASSUME Calm, [Next]_vars PROVE FInv'
  BY DEF Calm
<1>1. CASE Connect
  BY <1>1, ConnectFInv
<1>2. ASSUME NEW s \in Session, login(s) PROVE FInv'
  BY <1>2, LoginRowFInv, LoginTellFInv DEF login
<1>3. ASSUME NEW s \in Session, Builtin(s) PROVE FInv'
  BY <1>3, TalkFInv, DepartFInv DEF Builtin
<1>4. ASSUME NEW s \in Session, Command(s) \/ GoesOn(s) PROVE FInv'
  BY <1>4, CommandFInv, TalkFInv, LookPastFInv, DepartFInv, ForkFInv, WaitFInv DEF GoesOn
<1>5. ASSUME NEW s \in Session, broadcast(s) \/ openForRead(s) PROVE FInv'
  BY <1>5, HandlerFInv
<1>6. ASSUME NEW s \in Session, KidStep(s) PROVE FInv'
  BY <1>6, SignalFInv, OpenFInv, ReadFInv, WriteFInv, ExitFInv DEF KidStep
<1>7. CASE UNCHANGED vars
  <2>1. UNCHANGED <<clients, pc, num, recvFds, kid, fifo, due, spoilt>>
    BY <1>7 DEF vars, shared, signals, files
  <2> QED BY <2>1, QuietFInv
<1> QED BY <1>1, <1>2, <1>3, <1>4, <1>5, <1>6, <1>7 DEF Next

LEMMA FlagsFlow == ASSUME Waiting PROVE Spec => []FInv
<1>1. IInv /\ FInv /\ [Next]_vars => FInv'
  BY StepFInv
<1> QED BY <1>1, InitFInv, Invariance, PTL DEF Spec

(* FlagsMatchFifos: between commands a flag means that the session has the *)
(* FIFO open, no flag that nothing is due, and a FIFO that no command has  *)
(* received from without reading holds what is due and nothing else, past  *)
(* any number of users who come, go and leave their pipes behind.          *)
THEOREM FlagsMatchFifos == ASSUME Waiting PROVE Spec => []PipesAsFlagged
<1>1. IInv /\ FInv => PipesAsFlagged
  <2> SUFFICES ASSUME Calm, NoCommand, NEW t \in Session, pc[t] \in Live, NEW f \in Id
               PROVE  LET p == <<f, num[t]>>
                      IN  /\ IF f \in clients[num[t]].fifos THEN f \in recvFds[t] ELSE due[p] = <<>>
                          /\ p \notin spoilt => fifo[p] = due[p]
    BY DEF PipesAsFlagged, Calm
  <2>1. Flagged(t, f) /\ ~Coming(f, num[t]) /\ ~Reading(t, f)
    BY NoneComing DEF Calm, FInv, Flags
  <2> QED BY <2>1 DEF Flagged
<1> QED BY <1>1, FlagsFlow, Invariance, PTL

(* AllDelivered: a command that receives and reads its input has read, when *)
(* it ends, all that was announced to its user and nothing else, unless an *)
(* earlier receiver left some of it behind.                                *)
THEOREM AllDelivered == ASSUME Waiting PROVE Spec => []Delivered
<1>1. IInv /\ FInv => Delivered
  <2> SUFFICES ASSUME Calm, NEW s \in Session, kid[s].st = "done", kid[s].in \in Id,
                      kid[s].filter, kid[s].clean
               PROVE  kid[s].got = kid[s].expects
    BY DEF Delivered, Calm
  <2>1. OneChild(s) /\ kid[s].got \in Seq(Nat)
    BY Waiter, Ranges DEF Calm, Child
  <2>2. ~Turning(s) /\ fifo[fifoName(s)] = <<>>
    BY <2>1 DEF OneChild, Ended
  <2>3. kid[s].got \o <<>> = kid[s].expects
    BY <2>1, <2>2 DEF OneChild, Rest
  <2> QED BY <2>1, <2>3, ConcatEmptySeq
<1> QED BY <1>1, FlagsFlow, Invariance, PTL

-----------------------------------------------------------------------------
(* What a session that runs a command needs to go on.  Fairness turns each *)
(* of these into a step; that there always is one holds for every number   *)
(* of users.                                                               *)

\* The session, a handler of its own, its child or the receiver's handler has something to do.
HandlerCan(t) == usr1[t] \/ (usr2[t] /\ opening[t] = 0)
KidCan(s) ==
  \/ kid[s].st = "send"
  \/ /\ kid[s].st = "open"
     /\ \/ \E t \in Session : num[t] = kid[s].to /\ (HasOpen(t, num[s]) \/ Waits(t, num[s]))
        \/ HandlerCan(receiver(s))
  \/ /\ kid[s].st = "run"
     /\ \/ kid[s].left > 0 /\ (kid[s].to # 0 => Len(fifo[<<num[s], kid[s].to>>]) < Cap)
        \/ kid[s].filter /\ kid[s].in \in Id /\ fifo[fifoName(s)] # <<>>
        \/ kid[s].left = 0 /\ (kid[s].filter => AtEof(s))
CanGoOn(s) ==
  \/ KidCan(s)
  \/ kid[s].st \in {"fork", "done", "killed"} /\ (AtRest(s) \/ HandlerCan(s))
NeverStuck == \A s \in Session : pc[s] \in {"pipe", "wait"} => CanGoOn(s) \/ Excused(s)

\* A child's receiver has a row; once called, it has the FIFO open, or is called, or in a handler.
Addressed ==
  \A s \in Session :
    kid[s].st \in {"fork", "send", "open"} /\ kid[s].to # 0 => pid_table[kid[s].to] # None
Called ==
  \A s \in Session : kid[s].st = "open" =>
    /\ sender = num[s] /\ <<num[s], kid[s].to>> \in made
    /\ \A r \in Session : pc[r] \in Live /\ num[r] = kid[s].to =>
         num[s] \in recvFds[r] \/ usr2[r] \/ opening[r] # 0

\* Nobody is called while the line is announced, and no FIFO holds more than it can.
Uncalled == \A s \in Session : pc[s] = "pipe" => ~usr2[s] /\ opening[s] = 0
Small == \A p \in Fifo : Len(fifo[p]) <= Cap

KInv == Addressed /\ Called /\ Uncalled /\ Small

LEMMA InitKInv == Init => KInv
<1> SUFFICES ASSUME Init PROVE KInv
  OBVIOUS
<1>1. Small
  <2>1. Len(<<>>) = 0 /\ 0 <= Cap
    BY MultiAssumption
  <2> QED BY <2>1 DEF Init, Small
<1> QED BY <1>1 DEF Init, KInv, Addressed, Called, Uncalled, NoKid

\* Emptied FIFOs are small.
LEMMA ClosedSmall ==
  ASSUME Small, NEW s \in Session, fifo' = fifo \/ fifo' = Closed(s)
  PROVE  Small'
<1>1. Len(<<>>) = 0 /\ 0 <= Cap
  BY MultiAssumption
<1>2. \A p \in Fifo : fifo'[p] = fifo[p] \/ fifo'[p] = <<>>
  BY DEF Closed
<1> QED BY <1>1, <1>2 DEF Small

\* When nobody runs a command, nobody is called.
LEMMA RestKInv ==
  ASSUME FInv', NoCommand', Small'
  PROVE  KInv'
<1>1. \A s \in Session : kid'[s].st = "none" /\ pc'[s] # "pipe"
  BY DEF FInv, Childless, NoCommand, NoKid
<1> QED BY <1>1 DEF KInv, Addressed, Called, Uncalled

\* Steps of which no child that is yet to open its FIFO takes notice.
LEMMA KeepKInv ==
  ASSUME KInv, UNCHANGED <<pid_table, sender, made, num, usr2, opening, recvFds>>, Small',
         \A t \in Session : /\ pc'[t] \in Live => pc[t] \in Live
                            /\ pc'[t] = "pipe" => pc[t] = "pipe",
         \A t \in Session :
           kid'[t].st \in {"fork", "send", "open"} =>
             /\ kid[t].st \in {"fork", "send", "open"} /\ kid'[t].to = kid[t].to
             /\ kid'[t].st = "open" => kid[t].st = "open"
  PROVE  KInv'
<1>1. Addressed'
  BY DEF KInv, Addressed
<1>2. Called'
  BY DEF KInv, Called
<1>3. Uncalled'
  BY DEF KInv, Uncalled
<1> QED BY <1>1, <1>2, <1>3 DEF KInv

LEMMA ConnectKInv ==
  ASSUME Calm, KInv, FInv', Connect \/ \E s \in Session : login(s)
  PROVE  KInv'
<1>1. NoCommand /\ NoCommand'
  <2>1. CASE Connect
    <3>1. sessions + 1 \in Session /\ pc' = [pc EXCEPT ![sessions + 1] = "born"]
      BY <2>1, MultiAssumption DEF Connect, Calm, IInv, TypeOK, Session
    <3>2. pc[sessions + 1] = "none"
      BY <3>1, MultiAssumption DEF Calm, IInv, TypeOK, Numbered, Session
    <3>3. \A t \in Session \ {sessions + 1} : pc[t] \in Idle
      BY <2>1 DEF Connect, Apart, Calm, Waiting
    <3>4. NoCommand
      BY <3>2, <3>3 DEF NoCommand, Idle
    <3> QED BY <3>1, <3>4, Ranges DEF NoCommand, Calm
  <2>2. CASE \E s \in Session : login(s)
    <3>1. PICK s \in Session : login(s)
      BY <2>2
    <3>2. pc[s] \in {"born", "row"} /\ \E where \in {"row", "greet"} : pc' = [pc EXCEPT ![s] = where]
      <4>1. CASE LoginRow(s)
        BY <4>1 DEF LoginRow
      <4>2. CASE LoginTell(s)
        BY <4>2 DEF LoginTell
      <4> QED BY <3>1, <4>1, <4>2 DEF login
    <3>3. NoCommand
      <4>1. \A t \in Session : pc[t] \in Busy => t = s
        BY <3>2 DEF Calm, IInv, Claimed, Alone, Busy
      <4> QED BY <3>2, <4>1 DEF NoCommand, Busy
    <3> QED BY <3>2, <3>3, Ranges DEF NoCommand, Calm
  <2> QED BY <2>1, <2>2
<1>2. fifo' = fifo
  BY DEF Connect, login, LoginRow, LoginTell, files
<1>3. Small'
  BY <1>2 DEF KInv, Small
<1> QED BY <1>1, <1>3, RestKInv

\* A user leaves: nobody runs a command.
LEMMA DepartKInv ==
  ASSUME Calm, KInv, FInv', NEW s \in Session, EmptyLine(s) \/ logout(s) \/ Leaves(s)
  PROVE  KInv'
<1>1. NoCommand
  <2>1. CASE Types(s, "leave")
    <3>1. \A t \in Session : pc[t] \in Idle
      BY <2>1, MultiAssumption DEF Types, Apart, Idle
    <3> QED BY <3>1 DEF NoCommand, Idle
  <2>2. CASE pc[s] = "leave"
    BY <2>2 DEF NoCommand, Calm, IInv, Claimed, Alone, Busy
  <2> QED BY <2>1, <2>2 DEF EmptyLine, logout, Leaves
<1>2. pc' = [pc EXCEPT ![s] = "gone"] \/ pc' = [pc EXCEPT ![s] = "leave"]
  BY DEF EmptyLine, logout, Leaves, Goes
<1>3. NoCommand'
  BY <1>1, <1>2, Ranges DEF NoCommand, Calm
<1>4. fifo' = fifo \/ fifo' = Closed(s)
  BY DEF EmptyLine, logout, Leaves, files
<1>5. Small'
  BY <1>4, ClosedSmall DEF KInv
<1> QED BY <1>3, <1>5, RestKInv

\* Talking, looking through the rows and handling SIGUSR1 call nobody.
LEMMA TalkKInv ==
  ASSUME Calm, KInv, NEW s \in Session,
         tell(s) \/ yell(s) \/ rename(s) \/ Said(s) \/ Renames(s) \/ Look(s) \/ broadcast(s)
  PROVE  KInv'
<1>1. UNCHANGED <<pid_table, sender, made, num, usr2, opening, recvFds, kid, fifo>>
  <2>1. CASE tell(s) \/ yell(s) \/ rename(s)
    BY <2>1 DEF tell, yell, rename, Types, signals, files
  <2>2. CASE Said(s) \/ Renames(s) \/ Look(s) \/ broadcast(s)
    BY <2>2 DEF Said, Renames, Look, broadcast, shared, signals, files
  <2> QED BY <2>1, <2>2
<1>2. \A t \in Session : /\ pc'[t] \in Live => pc[t] \in Live
                         /\ pc'[t] = "pipe" => pc[t] = "pipe"
  <2>1. CASE tell(s) \/ yell(s) \/ rename(s)
    <3>1. pc[s] = "prompt"
          /\ (pc' = pc \/ \E where \in {"talk", "name"} : pc' = [pc EXCEPT ![s] = where])
      BY <2>1 DEF tell, yell, rename, Types, Goes
    <3> QED BY <3>1, Ranges DEF Live, Calm
  <2>2. CASE Said(s) \/ Renames(s)
    <3>1. pc[s] \in Live /\ \E where \in {"talk", "prompt"} : pc' = [pc EXCEPT ![s] = where]
      BY <2>2 DEF Said, Renames, Goes, Live
    <3> QED BY <3>1, Ranges DEF Live, Calm
  <2>3. CASE Look(s)
    <3>1. \E S : pc' = Struck(S)
      BY <2>3 DEF Look
    <3>2. \A t \in Session : pc'[t] = pc[t] \/ pc'[t] = "gone"
      BY <3>1, Strikes DEF Calm, IInv
    <3> QED BY <3>2 DEF Live
  <2>4. CASE broadcast(s)
    BY <2>4 DEF broadcast
  <2> QED BY <2>1, <2>2, <2>3, <2>4
<1>3. Small'
  BY <1>1 DEF KInv, Small
<1> QED BY <1>1, <1>2, <1>3, KeepKInv

\* A child that is killed has opened its FIFO before.
LEMMA LookPastKInv ==
  ASSUME Calm, KInv, NEW s \in Session, LookPast(s)
  PROVE  KInv'
<1>1. PICK K \in SUBSET {t \in Session : kid[t].st = "run"} :
        /\ pc' = Struck(Session)
        /\ kid' = [t \in Session |-> IF t \in K THEN [kid[t] EXCEPT !.st = "killed"] ELSE kid[t]]
        /\ UNCHANGED <<pid_table, sender, made, num, usr2, opening, recvFds, fifo>>
  BY DEF LookPast, shared
<1>2. \A t \in Session : /\ pc'[t] \in Live => pc[t] \in Live
                         /\ pc'[t] = "pipe" => pc[t] = "pipe"
  <2>1. \A t \in Session : pc'[t] = pc[t] \/ pc'[t] = "gone"
    BY <1>1, Strikes DEF Calm, IInv
  <2> QED BY <2>1 DEF Live
<1>3. \A t \in Session : kid'[t] = kid[t] \/ kid'[t].st = "killed"
  <2>1. \A t \in Session : [kid[t] EXCEPT !.st = "killed"].st = "killed"
    BY Ranges DEF Calm, Child
  <2> QED BY <1>1, <2>1
<1>4. Small'
  BY <1>1 DEF KInv, Small
<1> QED BY <1>1, <1>2, <1>3, <1>4, KeepKInv

\* A line that leads to a user who has a row.
LEMMA CommandKInv ==
  ASSUME Calm, KInv, NEW s \in Session, Command(s)
  PROVE  KInv'
<1>0. PICK l \in Lines :
        /\ Types(s, "command") /\ Goes(s, "pipe") /\ UNCHANGED fifo
        /\ kid' = [kid EXCEPT ![s] = kidOf(s, l)]
  BY CommandDoes DEF Calm
<1>1. /\ UNCHANGED <<pid_table, sender, made, num, usr2, opening, recvFds>>
      /\ \A t \in Session \ {s} : pc[t] \in Idle
  BY <1>0, Typing, MultiAssumption DEF Calm
<1>2. pc'[s] = "pipe" /\ \A t \in Session : t # s => pc'[t] = pc[t]
  BY <1>0, Ranges DEF Goes, Calm
<1>3. NoCommand
  BY <1>0, <1>1 DEF NoCommand, Idle, Types
<1>4. \A t \in Session : kid[t].st = "none"
  BY <1>3, Resting
<1>5. /\ kid'[s] = kidOf(s, l) /\ \A t \in Session : t # s => kid'[t] = kid[t]
  BY <1>0, Ranges DEF Calm
<1>6. kidOf(s, l).st = "fork" /\ kidOf(s, l).to = IF Sends(s, l) THEN l.to ELSE 0
  BY DEF kidOf
<1>7. Addressed'
  BY <1>1, <1>4, <1>5, <1>6 DEF Addressed, Sends
<1>8. Called'
  BY <1>4, <1>5, <1>6 DEF Called
<1>9. Uncalled'
  BY <1>0, <1>1, <1>2 DEF Uncalled, Types, AtRest, Idle
<1>10. Small'
  BY <1>0 DEF KInv, Small
<1> QED BY <1>7, <1>8, <1>9, <1>10 DEF KInv

\* The handler opens the FIFO of whoever called it last, which the one who waits has made.
LEMMA openForReadKInv ==
  ASSUME Calm, KInv, NEW t \in Session, openForRead(t)
  PROVE  KInv'
<1>1. /\ UNCHANGED <<pid_table, pc, num, kid, sender, made, fifo>>
      /\ usr2[t] /\ opening[t] = 0 /\ usr2' = [usr2 EXCEPT ![t] = FALSE]
  BY DEF openForRead, shared, files
<1>2. /\ usr2 \in [Session -> BOOLEAN] /\ opening \in [Session -> Id \cup {0}]
      /\ recvFds \in [Session -> SUBSET Id]
  BY DEF Calm, IInv, TypeOK
<1>3. \A r \in Session : r # t => recvFds'[r] = recvFds[r] /\ opening'[r] = opening[r]
                                  /\ usr2'[r] = usr2[r]
  BY <1>1, <1>2 DEF openForRead
<1>4. Called'
  <2> SUFFICES ASSUME NEW s \in Session, kid[s].st = "open",
                      NEW r \in Session, pc[r] \in Live, num[r] = kid[s].to
               PROVE  num[s] \in recvFds'[r] \/ usr2'[r] \/ opening'[r] # 0
    BY <1>1 DEF KInv, Called
  <2>1. /\ sender = num[s] /\ <<num[s], num[r]>> \in made /\ num[s] \in Id
        /\ num[s] \in recvFds[r] \/ usr2[r] \/ opening[r] # 0
    BY Waiter DEF KInv, Called
  <2>2. num[s] # 0
    BY <2>1, Ranges DEF Calm
  <2>3. CASE t # r
    BY <1>3, <2>1, <2>3
  <2>4. CASE t = r
    <3>1. \/ recvFds' = [recvFds EXCEPT ![r] = @ \cup {sender}]
          \/ opening' = [opening EXCEPT ![r] = sender]
      BY <2>1, <2>4 DEF openForRead
    <3> QED BY <1>2, <2>1, <2>2, <3>1
  <2> QED BY <2>3, <2>4
<1>5. Uncalled'
  BY <1>1, <1>2, <1>3 DEF KInv, Uncalled
<1> QED BY <1>1, <1>4, <1>5 DEF KInv, Addressed, Small

-----------------------------------------------------------------------------
(* The child's steps again.                                                *)

\* It is forked, exits or has been waited for.
LEMMA ForkKInv ==
  ASSUME Calm, KInv, NEW s \in Session, Fork(s) \/ KidExit(s) \/ WaitKid(s)
  PROVE  KInv'
<1>1. UNCHANGED <<pid_table, sender, made, num, usr2, opening, recvFds, fifo>>
  BY DEF Fork, KidExit, WaitKid, still, shared, signals, files
<1>2. kid \in [Session -> Child] /\ kid[s].st # "none"
  BY Ranges, Waiter DEF Calm, Fork, KidExit, WaitKid
<1>3. pc[s] \in {"pipe", "wait"}
      /\ (pc' = pc \/ \E where \in {"wait", "prompt"} : pc' = [pc EXCEPT ![s] = where])
  BY <1>2, Waiter DEF Fork, KidExit, WaitKid, Goes
<1>4. \A t \in Session : /\ pc'[t] \in Live => pc[t] \in Live
                         /\ pc'[t] = "pipe" => pc[t] = "pipe"
  BY <1>3, Ranges DEF Live, Calm
<1>5. \A t \in Session : t # s => kid'[t] = kid[t]
  BY <1>2 DEF Fork, KidExit, WaitKid
<1>6. kid'[s].st \in {"fork", "send", "open"} =>
        kid'[s].st # "open" /\ kid[s].st \in {"fork", "send", "open"} /\ kid'[s].to = kid[s].to
  <2>1. CASE Fork(s)
    <3>1. kid[s].st = "fork"
      BY <2>1, Waiter DEF Fork
    <3>2. /\ kid'[s].st = IF kid[s].to = 0 THEN "run" ELSE "send"
          /\ kid'[s].to = kid[s].to
      BY <1>2, <2>1 DEF Fork, Child
    <3> QED BY <3>1, <3>2
  <2>2. CASE KidExit(s)
    BY <1>2, <2>2 DEF KidExit, Child
  <2>3. CASE WaitKid(s)
    BY <1>2, <2>3 DEF WaitKid, NoKid
  <2> QED BY <2>1, <2>2, <2>3
<1>7. Small'
  BY <1>1 DEF KInv, Small
<1> QED BY <1>1, <1>4, <1>5, <1>6, <1>7, KeepKInv

\* A unit read leaves room, and one is written only if there is room.
LEMMA DataKInv ==
  ASSUME Calm, KInv, NEW s \in Session, KidRead(s) \/ KidWrite(s)
  PROVE  KInv'
<1>1. /\ UNCHANGED <<pid_table, sender, made, num, usr2, opening, recvFds, pc>>
      /\ kid[s].st = "run"
  BY DEF KidRead, KidWrite, still, signals
<1>2. /\ kid \in [Session -> Child] /\ fifo \in [Fifo -> Seq(Nat)] /\ num[s] \in Id
      /\ 0 \notin Id /\ Cap \in Nat
  BY <1>1, Ranges, Waiter, MultiAssumption DEF Calm
<1>3. kid'[s].st = "run" /\ \A t \in Session : t # s => kid'[t] = kid[t]
  BY <1>1, <1>2 DEF KidRead, KidWrite, Child
<1>4. Small'
  <2>1. CASE KidRead(s)
    <3>1. fifo' = [fifo EXCEPT ![fifoName(s)] = Tail(@)] /\ fifo[fifoName(s)] # <<>>
          /\ fifoName(s) \in Fifo
      BY <1>2, <2>1 DEF KidRead, fifoName, Fifo
    <3>2. Len(Tail(fifo[fifoName(s)])) <= Len(fifo[fifoName(s)])
          /\ Len(fifo[fifoName(s)]) \in Nat /\ Len(Tail(fifo[fifoName(s)])) \in Nat
      BY <1>2, <3>1
    <3>3. \A p \in Fifo : Len(fifo[p]) <= Cap
      BY DEF KInv, Small
    <3>4. Len(Tail(fifo[fifoName(s)])) <= Cap
      BY <1>2, <3>1, <3>2, <3>3
    <3>5. \A p \in Fifo :
            fifo'[p] = fifo[p] \/ fifo'[p] = Tail(fifo[fifoName(s)])
      BY <1>2, <3>1
    <3> HIDE DEF Fifo
    <3> QED BY <3>3, <3>4, <3>5 DEF Small
  <2>2. CASE KidWrite(s) /\ kid[s].to = 0
    BY <2>2 DEF KidWrite, KInv, Small
  <2>3. CASE KidWrite(s) /\ kid[s].to # 0
    <3> DEFINE p == <<num[s], kid[s].to>>
    <3>1. fifo' = [fifo EXCEPT ![p] = Append(fifo[p], kid[s].me)] /\ Len(fifo[p]) < Cap
      BY <2>3 DEF KidWrite
    <3>2. kid[s].to \in Id /\ kid[s].me \in Nat
      BY <1>2, <2>3 DEF Child
    <3>3. p \in Fifo /\ fifo[p] \in Seq(Nat)
      BY <1>2, <3>2 DEF Fifo
    <3> HIDE DEF p
    <3>4. Len(Append(fifo[p], kid[s].me)) = Len(fifo[p]) + 1 /\ Len(fifo[p]) \in Nat
      BY <3>2, <3>3
    <3>5. Len(Append(fifo[p], kid[s].me)) <= Cap
      BY <1>2, <3>1, <3>4
    <3>6. \A q \in Fifo : fifo'[q] = fifo[q] \/ fifo'[q] = Append(fifo[p], kid[s].me)
      BY <1>2, <3>1
    <3> QED BY <3>5, <3>6 DEF KInv, Small
  <2> QED BY <2>1, <2>2, <2>3
<1> QED BY <1>1, <1>3, <1>4, KeepKInv

\* Whoever a child signals has its handler called.
LEMMA KidSignalKInv ==
  ASSUME Calm, KInv, NEW s \in Session, KidSignal(s)
  PROVE  KInv'
<1>1. /\ kid[s].st = "send" /\ kid' = [kid EXCEPT ![s].st = "open"]
      /\ sender' = num[s] /\ made' = made \cup {<<num[s], kid[s].to>>}
      /\ usr2' = Raised(usr2, {receiver(s)}) /\ pc' = Struck({receiver(s)})
      /\ UNCHANGED <<pid_table, num, recvFds, opening, fifo>>
  BY DEF KidSignal, still, files
<1>2. /\ pc[s] = "wait" /\ pc' = pc /\ \A t \in Session : t # s => kid[t] = NoKid /\ pc[t] # "pipe"
  BY <1>1, Waiter DEF Busy
<1>3. kid[s] \in Child /\ kid \in [Session -> Child]
  BY Ranges DEF Calm
<1>4. kid'[s].st = "open" /\ kid'[s].to = kid[s].to /\ \A t \in Session : t # s => kid'[t] = NoKid
  BY <1>1, <1>2, <1>3 DEF Child
<1>5. kid[s].to \in Id
  BY <1>1, <1>3 DEF Calm, IInv, Numbered, Child
<1>6. Addressed'
  BY <1>1, <1>2, <1>4 DEF KInv, Addressed, NoKid
<1>7. ASSUME NEW r \in Session, pc[r] \in Live, num[r] = kid[s].to PROVE usr2'[r]
  <2>1. receiver(s) = r
    BY <1>7 DEF receiver, Calm, IInv, Claimed, RowIsOwn, mine
  <2> QED BY <1>1, <1>7, <2>1 DEF Raised
<1>8. Called'
  <2> SUFFICES ASSUME NEW t \in Session, kid'[t].st = "open"
               PROVE  /\ sender' = num'[t] /\ <<num'[t], kid'[t].to>> \in made'
                      /\ \A r \in Session : pc'[r] \in Live /\ num'[r] = kid'[t].to => usr2'[r]
    BY DEF Called
  <2>1. t = s
    BY <1>4 DEF NoKid
  <2> QED BY <1>1, <1>2, <1>4, <1>7, <2>1
<1>9. Uncalled'
  BY <1>2 DEF Uncalled
<1>10. Small'
  BY <1>1 DEF KInv, Small
<1> QED BY <1>6, <1>8, <1>9, <1>10 DEF KInv

\* A child that has its FIFO open calls nobody any more; it woke those who wait for it.
LEMMA KidOpenKInv ==
  ASSUME Calm, KInv, NEW s \in Session, KidOpen(s)
  PROVE  KInv'
<1>1. /\ kid[s].st = "open" /\ kid' = [kid EXCEPT ![s].st = "run"]
      /\ UNCHANGED <<pid_table, num, pc, fifo>>
  BY DEF KidOpen, still, files
<1>2. /\ pc[s] = "wait" /\ \A t \in Session : t # s => kid[t] = NoKid /\ pc[t] # "pipe"
  BY <1>1, Waiter DEF Busy
<1>3. kid'[s].st = "run" /\ \A t \in Session : t # s => kid'[t].st = "none"
  BY <1>1, <1>2, Ranges DEF Calm, Child, NoKid
<1>4. Addressed' /\ Called' /\ Uncalled'
  BY <1>1, <1>2, <1>3 DEF Addressed, Called, Uncalled
<1>5. Small'
  BY <1>1 DEF KInv, Small
<1> QED BY <1>4, <1>5 DEF KInv

LEMMA StepKInv == IInv /\ Waiting /\ FInv /\ KInv /\ [Next]_vars => KInv'
<1> SUFFICES ASSUME Calm, KInv, [Next]_vars PROVE KInv'
  BY DEF Calm
<1>0. FInv'
  BY StepFInv DEF Calm
<1>1. CASE Connect
  BY <1>0, <1>1, ConnectKInv
<1>2. ASSUME NEW s \in Session, login(s) PROVE KInv'
  BY <1>0, <1>2, ConnectKInv
<1>3. ASSUME NEW s \in Session, Builtin(s) PROVE KInv'
  BY <1>0, <1>3, TalkKInv, DepartKInv DEF Builtin
<1>4. ASSUME NEW s \in Session, Command(s) \/ GoesOn(s) PROVE KInv'
  BY <1>0, <1>4, CommandKInv, TalkKInv, LookPastKInv, DepartKInv, ForkKInv DEF GoesOn
<1>5. ASSUME NEW s \in Session, broadcast(s) \/ openForRead(s) PROVE KInv'
  BY <1>5, TalkKInv, openForReadKInv
<1>6. ASSUME NEW s \in Session, KidStep(s) PROVE KInv'
  BY <1>6, KidSignalKInv, KidOpenKInv, DataKInv, ForkKInv DEF KidStep
<1>7. CASE UNCHANGED vars
  <2>1. UNCHANGED <<pid_table, pc, num, kid, sender, made, recvFds, usr2, opening, fifo>>
    BY <1>7 DEF vars, shared, signals, files
  <2> QED BY <2>1 DEF KInv, Addressed, Called, Uncalled, Small
<1> QED BY <1>1, <1>2, <1>3, <1>4, <1>5, <1>6, <1>7 DEF Next

LEMMA StuckOnlyIfExcused == IInv /\ Waiting /\ FInv /\ KInv => NeverStuck
<1> SUFFICES ASSUME Calm, KInv, NEW s \in Session, pc[s] \in {"pipe", "wait"}
             PROVE  CanGoOn(s) \/ Excused(s)
  BY DEF NeverStuck, Calm
<1>1. /\ OneChild(s) /\ num[s] \in Id /\ (kid[s].st = "fork" <=> pc[s] = "pipe")
      /\ kid[s] \in Child /\ kid[s].st # "none"
      /\ \A t \in Session : t # s => kid[t] = NoKid /\ pc[t] \notin Busy
  BY Waiter, Ranges DEF Calm
<1>2. usr1[s] \in BOOLEAN /\ usr2[s] \in BOOLEAN
  BY DEF Calm, IInv, TypeOK
<1>3. CASE kid[s].st \in {"fork", "done", "killed"}
  <2>1. kid[s].st = "fork" => opening[s] = 0
    BY <1>1 DEF KInv, Uncalled
  <2> QED BY <1>2, <1>3, <2>1 DEF CanGoOn, HandlerCan, AtRest, Excused, Misled
<1>4. CASE kid[s].st = "send"
  BY <1>4 DEF CanGoOn, KidCan
<1>5. CASE kid[s].st = "open"
  <2> DEFINE r == receiver(s)
  <2>1. kid[s].to \in Id
    BY <1>1, <1>5 DEF OneChild, Joined, Child
  <2>2. r \in Session /\ num[r] = kid[s].to /\ pc[r] \notin {"none", "born"} /\ pc[r] \in Stage
    <3>1. pid_table[kid[s].to] # None
      BY <1>1, <1>5, <2>1, Ranges DEF KInv, Addressed, Calm
    <3>2. pid_table \in [Id -> Session \cup {None}]
      BY DEF Calm, IInv, TypeOK
    <3> QED BY <2>1, <3>1, <3>2, Ranges DEF receiver, Calm, IInv, Led
  <2> HIDE DEF r
  <2>3. pc[r] # "row"
    BY <1>1, <1>5, <2>2 DEF Busy
  <2>4. CASE pc[r] = "gone"
    BY <1>5, <2>4 DEF Excused, r
  <2>5. CASE pc[r] \in Live
    <3>1. num[s] \in recvFds[r] \/ usr2[r] \/ opening[r] # 0
      BY <1>5, <2>2, <2>5 DEF KInv, Called
    <3>2. CASE num[s] \in recvFds[r] \/ opening[r] = num[s]
      BY <1>5, <2>2, <2>5, <3>2 DEF CanGoOn, KidCan, HasOpen, Waits
    <3>3. CASE usr2[r] /\ opening[r] = 0
      BY <1>5, <3>3 DEF CanGoOn, KidCan, HandlerCan, r
    <3>4. CASE opening[r] \notin {0, num[s]}
      BY <1>5, <3>4 DEF Excused, Misled, r
    <3> QED BY <3>1, <3>2, <3>3, <3>4
  <2> QED BY <2>2, <2>3, <2>4, <2>5 DEF Stage
<1>6. CASE kid[s].st = "run"
  <2>1. CASE kid[s].left # 0
    <3>1. kid[s].left > 0
      <4>1. kid[s].left \in Nat
        BY <1>1 DEF Child
      <4> QED BY <2>1, <4>1
    <3>2. CASE kid[s].to = 0
      BY <1>6, <3>1, <3>2 DEF CanGoOn, KidCan
    <3>3. CASE kid[s].to # 0
      <4>1. <<num[s], kid[s].to>> \in Fifo
        BY <1>1, <3>3 DEF Child, Fifo
      <4>2. fifo[<<num[s], kid[s].to>>] \in Seq(Nat)
        BY <4>1, Ranges DEF Calm
      <4>3. Len(fifo[<<num[s], kid[s].to>>]) \in Nat /\ Cap \in Nat
        BY <4>2, MultiAssumption
      <4>4. Len(fifo[<<num[s], kid[s].to>>]) <= Cap
        BY <4>1 DEF KInv, Small
      <4>5. CASE Len(fifo[<<num[s], kid[s].to>>]) = Cap
        BY <1>6, <3>1, <3>3, <4>5 DEF Excused, Brimming
      <4>6. CASE Len(fifo[<<num[s], kid[s].to>>]) < Cap
        BY <1>6, <3>1, <4>6 DEF CanGoOn, KidCan
      <4> QED BY <4>3, <4>4, <4>5, <4>6
    <3> QED BY <3>2, <3>3
  <2>2. CASE kid[s].left = 0 /\ ~kid[s].filter
    BY <1>6, <2>2 DEF CanGoOn, KidCan
  <2>3. CASE kid[s].left = 0 /\ kid[s].filter
    <3>1. kid[s].in \in Id \/ kid[s].in = Null
      BY <1>1, <2>3 DEF OneChild, Joined, Child
    <3>2. CASE kid[s].in = Null
      BY <1>6, <2>3, <3>2 DEF CanGoOn, KidCan, AtEof
    <3>3. CASE kid[s].in \in Id /\ fifo[fifoName(s)] # <<>>
      BY <1>6, <2>3, <3>3 DEF CanGoOn, KidCan
    <3>4. CASE kid[s].in \in Id /\ fifo[fifoName(s)] = <<>> /\ ~Writing(kid[s].in, num[s])
      BY <1>6, <2>3, <3>4 DEF CanGoOn, KidCan, AtEof
    <3>5. CASE kid[s].in \in Id /\ Writing(kid[s].in, num[s])
      <4>1. Turning(s)
        BY <1>1, <3>5 DEF Writing, Turning, NoKid
      <4> QED BY <4>1 DEF Excused
    <3> QED BY <3>1, <3>2, <3>3, <3>4, <3>5
  <2> QED BY <2>1, <2>2, <2>3
<1> QED BY <1>1, <1>3, <1>4, <1>5, <1>6 DEF Child

(* NoStandstill: unless users connect while others are busy, a session     *)
(* that runs a command is never left with nobody to go on, except for what *)
(* Excused names: what Returns needs besides fairness, for every number of *)
(* users and every size of a FIFO.                                         *)
THEOREM NoStandstill == ASSUME Waiting PROVE Spec => []NeverStuck
<1>1. Init => KInv
  BY InitKInv
<1>2. IInv /\ Waiting /\ FInv /\ KInv /\ [Next]_vars => KInv'
  BY StepKInv
<1>3. IInv /\ Waiting /\ FInv /\ KInv => NeverStuck
  BY StuckOnlyIfExcused
<1>4. Waiting
  OBVIOUS
<1> QED BY <1>1, <1>2, <1>3, <1>4, Invariance, FlagsFlow, PTL DEF Spec
=============================================================================
