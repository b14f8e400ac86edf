------------------------- MODULE SocksSession_proofs -------------------------
(***************************************************************************)
(* What holds of a session of socks_server for all addresses, rules,       *)
(* resolver answers, socket sizes and amounts of data: both directions     *)
(* implement Stream, replies keep to SOCKS 4 and are true, and the relay   *)
(* ends by a reset only.                                                   *)
(*                                                                         *)
(* At the end, that data under way and a client without an answer always   *)
(* have somebody to bring them on.                                         *)
(***************************************************************************)
EXTENDS SocksSession, TLAPS, SequenceTheorems, WellFoundedInduction

Early == {"request", "resolve", "connect"}

\* Before the relay nothing is relayed, and before a destination is known nothing is said.
Phases ==
  /\ pc \notin {"relay", "exited"} =>
       /\ \A d \in Side : got[d] = <<>> /\ buffer[d] = <<>> /\ turn[d] = "off"
       /\ out["server"] = <<>> /\ sent["client"] = 0
       /\ \A j \in DOMAIN out["client"] : IsReply(out["client"][j])
  /\ pc \in Early => heard = <<>> /\ out["client"] = <<>> /\ ~rst["client"]
  /\ pc \in {"request", "resolve"} => DSTIP = Port
  /\ pc \in {"connect", "accept"} => <<CD, DSTIP>> \in checked
  /\ pc = "connect" => CD = 1
  /\ pc = "accept" => CD = 2
  /\ pc = "relay" => CD \in {1, 2}
  /\ pc \in {"request", "resolve"} => peer["server"] = "none"
  /\ CD = 1 /\ peer["server"] # "none" => host = DSTIP
  /\ CD = 0 => pc \in {"request", "left"}

\* A side's buffer is empty while its loop reads; who has reset is gone, and takes nothing.
Sockets ==
  \A d \in Side :
    /\ turn[d] # "write" => buffer[d] = <<>>
    /\ rst[d] => peer[d] = "gone"
    /\ peer[d] = "gone" => out[d] = <<>>

(* The units between a peer and the other are consecutive: those received, *)
(* those written, behind k replies, those in the buffer, those to be read. *)
Written(d, k) == Len(got[Other(d)]) + Len(out[Other(d)]) - k
Taken(d, k) == Written(d, k) + Len(buffer[d])
Got(d) == \A i \in 1 .. Len(got[Other(d)]) : got[Other(d)][i] = i
Behind(d, k) ==
  \A j \in 1 .. Len(out[Other(d)]) :
    IF j <= k THEN IsReply(out[Other(d)][j])
    ELSE out[Other(d)][j] = Unit(Len(got[Other(d)]) + j - k)
InBuffer(d, k) == \A i \in 1 .. Len(buffer[d]) : buffer[d][i] = Written(d, k) + i
InSocket(d, k) == \A i \in 1 .. Len(in[d]) : in[d][i] = Taken(d, k) + i
Flow(d, k) ==
  /\ Got(d) /\ Behind(d, k)
  /\ d = "client" => k = 0
  /\ Written(d, k) <= sent[d]
  /\ pc # "exited" /\ peer[Other(d)] # "gone" =>
       InBuffer(d, k) /\ InSocket(d, k) /\ sent[d] = Taken(d, k) + Len(in[d])

Flows == \A d \in Side : \E k \in 0 .. Len(out[Other(d)]) : Flow(d, k)

\* Replies under way will be true when they are heard.
Told == \A j \in DOMAIN out["client"] :
          IsReply(out["client"][j]) => True(out["client"][j], Len(heard) + j)

IInv == TypeOK /\ Phases /\ Sockets /\ Flows /\ Protocol /\ Truthful /\ Told /\ EndsByReset

-----------------------------------------------------------------------------
LEMMA InitInv == Init => IInv
<1> SUFFICES ASSUME Init PROVE IInv
  OBVIOUS
<1> USE DEF Init
<1>1. TypeOK
  BY SocksAssumption DEF TypeOK
<1>2. Phases
  BY DEF Phases, Early, Side
<1>3. Sockets
  BY DEF Sockets
<1>4. Flows
  BY DEF Flows, Flow, Other, Side, Got, Behind, InBuffer, InSocket, Written, Taken
<1>5. Protocol
  BY DEF Protocol, Expected, Side
<1>6. Truthful /\ Told
  BY DEF Truthful, Told, Side
<1>7. EndsByReset
  BY DEF EndsByReset
<1> QED BY <1>1, <1>2, <1>3, <1>4, <1>5, <1>6, <1>7 DEF IInv

-----------------------------------------------------------------------------
(* What a step leaves as it was.                                           *)

LEMMA FlowsKept ==
  ASSUME IInv, UNCHANGED <<got, out, sent, buffer, in>>,
         \A d \in Side : pc' # "exited" /\ peer'[d] # "gone" => pc # "exited" /\ peer[d] # "gone"
  PROVE  Flows'
<1>1. \A d \in Side : Other(d) \in Side
  BY DEF Side, Other
<1>2. ASSUME NEW d \in Side, NEW k \in 0 .. Len(out[Other(d)]), Flow(d, k) PROVE Flow(d, k)'
  BY <1>1, <1>2 DEF Flow, Got, Behind, InBuffer, InSocket, Written, Taken
<1> QED BY <1>2 DEF IInv, Flows

LEMMA ProtocolKept ==
  ASSUME IInv, UNCHANGED <<heard, out, got>>,
         pc' # "exited" /\ peer'["client"] # "gone" =>
           pc # "exited" /\ peer["client"] # "gone" /\ Expected \subseteq Expected'
  PROVE  Protocol'
  BY DEF IInv, Protocol

LEMMA TruthKept ==
  ASSUME IInv, UNCHANGED <<heard, out>>,
         \A r \in Answer, i \in Nat : True(r, i) => True(r, i)'
  PROVE  Truthful' /\ Told'
<1>1. heard \in Seq(Answer) /\ out["client"] \in Seq(Item)
  BY DEF IInv, TypeOK, Side
<1>2. Truthful'
  BY <1>1 DEF IInv, Truthful
<1>3. Told'
  <2> SUFFICES ASSUME NEW j \in DOMAIN out["client"], IsReply(out["client"][j])
               PROVE  True(out["client"][j], Len(heard) + j)'
    BY DEF Told
  <2>1. out["client"][j] \in Answer
    BY <1>1 DEF Item, IsReply
  <2>2. Len(heard) + j \in Nat
    BY <1>1
  <2> QED BY <2>1, <2>2 DEF IInv, Told
<1> QED BY <1>2, <1>3

LEMMA EditInv == ASSUME IInv, EditRules PROVE IInv'
<1> USE DEF EditRules, session, relay, ends
<1>1. TypeOK'
  BY SocksAssumption DEF IInv, TypeOK
<1>2. Phases' /\ Sockets' /\ EndsByReset'
  BY DEF IInv, Phases, Early, Sockets, EndsByReset
<1>3. Flows'
  BY FlowsKept
<1>4. Protocol'
  BY ProtocolKept DEF Expected
<1>5. Truthful' /\ Told'
  BY TruthKept DEF True, Closed
<1> QED BY <1>1, <1>2, <1>3, <1>4, <1>5 DEF IInv

LEMMA AskInv == ASSUME IInv, NEW c \in 1 .. 3, Ask(c) PROVE IInv'
<1> USE DEF Ask, file, relay, ends
<1>1. TypeOK'
  BY DEF IInv, TypeOK
<1>2. Phases' /\ Sockets' /\ EndsByReset'
  BY DEF IInv, Phases, Early, Sockets, EndsByReset
<1>3. Flows'
  BY FlowsKept
<1>4. Protocol'
  BY ProtocolKept DEF Expected
<1>5. heard = <<>> /\ out["client"] = <<>>
  BY DEF IInv, Phases, Early
<1>6. Truthful' /\ Told'
  BY <1>5 DEF Truthful, Told
<1> QED BY <1>1, <1>2, <1>3, <1>4, <1>6 DEF IInv

LEMMA MeetInv == ASSUME IInv, NEW how \in {"open", "refused"}, NEW h \in V4, Meet(how, h) PROVE IInv'
<1> USE DEF Meet, file, session, relay, ends
<1>0. peer \in [Side -> {"none", "refused", "open", "shut", "gone"}]
  BY DEF IInv, TypeOK
<1>1. TypeOK'
  BY DEF IInv, TypeOK
<1>2. Phases' /\ Sockets' /\ EndsByReset'
  BY <1>0 DEF IInv, Phases, Early, Sockets, EndsByReset, Side
<1>3. Flows'
  BY <1>0, FlowsKept DEF Side
<1>4. Protocol'
  BY <1>0, ProtocolKept DEF Expected, Side
<1>5. Truthful' /\ Told'
  BY <1>0, TruthKept DEF True, Closed, Side
<1> QED BY <1>1, <1>2, <1>3, <1>4, <1>5 DEF IInv

LEMMA ShutInv == ASSUME IInv, NEW d \in Side, Shut(d) PROVE IInv'
<1> USE DEF Shut, file, session, relay, ends
<1>0. peer \in [Side -> {"none", "refused", "open", "shut", "gone"}]
  BY DEF IInv, TypeOK
<1>1. TypeOK'
  BY DEF IInv, TypeOK
<1>2. Phases' /\ Sockets' /\ EndsByReset'
  BY <1>0 DEF IInv, Phases, Early, Sockets, EndsByReset, Side
<1>3. Flows'
  BY <1>0, FlowsKept DEF Side
<1>4. Protocol'
  BY <1>0, ProtocolKept DEF Expected, Side
<1>5. Truthful' /\ Told'
  BY <1>0, TruthKept DEF True, Closed, Side
<1> QED BY <1>1, <1>2, <1>3, <1>4, <1>5 DEF IInv

LEMMA LeaveInv == ASSUME IInv, NEW d \in Side, Leave(d) PROVE IInv'
<1> USE DEF Leave, file, session, relay, ends
<1>0. /\ peer \in [Side -> {"none", "refused", "open", "shut", "gone"}]
      /\ rst \in [Side -> BOOLEAN] /\ out \in [Side -> Seq(Item)]
  BY DEF IInv, TypeOK
<1>1. TypeOK'
  <2>1. rst' \in [Side -> BOOLEAN] /\ out' \in [Side -> Seq(Item)]
    BY <1>0
  <2> QED BY <2>1 DEF IInv, TypeOK
<1>2. Phases' /\ Sockets' /\ EndsByReset'
  BY <1>0 DEF IInv, Phases, Early, Sockets, EndsByReset, Side
<1>3. Flows'
  <2>1. \A e \in Side : Other(e) \in Side
    BY DEF Side, Other
  <2> SUFFICES ASSUME NEW e \in Side PROVE (\E k \in 0 .. Len(out[Other(e)]) : Flow(e, k))'
    BY DEF Flows
  <2>2. PICK k \in 0 .. Len(out[Other(e)]) : Flow(e, k)
    BY DEF IInv, Flows
  <2>3. CASE Other(e) = d
    <3>1. out'[d] = <<>> /\ peer'[d] = "gone"
      BY <1>0
    <3>2. Len(got[d]) <= sent[e]
      BY <1>0, <2>1, <2>2, <2>3 DEF Flow, Written, IInv, TypeOK
    <3>3. Written(e, 0)' = Len(got[d]) /\ Behind(e, 0)'
      BY <2>3, <3>1 DEF IInv, TypeOK, Written, Behind
    <3>4. Got(e)'
      BY <2>2 DEF Flow, Got
    <3>5. Flow(e, 0)'
      BY <2>3, <3>1, <3>2, <3>3, <3>4 DEF Flow
    <3> QED BY <2>3, <3>1, <3>5
  <2>4. CASE Other(e) # d
    <3>1. out'[Other(e)] = out[Other(e)] /\ peer'[Other(e)] = peer[Other(e)]
      BY <1>0, <2>1, <2>4
    <3> QED BY <2>2, <3>1 DEF Flow, Got, Behind, InBuffer, InSocket, Written, Taken
  <2> QED BY <2>3, <2>4
<1>4. Protocol'
  <2>1. CASE d = "client"
    BY <1>0, <2>1 DEF Protocol
  <2>2. CASE d = "server"
    <3>1. out'["client"] = out["client"] /\ peer'["client"] = peer["client"]
      BY <1>0, <2>2 DEF Side
    <3> QED BY <3>1 DEF IInv, Protocol, Expected
  <2> QED BY <2>1, <2>2 DEF Side
<1>5. Truthful' /\ Told'
  <2>1. peer'["server"] \in {"none", "refused"} <=> peer["server"] \in {"none", "refused"}
    BY <1>0 DEF Side
  <2>2. peer'["server"] = "refused" <=> peer["server"] = "refused"
    BY <1>0 DEF Side
  <2>3. \A r, i : True(r, i) => True(r, i)'
    BY <2>1, <2>2 DEF True, Closed
  <2>4. out'["client"] = out["client"] \/ out'["client"] = <<>>
    BY <1>0 DEF Side
  <2> QED BY <2>3, <2>4 DEF IInv, Truthful, Told
<1> QED BY <1>1, <1>2, <1>3, <1>4, <1>5 DEF IInv

LEMMA SendInv == ASSUME IInv, NEW d \in Side, Send(d) PROVE IInv'
<1> USE DEF Send, file, session, relay
<1>0. sent \in [Side -> Nat] /\ in \in [Side -> Seq(Nat)]
  BY DEF IInv, TypeOK
<1>1. TypeOK'
  <2>1. sent' \in [Side -> Nat] /\ sent'[d] \in Nat
    BY <1>0
  <2>2. in' \in [Side -> Seq(Nat)]
    BY <1>0, <2>1
  <2> QED BY <2>1, <2>2 DEF IInv, TypeOK
<1>2. Phases' /\ Sockets' /\ EndsByReset'
  BY <1>0 DEF IInv, Phases, Early, Sockets, EndsByReset, Side
<1>3. Flows'
  <2>1. \A e \in Side : Other(e) \in Side
    BY DEF Side, Other
  <2> SUFFICES ASSUME NEW e \in Side PROVE (\E k \in 0 .. Len(out[Other(e)]) : Flow(e, k))'
    BY DEF Flows
  <2>2. PICK k \in 0 .. Len(out[Other(e)]) : Flow(e, k)
    BY DEF IInv, Flows
  <2>3. Written(e, k) \in Int /\ Taken(e, k) \in Int
    BY <2>1 DEF IInv, TypeOK, Written, Taken
  <2>4. CASE e = d
    <3>1. in'[e] = Append(in[e], sent[e] + 1) /\ sent'[e] = sent[e] + 1 /\ sent[e] \in Nat
      BY <1>0, <2>4
    <3>2. /\ Len(in'[e]) = Len(in[e]) + 1 /\ Len(in[e]) \in Nat
          /\ \A i \in 1 .. Len(in[e]) : in'[e][i] = in[e][i]
          /\ in'[e][Len(in[e]) + 1] = sent[e] + 1
      BY <1>0, <3>1, AppendProperties
    <3>3. Written(e, k)' = Written(e, k) /\ Taken(e, k)' = Taken(e, k)
      BY DEF Written, Taken
    <3>4. Written(e, k) <= sent'[e]
      BY <2>2, <2>3, <3>1 DEF Flow
    <3>5. ASSUME pc # "exited", peer[Other(e)] # "gone"
          PROVE  InBuffer(e, k)' /\ InSocket(e, k)' /\ sent'[e] = Taken(e, k) + Len(in'[e])
      <4>1. InBuffer(e, k) /\ InSocket(e, k) /\ sent[e] = Taken(e, k) + Len(in[e])
        BY <2>2, <3>5 DEF Flow
      <4>2. InBuffer(e, k)'
        BY <4>1, <3>3 DEF InBuffer
      <4>3. InSocket(e, k)'
        BY <2>3, <3>1, <3>2, <3>3, <4>1 DEF InSocket
      <4> QED BY <2>3, <3>1, <3>2, <4>1, <4>2, <4>3
    <3>6. Got(e)' /\ Behind(e, k)'
      BY <2>2 DEF Flow, Got, Behind
    <3> QED BY <2>2, <3>3, <3>4, <3>5, <3>6 DEF Flow
  <2>5. CASE e # d
    <3>1. in'[e] = in[e] /\ sent'[e] = sent[e]
      BY <1>0, <2>5
    <3> QED BY <2>2, <3>1 DEF Flow, Got, Behind, InBuffer, InSocket, Written, Taken
  <2> QED BY <2>4, <2>5
<1>4. Protocol'
  BY ProtocolKept DEF Expected
<1>5. Truthful' /\ Told'
  BY TruthKept DEF True, Closed
<1> QED BY <1>1, <1>2, <1>3, <1>4, <1>5 DEF IInv

LEMMA StartInv == ASSUME IInv, do_start PROVE IInv'
<1> USE DEF do_start, file, session, relay, ends
<1>1. TypeOK'
  BY DEF IInv, TypeOK
<1>2. Phases' /\ Sockets' /\ EndsByReset'
  BY DEF IInv, Phases, Early, Sockets, EndsByReset
<1>3. Flows'
  BY FlowsKept
<1>4. Protocol'
  BY ProtocolKept DEF Expected
<1>5. heard = <<>> /\ out["client"] = <<>>
  BY DEF IInv, Phases, Early
<1>6. Truthful' /\ Told'
  BY <1>5 DEF Truthful, Told
<1> QED BY <1>1, <1>2, <1>3, <1>4, <1>6 DEF IInv

-----------------------------------------------------------------------------
(* A peer receives: the first item under way moves to its end.             *)

LEMMA SaidShift ==
  ASSUME NEW S, NEW h \in Seq(S), NEW t \in Seq(S), t # <<>>, NEW k \in 1 .. Len(t)
  PROVE  Append(h, Head(t)) \o SubSeq(Tail(t), 1, k - 1) = h \o SubSeq(t, 1, k)
<1> DEFINE a == Append(h, Head(t))
           u == SubSeq(Tail(t), 1, k - 1)
           v == SubSeq(t, 1, k)
<1>1. /\ Head(t) \in S /\ Head(t) = t[1] /\ Tail(t) \in Seq(S) /\ Len(Tail(t)) = Len(t) - 1
      /\ \A i \in 1 .. Len(Tail(t)) : Tail(t)[i] = t[i + 1]
  BY HeadTailProperties
<1>2. a \in Seq(S) /\ Len(a) = Len(h) + 1 /\ a[Len(h) + 1] = t[1]
      /\ \A i \in 1 .. Len(h) : a[i] = h[i]
  BY <1>1, AppendProperties
<1>3. u \in Seq(S) /\ Len(u) = k - 1 /\ \A i \in 1 .. k - 1 : u[i] = t[i + 1]
  <2>1. \A i \in 1 .. k - 1 : Tail(t)[i] \in S
    BY <1>1
  <2>2. /\ u \in Seq(S) /\ Len(u) = IF 1 <= k - 1 THEN k - 1 - 1 + 1 ELSE 0
        /\ \A i \in 1 .. k - 1 - 1 + 1 : u[i] = Tail(t)[1 + i - 1]
    BY <2>1, SubSeqProperties
  <2> QED BY <1>1, <2>2
<1>4. v \in Seq(S) /\ Len(v) = k /\ \A i \in 1 .. k : v[i] = t[i]
  <2>1. \A i \in 1 .. k : t[i] \in S
    OBVIOUS
  <2>2. /\ v \in Seq(S) /\ Len(v) = IF 1 <= k THEN k - 1 + 1 ELSE 0
        /\ \A i \in 1 .. k - 1 + 1 : v[i] = t[1 + i - 1]
    BY <2>1, SubSeqProperties
  <2> QED BY <2>2
<1> HIDE DEF a, u, v
<1>0. Len(h) \in Nat /\ k \in Nat /\ k >= 1 /\ Len(h) + 1 + (k - 1) = Len(h) + k
  OBVIOUS
<1>5. /\ a \o u \in Seq(S) /\ Len(a \o u) = Len(h) + k
      /\ \A i \in 1 .. Len(h) + k :
           (a \o u)[i] = IF i <= Len(h) + 1 THEN a[i] ELSE u[i - (Len(h) + 1)]
  <2>1. /\ a \o u \in Seq(S) /\ Len(a \o u) = Len(a) + Len(u)
        /\ \A i \in 1 .. Len(a) + Len(u) :
             (a \o u)[i] = IF i <= Len(a) THEN a[i] ELSE u[i - Len(a)]
    BY <1>2, <1>3, ConcatProperties
  <2>2. Len(a) + Len(u) = Len(h) + k /\ Len(a) = Len(h) + 1
    BY <1>0, <1>2, <1>3
  <2> QED BY ONLY <2>1, <2>2
<1>6. /\ h \o v \in Seq(S) /\ Len(h \o v) = Len(h) + k
      /\ \A i \in 1 .. Len(h) + k : (h \o v)[i] = IF i <= Len(h) THEN h[i] ELSE v[i - Len(h)]
  BY <1>4, ConcatProperties
<1>7. ASSUME NEW i \in 1 .. Len(h) + k PROVE (a \o u)[i] = (h \o v)[i]
  <2>1. CASE i <= Len(h)
    BY <1>2, <1>5, <1>6, <2>1
  <2>2. CASE i = Len(h) + 1
    BY <1>2, <1>4, <1>5, <1>6, <2>2
  <2>3. CASE i > Len(h) + 1
    <3>1. (a \o u)[i] = u[i - (Len(h) + 1)] /\ i - (Len(h) + 1) \in 1 .. k - 1
      BY <1>0, <1>5, <2>3
    <3>2. (h \o v)[i] = v[i - Len(h)] /\ i - Len(h) \in 1 .. k
      BY <1>0, <1>6, <2>3
    <3>3. u[i - (Len(h) + 1)] = t[i - (Len(h) + 1) + 1]
      BY <1>3, <3>1
    <3>4. v[i - Len(h)] = t[i - Len(h)] /\ i - (Len(h) + 1) + 1 = i - Len(h)
      BY <1>0, <1>4, <3>2
    <3> QED BY <3>1, <3>2, <3>3, <3>4
  <2>4. i \in Int /\ (i <= Len(h) \/ i = Len(h) + 1 \/ i > Len(h) + 1)
    BY <1>0
  <2> QED BY ONLY <2>1, <2>2, <2>3, <2>4
<1>8. a \o u = h \o v
  BY <1>5, <1>6, <1>7, SeqEqual
<1> QED BY <1>8 DEF a, u, v

LEMMA ReceiveFlows == ASSUME IInv, NEW d \in Side, Receive(d) PROVE Flows'
<1> USE DEF Receive, file, session, relay
<1>0. /\ out \in [Side -> Seq(Item)] /\ got \in [Side -> Seq(Nat)] /\ out[d] # <<>>
      /\ sent \in [Side -> Nat] /\ \A e \in Side : Other(e) \in Side
  BY DEF IInv, TypeOK, Other, Side
<1> SUFFICES ASSUME NEW e \in Side PROVE (\E k \in 0 .. Len(out[Other(e)]) : Flow(e, k))'
  BY DEF Flows
<1>1. PICK k \in 0 .. Len(out[Other(e)]) : Flow(e, k)
  BY DEF IInv, Flows
<1>2. CASE Other(e) # d
  <2>1. got'[Other(e)] = got[Other(e)] /\ out'[Other(e)] = out[Other(e)]
    BY <1>0, <1>2
  <2> QED BY <1>1, <2>1 DEF Flow, Got, Behind, InBuffer, InSocket, Written, Taken
<1>3. CASE Other(e) = d
  <2>1. /\ out'[d] = Tail(out[d]) /\ Len(out'[d]) = Len(out[d]) - 1 /\ Len(out[d]) \in Nat \ {0}
        /\ \A j \in 1 .. Len(out'[d]) : out'[d][j] = out[d][j + 1]
        /\ Head(out[d]) = out[d][1]
    BY <1>0, HeadTailProperties
  <2>2. Got(e) /\ Behind(e, k) /\ Written(e, k) <= sent[e]
    BY <1>1 DEF Flow
  <2>5. \A j \in 1 .. Len(out[d]) : ~(j <= k) => out[d][j] = Unit(Len(got[d]) + j - k)
    BY <1>3, <2>2 DEF Behind
  <2>3. CASE Head(out[d]).cd = 0
    <3>1. k = 0
      BY <1>3, <2>1, <2>2, <2>3 DEF Behind, IsReply
    <3>2. out[d][1] = Unit(Len(got[d]) + 1 - k)
      BY <2>1, <2>5, <3>1
    <3>3. Head(out[d]).of = Len(got[d]) + 1
      BY <1>0, <2>1, <3>1, <3>2 DEF Unit
    <3>4. got'[d] = Append(got[d], Len(got[d]) + 1)
      BY <1>0, <2>3, <3>3
    <3>5. /\ Len(got'[d]) = Len(got[d]) + 1 /\ got'[d][Len(got[d]) + 1] = Len(got[d]) + 1
          /\ \A i \in 1 .. Len(got[d]) : got'[d][i] = got[d][i]
          /\ Len(got[d]) \in Nat
      BY <1>0, <3>4, AppendProperties
    <3>6. Written(e, 0)' = Written(e, k)
      BY <1>0, <1>3, <2>1, <3>1, <3>5 DEF Written
    <3>7. Taken(e, 0)' = Taken(e, k)
      BY <3>6 DEF Taken
    <3>8. Got(e)'
      <4>1. \A i \in 1 .. Len(got[d]) : got[d][i] = i
        BY <1>3, <2>2 DEF Got
      <4>2. \A l \in Nat : \A i \in 1 .. l + 1 : i \in 1 .. l \/ i = l + 1
        BY ONLY TRUE
      <4>3. \A i \in 1 .. Len(got'[d]) : got'[d][i] = i
        BY ONLY <3>5, <4>1, <4>2
      <4> QED BY <1>3, <4>3 DEF Got
    <3>9. Behind(e, 0)'
      <4>1. ASSUME NEW j \in 1 .. Len(out'[d])
            PROVE  ~(j <= 0) /\ out'[d][j] = Unit(Len(got'[d]) + j - 0)
        <5>1. j \in Nat /\ j + 1 \in 1 .. Len(out[d]) /\ ~(j + 1 <= k) /\ ~(j <= 0)
          BY <2>1, <3>1
        <5>2. out[d][j + 1] = Unit(Len(got[d]) + (j + 1) - k)
          BY ONLY <2>5, <3>1, <5>1
        <5>3. Len(got[d]) + (j + 1) - k = Len(got'[d]) + j - 0
          <6>1. Len(got'[d]) = Len(got[d]) + 1 /\ Len(got[d]) \in Nat
            BY <3>5
          <6>2. j \in Nat
            BY <5>1
          <6>3. \A g, i \in Nat : g + (i + 1) - 0 = (g + 1) + i - 0
            BY ONLY TRUE
          <6>4. Len(got[d]) + (j + 1) - 0 = (Len(got[d]) + 1) + j - 0
            BY <6>1, <6>2, <6>3
          <6> QED BY ONLY <3>1, <6>1, <6>4
        <5> QED BY <2>1, <5>1, <5>2, <5>3
      <4> QED BY <1>3, <4>1 DEF Behind
    <3>10. Flow(e, 0)'
      BY <1>1, <3>6, <3>7, <3>8, <3>9 DEF Flow, InBuffer, InSocket
    <3> QED BY <1>3, <2>1, <3>10
  <2>4. CASE Head(out[d]).cd # 0
    <3>1. k >= 1
      BY <1>0, <1>3, <2>1, <2>2, <2>4 DEF Behind, Unit
    <3>2. got' = got
      BY <2>4
    <3>3. Written(e, k - 1)' = Written(e, k)
      BY <1>0, <1>3, <2>1, <3>2 DEF Written
    <3>4. Taken(e, k - 1)' = Taken(e, k)
      BY <3>3 DEF Taken
    <3>5. Got(e)'
      BY <2>2, <3>2 DEF Got
    <3>6. Behind(e, k - 1)'
      BY <1>0, <1>3, <2>1, <2>2, <3>1, <3>2 DEF Behind
    <3>7. Flow(e, k - 1)'
      BY <1>1, <3>1, <3>3, <3>4, <3>5, <3>6 DEF Flow, InBuffer, InSocket
    <3> QED BY <1>3, <2>1, <3>1, <3>7
  <2> QED BY <2>3, <2>4
<1> QED BY <1>2, <1>3

LEMMA ReceiveInv == ASSUME IInv, NEW d \in Side, Receive(d) PROVE IInv'
<1> USE DEF Receive, file, session, relay
<1>0. /\ out \in [Side -> Seq(Item)] /\ got \in [Side -> Seq(Nat)] /\ out[d] # <<>>
      /\ heard \in Seq(Answer)
  BY DEF IInv, TypeOK
<1>a. /\ out'[d] = Tail(out[d]) /\ Len(out'[d]) = Len(out[d]) - 1 /\ Len(out[d]) \in Nat \ {0}
      /\ \A j \in 1 .. Len(out'[d]) : out'[d][j] = out[d][j + 1]
      /\ Head(out[d]) = out[d][1] /\ Head(out[d]) \in Item /\ out'[d] \in Seq(Item)
  BY <1>0, HeadTailProperties
<1>b. \A e \in Side \ {d} : out'[e] = out[e] /\ got'[e] = got[e]
  BY <1>0
<1>f. /\ \A e \in Side : DOMAIN out[e] = 1 .. Len(out[e]) /\ DOMAIN out'[e] = 1 .. Len(out'[e])
      /\ Expected' = Expected
  BY <1>0, <1>a, <1>b DEF Expected
<1>c. d = "server" => Head(out[d]).cd = 0
  <2> SUFFICES ASSUME d = "server" PROVE Head(out[d]).cd = 0
    OBVIOUS
  <2>1. PICK k \in 0 .. Len(out["server"]) : Flow("client", k)
    BY DEF IInv, Flows, Other, Side
  <2>2. k = 0 /\ out["server"][1] = Unit(Len(got["server"]) + 1 - k)
    BY <1>a, <2>1 DEF Flow, Behind, Other
  <2> QED BY <1>a, <2>2 DEF Unit
<1>d. Head(out[d]).cd = 0 => Head(out[d]).of \in Nat
  BY <1>a DEF Item, Answer
<1>e. Head(out[d]).cd # 0 => Head(out[d]) \in Answer
  BY <1>a DEF Item
<1>1. TypeOK'
  <2>1. out' \in [Side -> Seq(Item)]
    BY <1>0, <1>a
  <2>2. CASE Head(out[d]).cd = 0
    <3>1. got' \in [Side -> Seq(Nat)] /\ heard' = heard
      <4>1. Append(got[d], Head(out[d]).of) \in Seq(Nat)
        BY <1>0, <1>d, <2>2, AppendProperties
      <4>2. heard' = heard /\ got' = [got EXCEPT ![d] = Append(@, Head(out[d]).of)]
        BY <2>2
      <4> QED BY ONLY <1>0, <4>1, <4>2
    <3> QED BY <1>0, <2>1, <3>1 DEF IInv, TypeOK
  <2>3. CASE Head(out[d]).cd # 0
    <3>1. got' = got /\ heard' \in Seq(Answer)
      <4>1. heard' = Append(heard, Head(out[d])) /\ got' = got
        BY <2>3
      <4> QED BY <1>0, <1>e, <2>3, <4>1, AppendProperties
    <3> QED BY <2>1, <3>1 DEF IInv, TypeOK
  <2> QED BY <2>2, <2>3
<1>2. Phases'
  <2>1. ASSUME pc \notin {"relay", "exited"} PROVE d = "client" /\ Head(out[d]).cd # 0
    BY <1>a, <2>1 DEF IInv, Phases, IsReply, Side
  <2>2. pc \in Early => d # "client"
    BY <1>0 DEF IInv, Phases
  <2>3. ASSUME pc \notin {"relay", "exited"} PROVE \A j \in DOMAIN out'["client"] : IsReply(out'["client"][j])
    <3>1. \A j \in 1 .. Len(out["client"]) : IsReply(out["client"][j])
      BY <2>1, <2>3, <1>0 DEF IInv, Phases
    <3> QED BY <1>a, <2>1, <2>3, <3>1
  <2> QED BY <1>b, <2>1, <2>2, <2>3 DEF IInv, Phases, Early, Side
<1>3. Sockets'
  BY <1>a, <1>b DEF IInv, Sockets
<1>4. Flows'
  BY ReceiveFlows
<1>5. Protocol'
  <2>1. CASE d = "server"
    <3>1. out'["client"] = out["client"] /\ got'["client"] = got["client"] /\ heard' = heard
      BY <1>b, <1>c, <2>1 DEF Side
    <3> QED BY <3>1 DEF IInv, Protocol, Expected
  <2>2. CASE d = "client"
    <3>1. PICK k \in 0 .. Len(out["client"]) :
            /\ \A j \in DOMAIN out["client"] : IsReply(out["client"][j]) <=> j <= k
            /\ k > 0 => got["client"] = <<>>
            /\ pc # "exited" /\ peer["client"] # "gone" =>
                 heard \o SubSeq(out["client"], 1, k) \in Expected
      BY DEF IInv, Protocol
    <3>2. /\ out'["client"] = Tail(out["client"]) /\ Len(out'["client"]) = Len(out["client"]) - 1
          /\ Len(out["client"]) \in Nat \ {0} /\ 1 \in DOMAIN out["client"]
          /\ \A j \in DOMAIN out'["client"] :
               j \in Nat \ {0} /\ j + 1 \in DOMAIN out["client"] /\ out'["client"][j] = out["client"][j + 1]
      BY <1>a, <1>f, <2>2
    <3>5. IsReply(out["client"][1]) <=> Head(out[d]).cd # 0
      BY <1>a, <2>2 DEF IsReply
    <3>3. CASE k = 0
      <4>1. Head(out[d]).cd = 0
        BY <3>1, <3>2, <3>3, <3>5
      <4>2. \A j \in DOMAIN out'["client"] : IsReply(out'["client"][j]) <=> j <= 0
        BY <3>1, <3>2, <3>3
      <4>3. SubSeq(out["client"], 1, k) = SubSeq(out'["client"], 1, 0)
        BY <3>3, SubSeqEmpty
      <4>4. heard' = heard /\ 0 \in 0 .. Len(out'["client"])
        BY <4>1, <3>2
      <4>5. pc' # "exited" /\ peer'["client"] # "gone" =>
              heard' \o SubSeq(out'["client"], 1, 0) \in Expected'
        <5>1. Expected' = Expected /\ pc' = pc /\ peer' = peer
          BY <1>f
        <5> QED BY ONLY <3>1, <4>3, <4>4, <5>1
      <4> QED BY <4>2, <4>4, <4>5 DEF Protocol
    <3>4. CASE k # 0
      <4>1. Head(out[d]).cd # 0
        BY <3>1, <3>2, <3>4, <3>5
      <4>2. \A j \in DOMAIN out'["client"] : IsReply(out'["client"][j]) <=> j <= k - 1
        BY <3>1, <3>2, <3>4
      <4>3. heard' \o SubSeq(out'["client"], 1, k - 1) = heard \o SubSeq(out["client"], 1, k)
        <5>1. heard \in Seq(Item)
          <6>1. Answer \subseteq Item
            BY DEF Item
          <6> QED BY <1>0, <6>1, SeqMonotonic
        <5>2. heard' = Append(heard, Head(out["client"])) /\ out'["client"] = Tail(out["client"])
          BY <1>a, <2>2, <4>1
        <5>3. out["client"] \in Seq(Item) /\ out["client"] # <<>> /\ k \in 1 .. Len(out["client"])
          BY <1>0, <1>a, <2>2, <3>4
        <5>4. Append(heard, Head(out["client"])) \o SubSeq(Tail(out["client"]), 1, k - 1)
                = heard \o SubSeq(out["client"], 1, k)
          BY ONLY <5>1, <5>3, SaidShift
        <5> QED BY <5>2, <5>4
      <4>4. got' = got /\ k - 1 \in 0 .. Len(out'["client"])
        BY <3>2, <3>4, <4>1
      <4>5. pc' # "exited" /\ peer'["client"] # "gone" =>
              heard' \o SubSeq(out'["client"], 1, k - 1) \in Expected'
        <5>1. Expected' = Expected /\ pc' = pc /\ peer' = peer
          BY <1>f
        <5> QED BY ONLY <3>1, <4>3, <5>1
      <4>6. got'["client"] = <<>>
        BY <3>1, <3>4, <4>4
      <4> QED BY <4>2, <4>4, <4>5, <4>6 DEF Protocol
    <3> QED BY <3>3, <3>4
  <2> QED BY <2>1, <2>2 DEF Side
<1>6. Truthful' /\ Told'
  <2>0. \A r, i : True(r, i)' <=> True(r, i)
    BY DEF True, Closed
  <2>1. CASE d = "server"
    <3>1. out'["client"] = out["client"] /\ heard' = heard
      BY <1>b, <1>c, <2>1 DEF Side
    <3> QED BY <2>0, <3>1 DEF IInv, Truthful, Told
  <2>2. CASE d = "client" /\ Head(out[d]).cd = 0
    <3>1. heard' = heard
      BY <2>2
    <3>2. ASSUME NEW j \in DOMAIN out'["client"] PROVE ~IsReply(out'["client"][j])
      <4>1. PICK k \in 0 .. Len(out["client"]) :
              \A i \in DOMAIN out["client"] : IsReply(out["client"][i]) <=> i <= k
        BY DEF IInv, Protocol
      <4>2. k = 0
        BY <1>a, <1>f, <2>2, <4>1 DEF IsReply
      <4>3. out'["client"][j] = out["client"][j + 1] /\ j + 1 \in DOMAIN out["client"] /\ ~(j + 1 <= 0)
        BY <1>a, <1>f, <2>2
      <4> QED BY <4>1, <4>2, <4>3
    <3> QED BY <2>0, <3>1, <3>2 DEF IInv, Truthful, Told
  <2>3. CASE d = "client" /\ Head(out[d]).cd # 0
    <3>0. heard' = Append(heard, out["client"][1]) /\ out["client"][1] \in Answer
      BY <1>a, <1>e, <2>3
    <3>1. /\ Len(heard') = Len(heard) + 1 /\ Len(heard) \in Nat
          /\ \A i \in 1 .. Len(heard) : heard'[i] = heard[i]
          /\ heard'[Len(heard) + 1] = out["client"][1] /\ heard' \in Seq(Answer)
      BY <1>0, <3>0, AppendProperties
    <3>2. True(out["client"][1], Len(heard) + 1)
      BY <1>a, <1>f, <2>3 DEF IInv, Told, IsReply
    <3>3. Truthful'
      <4> SUFFICES ASSUME NEW i \in 1 .. Len(heard') PROVE True(heard'[i], i)
        BY <2>0, <3>1 DEF Truthful
      <4>1. CASE i <= Len(heard)
        BY <1>0, <3>1, <4>1 DEF IInv, Truthful
      <4>2. CASE i = Len(heard) + 1
        BY <3>1, <3>2, <4>2
      <4> QED BY <3>1, <4>1, <4>2
    <3>4. ASSUME NEW j \in DOMAIN out'["client"], IsReply(out'["client"][j])
          PROVE  True(out'["client"][j], Len(heard') + j)
      <4>1. out'["client"][j] = out["client"][j + 1] /\ j + 1 \in DOMAIN out["client"] /\ j \in Nat
        BY <1>a, <1>f, <2>3
      <4>2. Len(heard') + j = Len(heard) + (j + 1)
        BY <3>1, <4>1
      <4> QED BY <3>4, <4>1, <4>2 DEF IInv, Told
    <3> QED BY <2>0, <3>3, <3>4 DEF Told
  <2> QED BY <2>1, <2>2, <2>3 DEF Side
<1>7. EndsByReset'
  BY DEF IInv, EndsByReset
<1> QED BY <1>1, <1>2, <1>3, <1>4, <1>5, <1>6, <1>7 DEF IInv

-----------------------------------------------------------------------------
(* The process ends: what was written is cut short at most.                *)

LEMMA Cut ==
  ASSUME NEW S, NEW s \in Seq(S), NEW m \in 0 .. Len(s)
  PROVE  /\ SubSeq(s, 1, m) \in Seq(S) /\ Len(SubSeq(s, 1, m)) = m
         /\ \A j \in 1 .. m : SubSeq(s, 1, m)[j] = s[j]
<1>1. \A i \in 1 .. m : s[i] \in S
  OBVIOUS
<1>2. /\ SubSeq(s, 1, m) \in Seq(S) /\ Len(SubSeq(s, 1, m)) = IF 1 <= m THEN m - 1 + 1 ELSE 0
      /\ \A i \in 1 .. m - 1 + 1 : SubSeq(s, 1, m)[i] = s[1 + i - 1]
  BY <1>1, SubSeqProperties
<1> QED BY <1>2

LEMMA QuitOut ==
  ASSUME IInv, Quit
  PROVE  /\ out' \in [Side -> Seq(Item)]
         /\ \A d \in Side : /\ Len(out'[d]) <= Len(out[d])
                            /\ \A j \in 1 .. Len(out'[d]) : out'[d][j] = out[d][j]
<1>0. out \in [Side -> Seq(Item)]
  BY DEF IInv, TypeOK
<1>1. ASSUME NEW d \in Side, NEW s \in Kept(d)
      PROVE  /\ s \in Seq(Item) /\ Len(s) <= Len(out[d])
             /\ \A j \in 1 .. Len(s) : s[j] = out[d][j]
  <2>1. CASE in[d] = <<>>
    BY <1>0, <1>1, <2>1 DEF Kept
  <2>2. CASE in[d] # <<>>
    <3>1. PICK m \in 0 .. Len(out[d]) : s = SubSeq(out[d], 1, m)
      BY <1>1, <2>2 DEF Kept
    <3>2. out[d] \in Seq(Item)
      BY <1>0
    <3> QED BY <3>1, <3>2, Cut
  <2> QED BY <2>1, <2>2
<1>2. PICK c \in Kept("client"), s \in Kept("server") :
        out' = [d \in Side |-> IF d = "client" THEN c ELSE s]
  BY DEF Quit
<1>3. \A d \in Side : out'[d] \in Kept(d)
  BY <1>2 DEF Side
<1>4. out' = [d \in Side |-> out'[d]]
  BY <1>2
<1> QED BY <1>1, <1>3, <1>4

LEMMA QuitInv ==
  ASSUME IInv, Quit, UNCHANGED session, CD # 0, DSTIP = Port \/ \E d \in Side : rst[d]
  PROVE  IInv'
<1> USE DEF Quit, file, session, relay, ends
<1>0. /\ out \in [Side -> Seq(Item)] /\ out' \in [Side -> Seq(Item)]
      /\ \A d \in Side : /\ Len(out'[d]) <= Len(out[d])
                         /\ \A j \in 1 .. Len(out'[d]) : out'[d][j] = out[d][j]
  BY QuitOut DEF IInv, TypeOK
<1>a. /\ DOMAIN out["client"] = 1 .. Len(out["client"]) /\ DOMAIN out'["client"] = 1 .. Len(out'["client"])
      /\ Len(out["client"]) \in Nat /\ Len(out'["client"]) \in Nat /\ Len(out'["client"]) <= Len(out["client"])
      /\ \A j \in DOMAIN out'["client"] :
           j \in Nat /\ j <= Len(out'["client"]) /\ j \in DOMAIN out["client"] /\ out'["client"][j] = out["client"][j]
  BY <1>0 DEF Side
<1>1. TypeOK'
  BY <1>0 DEF IInv, TypeOK
<1>2. Phases' /\ EndsByReset'
  BY DEF IInv, Phases, Early, EndsByReset
<1>3. Sockets'
  <2>1. \A d \in Side : peer[d] = "gone" => out'[d] = <<>>
    <3> SUFFICES ASSUME NEW d \in Side, peer[d] = "gone" PROVE out'[d] = <<>>
      OBVIOUS
    <3>1. out[d] = <<>> /\ Len(out'[d]) <= Len(out[d]) /\ out'[d] \in Seq(Item)
      BY <1>0 DEF IInv, Sockets
    <3> QED BY <3>1
  <2> QED BY <2>1 DEF IInv, Sockets
<1>4. Flows'
  <2> SUFFICES ASSUME NEW e \in Side PROVE (\E k \in 0 .. Len(out[Other(e)]) : Flow(e, k))'
    BY DEF Flows
  <2>0. Other(e) \in Side /\ got \in [Side -> Seq(Nat)] /\ sent \in [Side -> Nat]
    BY DEF Other, Side, IInv, TypeOK
  <2>1. PICK k \in 0 .. Len(out[Other(e)]) : Flow(e, k)
    BY DEF IInv, Flows
  <2>2. Got(e) /\ Behind(e, k) /\ Written(e, k) <= sent[e] /\ (e = "client" => k = 0)
    BY <2>1 DEF Flow
  <2>3. /\ Len(out'[Other(e)]) \in Nat /\ Len(out[Other(e)]) \in Nat /\ Len(out'[Other(e)]) <= Len(out[Other(e)])
        /\ \A j \in 1 .. Len(out'[Other(e)]) : out'[Other(e)][j] = out[Other(e)][j]
    BY <1>0, <2>0
  <2>7. \A j \in 1 .. Len(out'[Other(e)]) :
          /\ j \in Nat /\ j <= Len(out'[Other(e)]) /\ j \in 1 .. Len(out[Other(e)])
          /\ out'[Other(e)][j] = out[Other(e)][j]
    <3>1. \A n, m \in Nat : m <= n => \A j \in 1 .. m : j \in Nat /\ j <= m /\ j \in 1 .. n
      BY ONLY TRUE
    <3>2. \A j \in 1 .. Len(out'[Other(e)]) :
            j \in Nat /\ j <= Len(out'[Other(e)]) /\ j \in 1 .. Len(out[Other(e)])
      BY ONLY <2>3, <3>1
    <3> QED BY ONLY <2>3, <3>2
  <2>4. Got(e)'
    BY <2>2 DEF Got
  <2>5. CASE k <= Len(out'[Other(e)])
    <3>1. Written(e, k)' <= sent[e]
      BY <2>0, <2>2, <2>3, <2>5 DEF Written
    <3>2. Behind(e, k)'
      BY <2>2, <2>7 DEF Behind
    <3>3. Flow(e, k)'
      BY <2>2, <2>4, <3>1, <3>2 DEF Flow
    <3>4. k \in 0 .. Len(out'[Other(e)])
      BY <2>3, <2>5
    <3> QED BY <3>3, <3>4
  <2>6. CASE ~(k <= Len(out'[Other(e)]))
    <3> DEFINE m == Len(out'[Other(e)])
    <3>0. m \in Nat /\ k \in Nat /\ m < k /\ k <= Len(out[Other(e)])
      BY <2>3, <2>6
    <3>1. Len(got'[Other(e)]) + Len(out'[Other(e)]) - m <= sent[e]
      <4>1. Len(got[Other(e)]) + Len(out[Other(e)]) - k <= sent[e]
        BY <2>2 DEF Written
      <4>2. Len(got[Other(e)]) \in Nat /\ sent[e] \in Nat
        BY <2>0
      <4>3. \A g, o, s, i, n \in Nat : n <= o /\ g + o - n <= s => g + i - i <= s
        BY ONLY TRUE
      <4>4. Len(got[Other(e)]) + m - m <= sent[e] /\ got' = got
        BY <2>3, <3>0, <4>1, <4>2, <4>3
      <4> QED BY ONLY <4>4
    <3>2. \A j \in 1 .. m : j <= m /\ IsReply(out'[Other(e)][j])
      <4> SUFFICES ASSUME NEW j \in 1 .. m PROVE j <= m /\ IsReply(out'[Other(e)][j])
        OBVIOUS
      <4>1. j <= k /\ j <= m
        BY <3>0
      <4> QED BY <2>2, <2>7, <4>1 DEF Behind
    <3>3. e # "client"
      BY <2>2, <3>0
    <3>4. \E i \in 0 .. m : i = m
      BY <3>0
    <3>5. PICK i \in 0 .. m : i = m
      BY <3>4
    <3>6. Behind(e, i)' /\ Written(e, i)' <= sent[e]
      BY <3>1, <3>2, <3>5 DEF Behind, Written
    <3>7. Flow(e, i)'
      BY <2>4, <3>3, <3>6 DEF Flow
    <3> QED BY <3>7
  <2> QED BY <2>5, <2>6
<1>5. Protocol'
  <2>1. PICK k \in 0 .. Len(out["client"]) :
          /\ \A j \in DOMAIN out["client"] : IsReply(out["client"][j]) <=> j <= k
          /\ k > 0 => got["client"] = <<>>
    BY DEF IInv, Protocol
  <2>3. CASE k <= Len(out'["client"])
    <3>1. k \in 0 .. Len(out'["client"])
      BY <1>a, <2>3
    <3>2. \A j \in DOMAIN out'["client"] : IsReply(out'["client"][j]) <=> j <= k
      BY <2>1, <1>a
    <3> QED BY <2>1, <3>1, <3>2 DEF Protocol
  <2>4. CASE ~(k <= Len(out'["client"]))
    <3>1. \A j \in DOMAIN out'["client"] : IsReply(out'["client"][j]) <=> j <= Len(out'["client"])
      <4> SUFFICES ASSUME NEW j \in DOMAIN out'["client"]
                   PROVE  IsReply(out'["client"][j]) /\ j <= Len(out'["client"])
        OBVIOUS
      <4>1. j \in Nat /\ j <= Len(out'["client"]) /\ j \in DOMAIN out["client"] /\ out'["client"][j] = out["client"][j]
        BY <1>a
      <4>2. j <= k
        BY <1>a, <2>4, <4>1
      <4> QED BY <2>1, <4>1, <4>2
    <3>2. got'["client"] = <<>> /\ Len(out'["client"]) \in 0 .. Len(out'["client"])
      BY <2>1, <1>a, <2>4
    <3> QED BY <3>1, <3>2 DEF Protocol
  <2> QED BY <2>3, <2>4
<1>6. Truthful' /\ Told'
  <2>1. ASSUME NEW r, NEW i, True(r, i) PROVE True(r, i)'
    BY <2>1 DEF True, Closed
  <2>3. Truthful'
    BY <2>1 DEF IInv, Truthful
  <2>4. Told'
    <3> SUFFICES ASSUME NEW j \in DOMAIN out'["client"], IsReply(out'["client"][j])
                 PROVE  (True(out["client"][j], Len(heard) + j))'
      BY DEF Told
    <3>1. j \in DOMAIN out["client"] /\ out'["client"][j] = out["client"][j]
      BY <1>a
    <3>2. True(out["client"][j], Len(heard) + j)
      BY <3>1 DEF IInv, Told
    <3> QED BY <3>1, <3>2 DEF True, Closed
  <2> QED BY <2>3, <2>4
<1> QED BY <1>1, <1>2, <1>3, <1>4, <1>5, <1>6 DEF IInv

-----------------------------------------------------------------------------
(* The session answers: a reply behind what is under way.                  *)

LEMMA ReplyOut ==
  ASSUME IInv, pc \notin {"relay", "exited"},
         NEW c \in {90, 91}, NEW of \in V4 \cup {Port}, do_reply(c, of)
  PROVE  /\ out' \in [Side -> Seq(Item)] /\ rst' \in [Side -> BOOLEAN]
         /\ out'["server"] = out["server"] /\ rst'["server"] = rst["server"]
         /\ Reply(c, of) \in Answer /\ IsReply(Reply(c, of))
         /\ peer["client"] = "gone" => rst'["client"] /\ out'["client"] = out["client"]
         /\ peer["client"] # "gone" =>
              /\ rst' = rst /\ out'["client"] = Append(out["client"], Reply(c, of))
              /\ Len(out'["client"]) = Len(out["client"]) + 1
              /\ \A j \in 1 .. Len(out["client"]) : out'["client"][j] = out["client"][j]
              /\ out'["client"][Len(out["client"]) + 1] = Reply(c, of)
         /\ \A j \in 1 .. Len(out'["client"]) : IsReply(out'["client"][j])
<1>1. /\ out \in [Side -> Seq(Item)] /\ rst \in [Side -> BOOLEAN]
      /\ "client" \in Side /\ "server" \in Side
  BY DEF IInv, TypeOK, Side
<1>2. Reply(c, of) \in Answer /\ Reply(c, of) \in Item /\ IsReply(Reply(c, of))
  BY DEF Reply, Answer, Item, IsReply
<1>3. \A j \in 1 .. Len(out["client"]) : IsReply(out["client"][j])
  BY <1>1 DEF IInv, Phases
<1>4. CASE peer["client"] = "gone"
  <2>1. rst' = [rst EXCEPT !["client"] = TRUE] /\ out' = out
    BY <1>4 DEF do_reply
  <2>2. rst' \in [Side -> BOOLEAN] /\ rst'["client"] /\ rst'["server"] = rst["server"]
    BY <1>1, <2>1
  <2> QED BY <1>1, <1>2, <1>3, <1>4, <2>1, <2>2
<1>5. CASE peer["client"] # "gone"
  <2>1. /\ rst' = rst /\ out' = [out EXCEPT !["client"] = Append(out["client"], Reply(c, of))]
    BY <1>5 DEF do_reply
  <2>2. out["client"] \in Seq(Item) /\ Len(out["client"]) \in Nat
    BY <1>1
  <2>3. /\ Append(out["client"], Reply(c, of)) \in Seq(Item)
        /\ Len(Append(out["client"], Reply(c, of))) = Len(out["client"]) + 1
        /\ \A j \in 1 .. Len(out["client"]) : Append(out["client"], Reply(c, of))[j] = out["client"][j]
        /\ Append(out["client"], Reply(c, of))[Len(out["client"]) + 1] = Reply(c, of)
    BY <1>2, <2>2, AppendProperties
  <2>4. /\ out'["client"] = Append(out["client"], Reply(c, of)) /\ out'["server"] = out["server"]
        /\ out' \in [Side -> Seq(Item)]
    BY <1>1, <2>1, <2>3
  <2>5. \A j \in 1 .. Len(out'["client"]) : IsReply(out'["client"][j])
    BY <1>2, <1>3, <2>2, <2>3, <2>4
  <2> QED BY <1>1, <1>2, <1>5, <2>1, <2>3, <2>4, <2>5
<1> QED BY <1>4, <1>5

LEMMA ReplyFlows ==
  ASSUME IInv, pc \notin {"relay", "exited"},
         NEW c \in {90, 91}, NEW of \in V4 \cup {Port}, do_reply(c, of),
         UNCHANGED <<in, buffer, sent, got, peer>>
  PROVE  Flows'
<1>0. /\ out \in [Side -> Seq(Item)] /\ out' \in [Side -> Seq(Item)]
      /\ out'["server"] = out["server"] /\ "client" \in Side /\ "server" \in Side
      /\ \A j \in 1 .. Len(out'["client"]) : IsReply(out'["client"][j])
      /\ sent \in [Side -> Nat]
  BY ReplyOut DEF Side, IInv, TypeOK
<1>1. (\E k \in 0 .. Len(out["server"]) : Flow("client", k))'
  <2>1. PICK k \in 0 .. Len(out["server"]) : Flow("client", k)
    BY <1>0 DEF IInv, Flows, Other
  <2>2. Flow("client", k)'
    BY <1>0, <2>1 DEF Flow, Other, Got, Behind, InBuffer, InSocket, Written, Taken
  <2> QED BY <1>0, <2>1, <2>2
<1>2. (\E k \in 0 .. Len(out["client"]) : Flow("server", k))'
  <2>1. PICK k \in 0 .. Len(out["client"]) : Flow("server", k)
    BY <1>0 DEF IInv, Flows, Other
  <2>2. \A j \in 1 .. Len(out["client"]) : IsReply(out["client"][j])
    BY <1>0 DEF IInv, Phases
  <2>3. got["client"] = <<>> /\ buffer["server"] = <<>>
    BY <1>0 DEF IInv, Phases
  <2>4. Len(out["client"]) \in Nat /\ Len(out'["client"]) \in Nat /\ k \in 0 .. Len(out["client"])
    BY <1>0
  <2>5. k = Len(out["client"])
    <3>1. SUFFICES ASSUME k < Len(out["client"]) PROVE FALSE
      BY <2>4
    <3>2. k + 1 \in 1 .. Len(out["client"]) /\ ~(k + 1 <= k)
      BY <2>4, <3>1
    <3>3. out["client"][k + 1] = Unit(Len(got["client"]) + (k + 1) - k)
      BY <2>1, <3>2 DEF Flow, Behind, Other
    <3> QED BY <2>2, <3>2, <3>3 DEF Unit, IsReply
  <2>6. Written("server", k) = 0 /\ Taken("server", k) = 0
    BY <2>3, <2>4, <2>5 DEF Written, Taken, Other
  <2>7. PICK i \in 0 .. Len(out'["client"]) : i = Len(out'["client"])
    BY <2>4
  <2>8. Written("server", i)' = 0 /\ Taken("server", i)' = 0
    <3>1. Len(got'["client"]) = 0 /\ Len(buffer'["server"]) = 0
      BY <2>3
    <3> QED BY <2>4, <2>7, <3>1 DEF Written, Taken, Other
  <2>9. Got("server")' /\ Behind("server", i)' /\ InBuffer("server", i)'
    <3>1. Len(got'["client"]) = 0 /\ Len(buffer'["server"]) = 0
      BY <2>3
    <3> QED BY <1>0, <2>7, <3>1 DEF Got, Behind, InBuffer, Other
  <2>10. peer["client"] # "gone" =>
           InSocket("server", i)' /\ sent'["server"] = Taken("server", i)' + Len(in'["server"])
    <3>1. pc # "exited" /\ Other("server") = "client"
      BY DEF Other
    <3> QED BY <2>1, <2>6, <2>8, <3>1 DEF Flow, InSocket
  <2>11. Written("server", i)' <= sent'["server"]
    BY <1>0, <2>8
  <2>12. Flow("server", i)'
    BY <2>8, <2>9, <2>10, <2>11 DEF Flow, Other
  <2> QED BY <2>7, <2>12
<1> QED BY <1>1, <1>2 DEF Flows, Side, Other

LEMMA ConcatAppend ==
  ASSUME NEW S, NEW h \in Seq(S), NEW t \in Seq(S), NEW r \in S
  PROVE  h \o Append(t, r) = Append(h \o t, r)
<1>1. <<r>> \in Seq(S)
  OBVIOUS
<1>2. h \o t \in Seq(S)
  BY ConcatProperties
<1>3. Append(t, r) = t \o <<r>> /\ Append(h \o t, r) = (h \o t) \o <<r>>
  BY <1>2, AppendIsConcat
<1>4. (h \o t) \o <<r>> = h \o (t \o <<r>>)
  BY <1>1, ConcatAssociative
<1> QED BY ONLY <1>3, <1>4

LEMMA ReplyProtocol ==
  ASSUME IInv, pc \notin {"relay", "exited"},
         NEW c \in {90, 91}, NEW of \in V4 \cup {Port}, do_reply(c, of),
         UNCHANGED <<heard, got, peer>>,
         \A s \in Expected : Append(s, Reply(c, of)) \in Expected'
  PROVE  Protocol'
<1>0. /\ out["client"] \in Seq(Item) /\ out'["client"] \in Seq(Item) /\ heard \in Seq(Item)
      /\ Reply(c, of) \in Item
      /\ \A j \in 1 .. Len(out'["client"]) : IsReply(out'["client"][j])
  <2>1. Answer \subseteq Item /\ heard \in Seq(Answer) /\ out \in [Side -> Seq(Item)]
    BY DEF Item, IInv, TypeOK
  <2>2. heard \in Seq(Item)
    BY <2>1, SeqMonotonic
  <2> QED BY <2>1, <2>2, ReplyOut DEF Side
<1>1. \A j \in DOMAIN out["client"] : IsReply(out["client"][j])
  BY DEF IInv, Phases
<1>2. Len(out["client"]) \in Nat /\ DOMAIN out["client"] = 1 .. Len(out["client"])
  BY <1>0
<1>3. got["client"] = <<>>
  BY DEF IInv, Phases, Side
<1>4. peer["client"] # "gone" => heard \o out["client"] \in Expected
  <2>1. PICK k \in 0 .. Len(out["client"]) :
          /\ \A j \in DOMAIN out["client"] : IsReply(out["client"][j]) <=> j <= k
          /\ pc # "exited" /\ peer["client"] # "gone" =>
               heard \o SubSeq(out["client"], 1, k) \in Expected
    BY DEF IInv, Protocol
  <2>2. k = Len(out["client"])
    <3>1. SUFFICES ASSUME k < Len(out["client"]) PROVE FALSE
      BY <1>2
    <3>2. k + 1 \in DOMAIN out["client"] /\ ~(k + 1 <= k)
      BY <1>2, <3>1
    <3> QED BY <1>1, <2>1, <3>2
  <2>3. SubSeq(out["client"], 1, k) = out["client"]
    BY <1>0, <2>2, SubSeqFull
  <2> QED BY <2>1, <2>3
<1>5. peer["client"] # "gone" => heard \o out'["client"] \in Expected'
  <2> SUFFICES ASSUME peer["client"] # "gone" PROVE heard \o out'["client"] \in Expected'
    OBVIOUS
  <2>1. out'["client"] = Append(out["client"], Reply(c, of))
    BY ReplyOut
  <2>2. heard \o Append(out["client"], Reply(c, of)) = Append(heard \o out["client"], Reply(c, of))
    BY ONLY <1>0, ConcatAppend
  <2>3. Append(heard \o out["client"], Reply(c, of)) \in Expected'
    BY <1>4
  <2> QED BY <2>1, <2>2, <2>3
<1>6. SubSeq(out'["client"], 1, Len(out'["client"])) = out'["client"]
  BY <1>0, SubSeqFull
<1>7. PICK k \in 0 .. Len(out'["client"]) : k = Len(out'["client"])
  BY <1>0
<1>8. \A j \in DOMAIN out'["client"] : IsReply(out'["client"][j]) <=> j <= k
  BY <1>0, <1>7
<1>9. peer'["client"] # "gone" => heard' \o SubSeq(out'["client"], 1, k) \in Expected'
  <2>1. heard' = heard /\ peer' = peer
    OBVIOUS
  <2> QED BY ONLY <1>5, <1>6, <1>7, <2>1
<1> QED BY <1>3, <1>7, <1>8, <1>9 DEF Protocol

LEMMA ReplyTrue ==
  ASSUME IInv, pc \notin {"relay", "exited"},
         NEW c \in {90, 91}, NEW of \in V4 \cup {Port}, do_reply(c, of), UNCHANGED <<heard, peer>>,
         NEW n, n = Len(heard) + Len(out["client"]) + 1, True(Reply(c, of), n)',
         pc \in Early \/ \A q \in Answer, i \in Nat : i < n /\ True(q, i) => True(q, i)'
  PROVE  Truthful' /\ Told'
<1>0. /\ out["client"] \in Seq(Item) /\ heard \in Seq(Answer) /\ Len(heard) \in Nat
      /\ Len(out["client"]) \in Nat /\ n \in Nat
      /\ DOMAIN out["client"] = 1 .. Len(out["client"]) /\ DOMAIN heard = 1 .. Len(heard)
      /\ \A j \in 1 .. Len(out["client"]) : out["client"][j] \in Item
      /\ \A j \in 1 .. Len(heard) : heard[j] \in Answer
  <2>1. out["client"] \in Seq(Item) /\ heard \in Seq(Answer)
    BY DEF IInv, TypeOK, Side
  <2> QED BY <2>1
<1>1. pc \in Early => heard = <<>> /\ out["client"] = <<>>
  BY DEF IInv, Phases
<1>2. pc \in Early \/ \A q \in Answer, i \in Nat : i < n /\ True(q, i) => True(q, i)'
  OBVIOUS
<1>3. Truthful'
  <2> SUFFICES ASSUME NEW i \in DOMAIN heard PROVE (True(heard[i], i))'
    BY DEF Truthful
  <2>1. heard[i] \in Answer /\ i \in Nat /\ i < n /\ ~(pc \in Early) /\ True(heard[i], i)
    BY <1>0, <1>1 DEF IInv, Truthful
  <2> QED BY <1>2, <2>1 DEF True, Closed
<1>4. \A j \in 1 .. Len(out["client"]) :
        /\ out["client"][j] \in Answer /\ Len(heard) + j \in Nat /\ Len(heard) + j < n
        /\ True(out["client"][j], Len(heard) + j) /\ ~(pc \in Early)
  <2> SUFFICES ASSUME NEW j \in 1 .. Len(out["client"])
               PROVE  /\ out["client"][j] \in Answer /\ Len(heard) + j \in Nat /\ Len(heard) + j < n
                      /\ True(out["client"][j], Len(heard) + j) /\ ~(pc \in Early)
    OBVIOUS
  <2>1. IsReply(out["client"][j])
    BY <1>0 DEF IInv, Phases
  <2>2. out["client"][j] \in Answer
    BY <1>0, <2>1 DEF Item, IsReply
  <2>3. True(out["client"][j], Len(heard) + j)
    BY <1>0, <2>1 DEF IInv, Told
  <2>4. Len(heard) + j \in Nat /\ Len(heard) + j < n
    BY <1>0
  <2> QED BY <1>1, <2>2, <2>3, <2>4
<1>6. CASE peer["client"] = "gone"
  <2>1. out'["client"] = out["client"] /\ heard' = heard
    BY <1>6, ReplyOut
  <2>2. Told'
    <3> SUFFICES ASSUME NEW j \in 1 .. Len(out["client"])
                 PROVE  (True(out["client"][j], Len(heard) + j))'
      BY <1>0, <2>1 DEF Told
    <3>1. PICK q \in Answer, i \in Nat : q = out["client"][j] /\ i = Len(heard) + j
      BY <1>4
    <3>2. True(q, i)'
      BY <1>2, <1>4, <3>1
    <3>3. q = out'["client"][j] /\ i = Len(heard') + j
      BY <2>1, <3>1
    <3> QED BY <3>2, <3>3 DEF True, Closed
  <2> QED BY <1>3, <2>2
<1>7. CASE peer["client"] # "gone"
  <2>1. /\ Len(out'["client"]) = Len(out["client"]) + 1
        /\ \A j \in 1 .. Len(out["client"]) : out'["client"][j] = out["client"][j]
        /\ out'["client"][Len(out["client"]) + 1] = Reply(c, of)
        /\ out' \in [Side -> Seq(Item)]
    BY <1>7, ReplyOut
  <2>2. heard' = heard /\ DOMAIN out'["client"] = 1 .. Len(out["client"]) + 1
    BY <2>1 DEF Side
  <2>3. Told'
    <3> SUFFICES ASSUME NEW j \in 1 .. Len(out["client"]) + 1
                 PROVE  (True(out["client"][j], Len(heard) + j))'
      BY <2>2 DEF Told
    <3>1. CASE j \in 1 .. Len(out["client"])
      <4>1. PICK q \in Answer, i \in Nat : q = out["client"][j] /\ i = Len(heard) + j
        BY <1>4, <3>1
      <4>2. True(q, i)'
        BY <1>2, <1>4, <3>1, <4>1
      <4>3. q = out'["client"][j] /\ i = Len(heard') + j
        BY <2>1, <2>2, <3>1, <4>1
      <4> QED BY <4>2, <4>3 DEF True, Closed
    <3>2. CASE j = Len(out["client"]) + 1
      <4>1. Len(heard) + j = n
        BY <1>0, <3>2
      <4> QED BY <2>1, <2>2, <3>2, <4>1 DEF True, Closed
    <3>3. j \in 1 .. Len(out["client"]) \/ j = Len(out["client"]) + 1
      BY <1>0
    <3> QED BY <3>1, <3>2, <3>3
  <2> QED BY <1>3, <2>3
<1> QED BY <1>6, <1>7

LEMMA Appended ==
  ASSUME NEW q, NEW r
  PROVE  Append(<<>>, r) = <<r>> /\ Append(<<q>>, r) = <<q, r>>
<1> DEFINE S == {q, r}
           a == Append(<<q>>, r)
           b == <<q, r>>
<1>1. <<q>> \in Seq(S) /\ Len(<<q>>) = 1 /\ <<q>>[1] = q
  OBVIOUS
<1>2. a \in Seq(S) /\ Len(a) = 1 + 1 /\ a[1] = q /\ a[1 + 1] = r
  BY <1>1, AppendProperties
<1>3. b \in Seq(S) /\ Len(b) = 2 /\ b[1] = q /\ b[2] = r
  OBVIOUS
<1> HIDE DEF a, b
<1>4. a = b
  <2>1. \A i \in 1 .. 2 : i = 1 \/ i = 2
    OBVIOUS
  <2>2. 1 + 1 = 2
    OBVIOUS
  <2> QED BY <1>2, <1>3, <2>1, <2>2, SeqEqual
<1> QED BY <1>4 DEF a, b

LEMMA ReplySockets ==
  ASSUME IInv, pc \notin {"relay", "exited"},
         NEW c \in {90, 91}, NEW of \in V4 \cup {Port}, do_reply(c, of), UNCHANGED <<peer, buffer>>
  PROVE  Sockets'
<1>1. \A d \in Side : buffer[d] = <<>>
  BY DEF IInv, Phases
<1>2. CASE peer["client"] = "gone"
  BY <1>1, <1>2, ReplyOut DEF IInv, Sockets, Side
<1>3. CASE peer["client"] # "gone"
  BY <1>1, <1>3, ReplyOut DEF IInv, Sockets, Side
<1> QED BY <1>2, <1>3

LEMMA RefusedInv ==
  ASSUME IInv, pc \in {"resolve", "connect", "accept"}, pc' = "left",
         NEW of \in V4 \cup {Port}, do_reply(91, of), UNCHANGED <<file, relay, peer, in, ends, CD, host>>,
         DSTIP' \in V4 \cup {Port}, checked' \in Rules \cup {{}},
         pc = "resolve" => of = DSTIP' /\ <<CD, DSTIP'>> \notin checked',
         pc # "resolve" => UNCHANGED <<DSTIP, checked>> /\ peer["server"] = "refused",
         pc = "connect" => of = DSTIP,
         pc = "accept" => of = Port
  PROVE  IInv'
<1> USE DEF file, relay, ends
<1>1. TypeOK'
  BY ReplyOut DEF IInv, TypeOK
<1>2. Phases'
  <2>1. DOMAIN out'["client"] = 1 .. Len(out'["client"])
    BY ReplyOut DEF Side
  <2> QED BY <2>1, ReplyOut DEF IInv, Phases, Early
<1>3. Sockets'
  BY ReplySockets
<1>4. Flows'
  BY ReplyFlows
<1>5. Protocol'
  <2>1. \A s \in Expected : Append(s, Reply(91, of)) \in Expected'
    <3>1. Expected' = {<<>>, <<Reply(91, DSTIP')>>, <<Reply(90, Port), Reply(91, Port)>>}
      BY DEF Expected
    <3>2. CASE pc = "accept"
      <4>1. Expected = {<<Reply(90, Port)>>}
        BY <3>2 DEF Expected
      <4>2. Append(<<Reply(90, Port)>>, Reply(91, of)) = <<Reply(90, Port), Reply(91, Port)>>
        BY <3>2, Appended
      <4> QED BY <3>1, <4>1, <4>2
    <3>3. CASE pc # "accept"
      <4>1. Expected = {<<>>} /\ of = DSTIP'
        BY <3>3 DEF Expected
      <4> QED BY <3>1, <4>1, Appended
    <3> QED BY <3>2, <3>3
  <2> QED BY <2>1, ReplyProtocol
<1>6. Truthful' /\ Told'
  <2>1. PICK n : n = Len(heard) + Len(out["client"]) + 1
    OBVIOUS
  <2>2. True(Reply(91, of), n)'
    BY DEF True, Reply, Closed
  <2>3. pc \in Early \/ \A q \in Answer, i \in Nat : i < n /\ True(q, i) => True(q, i)'
    BY DEF True, Closed, Early
  <2> QED BY <2>1, <2>2, <2>3, ReplyTrue
<1>7. EndsByReset'
  BY DEF EndsByReset
<1> QED BY <1>1, <1>2, <1>3, <1>4, <1>5, <1>6, <1>7 DEF IInv

LEMMA JoinedInv ==
  ASSUME IInv, pc \in {"connect", "accept"}, peer["server"] \notin {"none", "refused"},
         NEW of \in V4 \cup {Port}, Joined(of), UNCHANGED session,
         pc = "connect" => of = DSTIP,
         pc = "accept" => of = Port
  PROVE  IInv'
<1> USE DEF Joined, file, session, ends
<1>1. TypeOK'
  BY ReplyOut DEF IInv, TypeOK
<1>2. Phases'
  BY DEF IInv, Phases, Early
<1>3. Sockets'
  BY ReplySockets
<1>4. Flows'
  BY ReplyFlows
<1>5. Protocol'
  <2>1. \A s \in Expected : Append(s, Reply(90, of)) \in Expected'
    <3>1. CASE pc = "accept"
      <4>1. Expected = {<<Reply(90, Port)>>} /\ Expected' = {<<Reply(90, Port), Reply(90, Port)>>}
        BY <3>1 DEF Expected, IInv, Phases
      <4> QED BY <3>1, <4>1, Appended
    <3>2. CASE pc = "connect"
      <4>1. Expected = {<<>>} /\ Expected' = {<<Reply(90, DSTIP)>>}
        BY <3>2 DEF Expected, IInv, Phases
      <4> QED BY <3>2, <4>1, Appended
    <3> QED BY <3>1, <3>2
  <2> QED BY <2>1, ReplyProtocol
<1>6. Truthful' /\ Told'
  <2>1. PICK n : n = Len(heard) + Len(out["client"]) + 1
    OBVIOUS
  <2>2. True(Reply(90, of), n)'
    BY DEF IInv, Phases, True, Reply
  <2>3. \A q \in Answer, i \in Nat : i < n /\ True(q, i) => True(q, i)'
    BY DEF True, Closed
  <2> QED BY <2>1, <2>2, <2>3, ReplyTrue
<1>7. EndsByReset'
  BY DEF EndsByReset
<1> QED BY <1>1, <1>2, <1>3, <1>4, <1>5, <1>6, <1>7 DEF IInv

LEMMA MetInv ==
  ASSUME IInv, pc \in {"connect", "accept"}, NEW of \in V4 \cup {Port}, Met(of),
         pc = "connect" => of = DSTIP,
         pc = "accept" => of = Port
  PROVE  IInv'
<1>1. UNCHANGED session /\ CD # 0 /\ DSTIP \in V4 \cup {Port} /\ checked \in Rules \cup {{}}
  BY DEF Met, IInv, Phases, TypeOK
<1>2. CASE peer["server"] = "refused" /\ ~rst["client"]
  BY <1>1, <1>2, RefusedInv DEF Met, Refuse, session
<1>3. CASE Quit /\ rst["client"]
  BY <1>1, <1>3, QuitInv DEF Side
<1>4. CASE peer["server"] \notin {"none", "refused"} /\ Joined(of)
  BY <1>1, <1>4, JoinedInv
<1> QED BY <1>2, <1>3, <1>4 DEF Met, Refuse

-----------------------------------------------------------------------------
(* Resolving: the address chosen is the first that is IPv4.                *)

LEMMA Least ==
  ASSUME NEW T \in SUBSET Nat, T # {}
  PROVE  \E i \in T : \A j \in T : i <= j
<1> DEFINE R == OpToRel(<, Nat)
<1>1. PICK x \in T : \A y \in T : ~(<<y, x>> \in R)
  <2>1. IsWellFoundedOn(R, Nat)
    BY NatLessThanWellFounded
  <2> HIDE DEF R
  <2> QED BY <2>1, WFMin
<1>2. ASSUME NEW a \in Nat, NEW b \in Nat, a < b PROVE <<a, b>> \in R
  <2>1. <<a, b>> \in {ss \in Nat \X Nat : ss[1] < ss[2]}
    BY <1>2
  <2> QED BY <2>1, Zenon DEF OpToRel
<1>3. \A y \in T : ~(y < x)
  BY <1>1, <1>2, Zenon
<1> QED BY <1>3

LEMMA Chosen == ASSUME NEW a \in Answers, v4(a) # {} PROVE chosen(a) \in V4
<1>1. v4(a) \in SUBSET Nat
  BY SocksAssumption DEF v4
<1>2. \E i \in v4(a) : \A j \in v4(a) : i <= j
  BY <1>1, Least
<1>3. (CHOOSE i \in v4(a) : \A j \in v4(a) : i <= j) \in v4(a)
  BY <1>2
<1> QED BY <1>3 DEF chosen, v4

LEMMA ResolveInv == ASSUME IInv, do_resolve PROVE IInv'
<1>0. /\ pc = "resolve" /\ heard = <<>> /\ out["client"] = <<>> /\ ~rst["client"]
      /\ CD # 0 /\ DSTIP = Port /\ socks_conf \in Rules
  BY DEF do_resolve, IInv, Phases, Early, TypeOK
<1>1. PICK a \in Answers :
        \/ /\ a = <<>> /\ pc' = "left"
           /\ UNCHANGED <<file, session, relay, peer, rst, in, out, ends>>
        \/ a # <<>> /\ v4(a) = {} /\ Quit /\ UNCHANGED session
        \/ v4(a) # {} /\ Resolved(a)
  BY DEF do_resolve
<1>2. CASE pc' = "left" /\ UNCHANGED <<file, session, relay, peer, rst, in, out, ends>>
  <2> USE <1>0, <1>2 DEF file, session, relay, ends
  <2>1. TypeOK'
    BY DEF IInv, TypeOK
  <2>2. Phases' /\ Sockets' /\ EndsByReset'
    BY DEF IInv, Phases, Early, Sockets, EndsByReset
  <2>3. Flows'
    BY FlowsKept
  <2>4. Protocol'
    BY ProtocolKept DEF Expected
  <2>5. Truthful' /\ Told'
    BY DEF Truthful, Told
  <2> QED BY <2>1, <2>2, <2>3, <2>4, <2>5 DEF IInv
<1>3. CASE Quit /\ UNCHANGED session
  BY <1>0, <1>3, QuitInv
<1>4. CASE v4(a) # {} /\ Resolved(a)
  <2>0. /\ DSTIP' \in V4 /\ CD' = CD /\ host' = host /\ checked' = socks_conf
        /\ UNCHANGED <<file, relay, peer, in, ends>> /\ (pass_firewall(DSTIP') <=> <<CD, DSTIP'>> \in socks_conf)
    BY <1>0, <1>4, Chosen DEF Resolved, Refuse, pass_firewall
  <2> USE DEF file, relay, ends
  <2>1. CASE pass_firewall(DSTIP') /\ CD = 1 /\ pc' = "connect" /\ UNCHANGED <<rst, out>>
    <3> USE <1>0, <2>0, <2>1
    <3>1. TypeOK'
      BY DEF IInv, TypeOK
    <3>2. Phases' /\ Sockets' /\ EndsByReset'
      BY DEF IInv, Phases, Early, Sockets, EndsByReset
    <3>3. Flows'
      BY FlowsKept
    <3>4. Protocol'
      BY ProtocolKept DEF Expected
    <3>5. Truthful' /\ Told'
      BY DEF Truthful, Told
    <3> QED BY <3>1, <3>2, <3>3, <3>4, <3>5 DEF IInv
  <2>2. CASE pass_firewall(DSTIP') /\ CD = 2 /\ pc' = "accept" /\ do_reply(90, Port)
    <3> USE <1>0, <2>0, <2>2
    <3>1. TypeOK'
      BY ReplyOut DEF IInv, TypeOK
    <3>2. Phases'
      <4>1. DOMAIN out'["client"] = 1 .. Len(out'["client"])
        BY ReplyOut DEF Side
      <4> QED BY <4>1, ReplyOut DEF IInv, Phases, Early
    <3>3. Sockets'
      BY ReplySockets
    <3>4. Flows'
      BY ReplyFlows
    <3>5. Protocol'
      <4>1. \A s \in Expected : Append(s, Reply(90, Port)) \in Expected'
        BY DEF Expected
      <4> QED BY <4>1, ReplyProtocol
    <3>6. Truthful' /\ Told'
      <4>1. PICK n : n = Len(heard) + Len(out["client"]) + 1
        OBVIOUS
      <4>2. True(Reply(90, Port), n)'
        BY <4>1 DEF True, Reply
      <4>3. pc \in Early
        BY DEF Early
      <4> QED BY <4>1, <4>2, <4>3, ReplyTrue
    <3>7. EndsByReset'
      BY DEF EndsByReset
    <3> QED BY <3>1, <3>2, <3>3, <3>4, <3>5, <3>6, <3>7 DEF IInv
  <2>3. CASE ~pass_firewall(DSTIP') /\ do_reply(91, DSTIP') /\ pc' = "left"
    <3>1. PICK of \in V4 \cup {Port} : of = DSTIP'
      BY <2>0
    <3>2. do_reply(91, of)
      BY <2>3, <3>1 DEF do_reply
    <3> QED BY <1>0, <2>0, <2>3, <3>1, <3>2, RefusedInv
  <2> QED BY <1>0, <1>4, <2>1, <2>2, <2>3 DEF Resolved, Refuse
<1> QED BY <1>1, <1>2, <1>3, <1>4

-----------------------------------------------------------------------------
(* The relay: a read and a write move units from one place to the next.    *)

LEMMA Taking ==
  ASSUME NEW S, NEW s \in Seq(S), NEW n \in 0 .. Len(s)
  PROVE  /\ SubSeq(s, 1, n) \in Seq(S) /\ Len(SubSeq(s, 1, n)) = n
         /\ \A i \in 1 .. n : SubSeq(s, 1, n)[i] = s[i]
         /\ SubSeq(s, n + 1, Len(s)) \in Seq(S) /\ Len(SubSeq(s, n + 1, Len(s))) = Len(s) - n
         /\ \A i \in 1 .. Len(s) - n : SubSeq(s, n + 1, Len(s))[i] = s[n + i]
<1>1. /\ SubSeq(s, 1, n) \in Seq(S) /\ Len(SubSeq(s, 1, n)) = n
      /\ \A i \in 1 .. n : SubSeq(s, 1, n)[i] = s[i]
  BY Cut
<1>2. \A i \in n + 1 .. Len(s) : s[i] \in S
  OBVIOUS
<1>3. /\ SubSeq(s, n + 1, Len(s)) \in Seq(S)
      /\ Len(SubSeq(s, n + 1, Len(s))) = IF n + 1 <= Len(s) THEN Len(s) - (n + 1) + 1 ELSE 0
      /\ \A i \in 1 .. Len(s) - (n + 1) + 1 : SubSeq(s, n + 1, Len(s))[i] = s[n + 1 + i - 1]
  BY <1>2, SubSeqProperties
<1>4. Len(s) \in Nat /\ n \in Nat /\ n <= Len(s)
  OBVIOUS
<1> QED BY <1>1, <1>3, <1>4

LEMMA ReadInv == ASSUME IInv, NEW d \in Side, do_read(d) PROVE IInv'
<1>0. /\ pc = "relay" /\ turn[d] = "read" /\ UNCHANGED session /\ CD # 0
      /\ in \in [Side -> Seq(Nat)] /\ buffer \in [Side -> Seq(Nat)]
      /\ turn \in [Side -> {"off", "read", "write"}] /\ sent \in [Side -> Nat]
      /\ \A e \in Side : Other(e) \in Side
  BY DEF do_read, IInv, Phases, TypeOK, Side, Other
<1>1. CASE in[d] = <<>> /\ failed(d) /\ Quit
  BY <1>0, <1>1, QuitInv DEF failed
<1>2. CASE /\ turn' = [turn EXCEPT ![d] = "write"]
           /\ UNCHANGED <<file, pc, buffer, peer, rst, in, out, ends>>
  <2> USE <1>0, <1>2 DEF file, session, ends
  <2>1. TypeOK'
    BY DEF IInv, TypeOK
  <2>2. Phases' /\ Sockets' /\ EndsByReset'
    BY DEF IInv, Phases, Early, Sockets, EndsByReset
  <2>3. Flows'
    BY FlowsKept
  <2>4. Protocol'
    BY ProtocolKept DEF Expected
  <2>5. Truthful' /\ Told'
    BY TruthKept DEF True, Closed
  <2> QED BY <2>1, <2>2, <2>3, <2>4, <2>5 DEF IInv
<1>3. ASSUME NEW n \in 1 .. Len(in[d]),
             buffer' = [buffer EXCEPT ![d] = SubSeq(in[d], 1, n)],
             in' = [in EXCEPT ![d] = SubSeq(@, n + 1, Len(@))],
             turn' = [turn EXCEPT ![d] = "write"],
             UNCHANGED <<file, pc, peer, rst, out, ends>>
      PROVE  IInv'
  <2> USE <1>0 DEF file, session, ends
  <2>0. /\ buffer'[d] \in Seq(Nat) /\ Len(buffer'[d]) = n /\ n \in Nat
        /\ \A i \in 1 .. n : buffer'[d][i] = in[d][i]
        /\ in'[d] \in Seq(Nat) /\ Len(in'[d]) = Len(in[d]) - n
        /\ \A i \in 1 .. Len(in[d]) - n : in'[d][i] = in[d][n + i]
        /\ Len(in[d]) \in Nat /\ n <= Len(in[d])
    <3>1. in[d] \in Seq(Nat) /\ n \in 0 .. Len(in[d])
      OBVIOUS
    <3>2. buffer'[d] = SubSeq(in[d], 1, n) /\ in'[d] = SubSeq(in[d], n + 1, Len(in[d]))
      BY <1>3
    <3>3. /\ SubSeq(in[d], 1, n) \in Seq(Nat) /\ Len(SubSeq(in[d], 1, n)) = n
          /\ \A i \in 1 .. n : SubSeq(in[d], 1, n)[i] = in[d][i]
          /\ SubSeq(in[d], n + 1, Len(in[d])) \in Seq(Nat)
          /\ Len(SubSeq(in[d], n + 1, Len(in[d]))) = Len(in[d]) - n
          /\ \A i \in 1 .. Len(in[d]) - n : SubSeq(in[d], n + 1, Len(in[d]))[i] = in[d][n + i]
      BY ONLY <3>1, Taking
    <3>4. Len(in[d]) \in Nat /\ n \in Nat /\ n <= Len(in[d])
      BY <3>1
    <3> QED BY ONLY <3>2, <3>3, <3>4
  <2>1. TypeOK'
    <3>1. buffer' \in [Side -> Seq(Nat)] /\ in' \in [Side -> Seq(Nat)]
          /\ turn' \in [Side -> {"off", "read", "write"}]
      BY <1>3, <2>0
    <3> QED BY <1>3, <3>1 DEF IInv, TypeOK
  <2>2. Phases' /\ EndsByReset'
    BY <1>3 DEF IInv, Phases, Early, EndsByReset
  <2>3. Sockets'
    BY <1>3 DEF IInv, Sockets
  <2>4. Flows'
    <3> SUFFICES ASSUME NEW e \in Side PROVE (\E k \in 0 .. Len(out[Other(e)]) : Flow(e, k))'
      BY DEF Flows
    <3>1. PICK k \in 0 .. Len(out[Other(e)]) : Flow(e, k)
      BY DEF IInv, Flows
    <3>2. CASE e # d
      <4>1. /\ in'[e] = in[e] /\ buffer'[e] = buffer[e] /\ got' = got /\ out' = out /\ sent' = sent
            /\ pc' = pc /\ peer' = peer
        BY <1>3, <3>2
      <4>2. Flow(e, k)'
        BY <3>1, <4>1 DEF Flow, Got, Behind, InBuffer, InSocket, Written, Taken
      <4> QED BY <4>1, <4>2
    <3>3. CASE e = d
      <4>1. /\ Got(e)' /\ Behind(e, k)' /\ (e = "client" => k = 0)
            /\ Written(e, k)' = Written(e, k) /\ Written(e, k)' <= sent'[e]
        BY <1>3, <3>1 DEF Flow, Got, Behind, Written
      <4>2. ASSUME pc # "exited", peer[Other(e)] # "gone"
            PROVE  InBuffer(e, k)' /\ InSocket(e, k)' /\ sent'[e] = Taken(e, k)' + Len(in'[e])
        <5>1. InSocket(e, k) /\ sent[e] = Taken(e, k) + Len(in[e])
          BY <3>1, <4>2 DEF Flow
        <5>2. Len(buffer[e]) = 0
          BY <3>3 DEF IInv, Sockets
        <5>3. Written(e, k) \in Int
          BY DEF IInv, TypeOK, Written
        <5>4. Taken(e, k) = Written(e, k)
          BY <5>2, <5>3 DEF Taken
        <5>a. /\ Len(buffer'[e]) = n /\ n \in Nat /\ \A i \in 1 .. n : buffer'[e][i] = in[e][i]
              /\ Len(in'[e]) = Len(in[e]) - n /\ Len(in[e]) \in Nat /\ n <= Len(in[e])
              /\ \A i \in 1 .. Len(in[e]) - n : in'[e][i] = in[e][n + i]
          BY <2>0, <3>3
        <5>5. Taken(e, k)' = Written(e, k) + n
          BY <4>1, <5>a DEF Taken
        <5>6. \A i \in 1 .. Len(in[e]) : in[e][i] = Written(e, k) + i
          BY <5>1, <5>4 DEF InSocket
        <5>7. InBuffer(e, k)'
          <6>1. \A i \in 1 .. n : buffer'[e][i] = Written(e, k) + i
            <7>1. \A i \in 1 .. n : i \in 1 .. Len(in[e])
              BY ONLY <5>a
            <7> QED BY ONLY <5>a, <5>6, <7>1
          <6> QED BY <4>1, <5>a, <6>1 DEF InBuffer
        <5>8. InSocket(e, k)'
          <6>1. \A i \in 1 .. Len(in[e]) - n : in'[e][i] = (Written(e, k) + n) + i
            <7> SUFFICES ASSUME NEW i \in 1 .. Len(in[e]) - n PROVE in'[e][i] = (Written(e, k) + n) + i
              OBVIOUS
            <7>1. n + i \in 1 .. Len(in[e]) /\ i \in Nat
              BY ONLY <5>a, i \in 1 .. Len(in[e]) - n
            <7>2. in'[e][i] = Written(e, k) + (n + i)
              BY <5>a, <5>6, <7>1
            <7>3. Written(e, k) + (n + i) = (Written(e, k) + n) + i
              BY ONLY <5>3, <5>a, <7>1
            <7> QED BY ONLY <7>2, <7>3
          <6> QED BY <5>a, <5>5, <6>1 DEF InSocket
        <5>9. sent'[e] = Taken(e, k)' + Len(in'[e])
          <6>1. sent' = sent
            BY <1>3
          <6>2. Written(e, k) + Len(in[e]) = (Written(e, k) + n) + (Len(in[e]) - n)
            BY ONLY <5>3, <5>a
          <6>3. Taken(e, k)' + Len(in'[e]) = (Written(e, k) + n) + (Len(in[e]) - n)
            BY <5>5, <5>a
          <6> QED BY ONLY <5>1, <5>4, <6>1, <6>2, <6>3
        <5> QED BY <5>7, <5>8, <5>9
      <4> QED BY <1>3, <4>1, <4>2 DEF Flow
    <3> QED BY <3>2, <3>3
  <2>5. Protocol'
    BY <1>3, ProtocolKept DEF Expected
  <2>6. Truthful' /\ Told'
    BY <1>3, TruthKept DEF True, Closed
  <2> QED BY <2>1, <2>2, <2>3, <2>4, <2>5, <2>6 DEF IInv
<1> QED BY <1>1, <1>2, <1>3 DEF do_read

LEMMA WroteBuffer ==
  ASSUME IInv, NEW d \in Side, NEW n \in 0 .. Len(buffer[d]), Wrote(d, n), turn[d] = "write"
  PROVE  /\ buffer' \in [Side -> Seq(Nat)] /\ turn' \in [Side -> {"off", "read", "write"}]
         /\ Len(buffer'[d]) = Len(buffer[d]) - n
         /\ \A i \in 1 .. Len(buffer[d]) - n : buffer'[d][i] = buffer[d][n + i]
         /\ \A e \in Side \ {d} : buffer'[e] = buffer[e] /\ turn'[e] = turn[e]
         /\ turn'[d] # "write" => buffer'[d] = <<>>
         /\ Len(buffer[d]) \in Nat /\ n \in Nat /\ n <= Len(buffer[d])
         /\ \A i \in 1 .. Len(buffer[d]) : buffer[d][i] \in Nat
<1>0. /\ buffer \in [Side -> Seq(Nat)] /\ turn \in [Side -> {"off", "read", "write"}]
      /\ buffer[d] \in Seq(Nat)
  BY DEF IInv, TypeOK
<1>1. /\ buffer' = [buffer EXCEPT ![d] = SubSeq(buffer[d], n + 1, Len(buffer[d]))]
      /\ turn' = IF n = Len(buffer[d]) THEN [turn EXCEPT ![d] = "read"] ELSE turn
  BY DEF Wrote
<1>2. /\ SubSeq(buffer[d], n + 1, Len(buffer[d])) \in Seq(Nat)
      /\ Len(SubSeq(buffer[d], n + 1, Len(buffer[d]))) = Len(buffer[d]) - n
      /\ \A i \in 1 .. Len(buffer[d]) - n :
           SubSeq(buffer[d], n + 1, Len(buffer[d]))[i] = buffer[d][n + i]
  BY <1>0, Taking
<1>3. Len(buffer[d]) \in Nat /\ n \in Nat /\ n <= Len(buffer[d])
      /\ \A i \in 1 .. Len(buffer[d]) : buffer[d][i] \in Nat
  BY <1>0
<1>4. /\ buffer'[d] = SubSeq(buffer[d], n + 1, Len(buffer[d])) /\ buffer' \in [Side -> Seq(Nat)]
      /\ \A e \in Side \ {d} : buffer'[e] = buffer[e]
  BY <1>0, <1>1, <1>2
<1>5. turn' \in [Side -> {"off", "read", "write"}] /\ \A e \in Side \ {d} : turn'[e] = turn[e]
  BY <1>0, <1>1
<1>6. turn'[d] # "write" => buffer'[d] = <<>>
  <2> SUFFICES ASSUME turn'[d] # "write" PROVE buffer'[d] = <<>>
    OBVIOUS
  <2>1. n = Len(buffer[d])
    BY <1>0, <1>1
  <2>2. Len(buffer'[d]) = 0 /\ buffer'[d] \in Seq(Nat)
    BY <1>2, <1>3, <1>4, <2>1
  <2> QED BY <2>2
<1> QED BY <1>2, <1>3, <1>4, <1>5, <1>6

\* A write that leaves what is under way as it was: of nothing, or to a peer that is gone.
LEMMA WroteNothing ==
  ASSUME IInv, NEW d \in Side, pc = "relay", turn[d] = "write", UNCHANGED session,
         NEW n \in 0 .. Len(buffer[d]), Wrote(d, n), out' = out,
         rst' \in [Side -> BOOLEAN], \A e \in Side : rst'[e] => rst[e] \/ peer[e] = "gone",
         n = 0 \/ peer[Other(d)] = "gone"
  PROVE  IInv'
<1> USE DEF session, file, ends
<1>0. UNCHANGED <<file, pc, peer, in, ends>>
  BY DEF Wrote
<1>1. TypeOK'
  BY <1>0, WroteBuffer DEF IInv, TypeOK
<1>2. Phases' /\ EndsByReset'
  BY <1>0 DEF IInv, Phases, Early, EndsByReset
<1>3. Sockets'
  BY <1>0, WroteBuffer DEF IInv, Sockets
<1>4. Flows'
  <2> SUFFICES ASSUME NEW e \in Side PROVE (\E k \in 0 .. Len(out[Other(e)]) : Flow(e, k))'
    BY DEF Flows
  <2>1. PICK k \in 0 .. Len(out[Other(e)]) : Flow(e, k)
    BY DEF IInv, Flows
  <2>2. Got(e)' /\ Behind(e, k)' /\ (e = "client" => k = 0) /\ Written(e, k)' <= sent'[e]
    BY <1>0, <2>1 DEF Flow, Got, Behind, Written
  <2>3. CASE e # d \/ n = 0
    <3>1. buffer'[e] = buffer[e]
      <4>1. CASE e # d
        BY <4>1, WroteBuffer
      <4>2. CASE e = d /\ n = 0
        <5>1. /\ buffer'[e] \in Seq(Nat) /\ buffer[e] \in Seq(Nat) /\ Len(buffer'[e]) = Len(buffer[e]) - 0
              /\ \A i \in 1 .. Len(buffer[e]) - 0 : buffer'[e][i] = buffer[e][0 + i]
              /\ Len(buffer[e]) \in Nat
          BY <4>2, WroteBuffer DEF IInv, TypeOK
        <5>2. Len(buffer'[e]) = Len(buffer[e]) /\ \A i \in 1 .. Len(buffer'[e]) : buffer'[e][i] = buffer[e][i]
          BY ONLY <5>1
        <5> QED BY ONLY <5>1, <5>2, SeqEqual
      <4> QED BY <2>3, <4>1, <4>2
    <3>2. Flow(e, k)'
      BY <1>0, <2>1, <3>1 DEF Flow, Got, Behind, InBuffer, InSocket, Written, Taken
    <3> QED BY <3>2
  <2>4. CASE e = d /\ peer[Other(d)] = "gone"
    BY <1>0, <2>2, <2>4 DEF Flow
  <2> QED BY <2>3, <2>4
<1>5. Protocol'
  BY <1>0, ProtocolKept DEF Expected
<1>6. Truthful' /\ Told'
  BY <1>0, TruthKept DEF True, Closed
<1> QED BY <1>1, <1>2, <1>3, <1>4, <1>5, <1>6 DEF IInv

\* A write to the other peer: n units pass from the buffer to what is under way.
LEMMA Passing ==
  ASSUME IInv, NEW d \in Side, NEW n \in 0 .. Len(buffer[d]), Wrote(d, n), turn[d] = "write",
         out' = [out EXCEPT ![Other(d)] = @ \o [i \in 1 .. n |-> Unit(buffer[d][i])]]
  PROVE  /\ out' \in [Side -> Seq(Item)] /\ out'[d] = out[d]
         /\ Len(out'[Other(d)]) = Len(out[Other(d)]) + n /\ Len(out[Other(d)]) \in Nat
         /\ \A j \in 1 .. Len(out[Other(d)]) : out'[Other(d)][j] = out[Other(d)][j]
         /\ \A i \in 1 .. n : out'[Other(d)][Len(out[Other(d)]) + i] = Unit(buffer[d][i])
<1> DEFINE units == [i \in 1 .. n |-> Unit(buffer[d][i])]
           o == out[Other(d)]
<1>1. out \in [Side -> Seq(Item)] /\ Other(d) \in Side /\ Other(d) # d
  BY DEF IInv, TypeOK, Other, Side
<1>2. n \in Nat /\ \A i \in 1 .. n : buffer[d][i] \in Nat
  <2>1. /\ Len(buffer[d]) \in Nat /\ n \in Nat /\ n <= Len(buffer[d])
        /\ \A i \in 1 .. Len(buffer[d]) : buffer[d][i] \in Nat
    BY WroteBuffer
  <2>2. \A i \in 1 .. n : i \in 1 .. Len(buffer[d])
    BY ONLY <2>1
  <2> QED BY ONLY <2>1, <2>2
<1>3. \A i \in 1 .. n : Unit(buffer[d][i]) \in Item
  BY <1>2 DEF Unit, Item
<1>4. units \in Seq(Item) /\ Len(units) = n /\ \A i \in 1 .. n : units[i] = Unit(buffer[d][i])
  BY <1>2, <1>3
<1>5. o \in Seq(Item) /\ Len(o) \in Nat
  BY <1>1
<1> HIDE DEF units
<1>6. /\ o \o units \in Seq(Item) /\ Len(o \o units) = Len(o) + n
      /\ \A j \in 1 .. Len(o) + n : (o \o units)[j] = IF j <= Len(o) THEN o[j] ELSE units[j - Len(o)]
  BY <1>4, <1>5, ConcatProperties
<1>7. /\ out'[Other(d)] = o \o units /\ out'[d] = out[d] /\ out' \in [Side -> Seq(Item)]
  BY <1>1, <1>6 DEF units
<1>8. \A j \in 1 .. Len(o) : (o \o units)[j] = o[j]
  <2>1. \A j \in 1 .. Len(o) : j \in 1 .. Len(o) + n /\ j <= Len(o)
    BY ONLY <1>2, <1>5
  <2> QED BY <1>6, <2>1
<1>9. \A i \in 1 .. n : (o \o units)[Len(o) + i] = Unit(buffer[d][i])
  <2> SUFFICES ASSUME NEW i \in 1 .. n PROVE (o \o units)[Len(o) + i] = Unit(buffer[d][i])
    OBVIOUS
  <2>1. Len(o) + i \in 1 .. Len(o) + n /\ ~(Len(o) + i <= Len(o)) /\ Len(o) + i - Len(o) = i
    BY ONLY <1>2, <1>5, i \in 1 .. n
  <2>2. (o \o units)[Len(o) + i] = units[Len(o) + i - Len(o)]
    BY ONLY <1>6, <2>1
  <2> QED BY ONLY <1>4, <2>1, <2>2, i \in 1 .. n
<1> QED BY <1>5, <1>6, <1>7, <1>8, <1>9

LEMMA PassingFlow ==
  ASSUME IInv, NEW d \in Side, NEW n \in 0 .. Len(buffer[d]), Wrote(d, n), turn[d] = "write",
         pc = "relay", peer[Other(d)] # "gone",
         out' = [out EXCEPT ![Other(d)] = @ \o [i \in 1 .. n |-> Unit(buffer[d][i])]],
         NEW k \in 0 .. Len(out[Other(d)]), Flow(d, k)
  PROVE  Flow(d, k)' /\ k \in 0 .. Len(out'[Other(d)])
<1>0. UNCHANGED <<file, pc, peer, in, ends>>
  BY DEF Wrote
<1>1. /\ Got(d) /\ Behind(d, k) /\ (d = "client" => k = 0)
      /\ InBuffer(d, k) /\ InSocket(d, k) /\ sent[d] = Taken(d, k) + Len(in[d])
  BY DEF Flow
<1>a. Other(d) \in Side /\ got \in [Side -> Seq(Nat)] /\ in \in [Side -> Seq(Nat)]
  BY DEF IInv, TypeOK, Other, Side
<1>b. Len(out[Other(d)]) \in Nat /\ Len(got[Other(d)]) \in Nat /\ Len(buffer[d]) \in Nat /\ Len(in[d]) \in Nat
  BY <1>a, WroteBuffer, Passing
<1>c. PICK o \in Nat, g \in Nat, b \in Nat, l \in Nat :
        o = Len(out[Other(d)]) /\ g = Len(got[Other(d)]) /\ b = Len(buffer[d]) /\ l = Len(in[d])
  BY <1>b
<1>2. /\ o \in Nat /\ g \in Nat /\ b \in Nat /\ l \in Nat
      /\ k \in Nat /\ k <= o /\ n \in Nat /\ n <= b
  BY <1>c
<1>d. Len(out'[Other(d)]) = o + n /\ Len(buffer'[d]) = b - n /\ Len(got'[Other(d)]) = g
  <2>1. Len(out'[Other(d)]) = Len(out[Other(d)]) + n
    BY Passing
  <2>2. Len(buffer'[d]) = Len(buffer[d]) - n
    BY WroteBuffer
  <2>3. got' = got
    BY <1>0 DEF ends
  <2> QED BY <1>c, <2>1, <2>2, <2>3
<1>3. Written(d, k) = g + o - k /\ Taken(d, k) = g + o - k + b
  BY <1>c DEF Written, Taken
<1>5. Written(d, k)' = g + (o + n) - k
  BY <1>d DEF Written
<1>6. Taken(d, k)' = g + o - k + b
  <2>1. Taken(d, k)' = g + (o + n) - k + (b - n)
    BY <1>5, <1>d DEF Taken
  <2>2. g + (o + n) - k + (b - n) = g + o - k + b
    BY ONLY <1>2
  <2> QED BY <2>1, <2>2
<1>7. Got(d)' /\ InSocket(d, k)'
  BY <1>0, <1>1, <1>3, <1>6 DEF Got, InSocket, ends
<1>8. InBuffer(d, k)'
  <2> SUFFICES ASSUME NEW i \in 1 .. b - n PROVE buffer'[d][i] = (g + (o + n) - k) + i
    BY <1>5, <1>d DEF InBuffer
  <2>1. buffer'[d][i] = buffer[d][n + i]
    BY <1>c, WroteBuffer
  <2>2. n + i \in 1 .. b /\ g + o - k + (n + i) = (g + (o + n) - k) + i
    BY ONLY <1>2, i \in 1 .. b - n
  <2>3. buffer[d][n + i] = g + o - k + (n + i)
    BY <1>1, <1>3, <1>c, <2>2 DEF InBuffer
  <2> QED BY <2>1, <2>2, <2>3
<1>9. Behind(d, k)'
  <2> SUFFICES ASSUME NEW j \in 1 .. o + n
               PROVE  IF j <= k THEN IsReply(out'[Other(d)][j])
                      ELSE out'[Other(d)][j] = Unit(g + j - k)
    BY <1>d DEF Behind
  <2>1. CASE j <= o
    <3>1. j \in 1 .. o
      BY ONLY <1>2, <2>1, j \in 1 .. o + n
    <3>2. out'[Other(d)][j] = out[Other(d)][j]
      BY <1>c, <3>1, Passing
    <3> QED BY <1>1, <1>c, <3>1, <3>2 DEF Behind
  <2>2. CASE ~(j <= o)
    <3>1. PICK i \in 1 .. n : j = o + i
      <4>1. j - o \in 1 .. n /\ j = o + (j - o)
        BY ONLY <1>2, <2>2, j \in 1 .. o + n
      <4> QED BY <4>1
    <3>2. out'[Other(d)][j] = Unit(buffer[d][i])
      <4>1. \A h \in 1 .. n : out'[Other(d)][Len(out[Other(d)]) + h] = Unit(buffer[d][h])
        BY Passing
      <4> QED BY <1>c, <3>1, <4>1
    <3>3. i \in 1 .. b /\ ~(j <= k) /\ g + o - k + i = g + j - k
      BY ONLY <1>2, <3>1, i \in 1 .. n
    <3>4. buffer[d][i] = g + o - k + i
      BY <1>1, <1>3, <1>c, <3>3 DEF InBuffer
    <3> QED BY <3>2, <3>3, <3>4
  <2> QED BY <2>1, <2>2
<1>10. sent'[d] = Taken(d, k)' + Len(in'[d])
  BY <1>0, <1>1, <1>3, <1>6 DEF ends
<1>11. Written(d, k)' <= sent'[d]
  <2>1. sent'[d] = g + o - k + b + l
    BY <1>0, <1>1, <1>3, <1>c DEF ends
  <2>2. g + (o + n) - k <= g + o - k + b + l
    BY ONLY <1>2
  <2> QED BY ONLY <1>5, <2>1, <2>2
<1>12. k \in 0 .. Len(out'[Other(d)])
  BY ONLY <1>2, <1>c, <1>d
<1> QED BY <1>1, <1>7, <1>8, <1>9, <1>10, <1>11, <1>12 DEF Flow

LEMMA PassingProtocol ==
  ASSUME IInv, NEW n \in 0 .. Len(buffer["server"]), Wrote("server", n), turn["server"] = "write",
         pc = "relay", UNCHANGED session,
         out' = [out EXCEPT !["client"] = @ \o [i \in 1 .. n |-> Unit(buffer["server"][i])]]
  PROVE  Protocol' /\ Told'
<1>0. UNCHANGED <<pc, peer, got, heard, CD, DSTIP, host, checked>>
  BY DEF Wrote, ends, session
<1>1. /\ out' \in [Side -> Seq(Item)] /\ "server" \in Side /\ Other("server") = "client"
      /\ Len(out'["client"]) = Len(out["client"]) + n /\ Len(out["client"]) \in Nat /\ n \in Nat
      /\ \A j \in 1 .. Len(out["client"]) : out'["client"][j] = out["client"][j]
      /\ \A i \in 1 .. n : out'["client"][Len(out["client"]) + i] = Unit(buffer["server"][i])
  <2>1. "server" \in Side /\ Other("server") = "client"
    BY DEF Side, Other
  <2>2. n \in Nat
    BY <2>1, WroteBuffer
  <2>3. out' = [out EXCEPT ![Other("server")] = @ \o [i \in 1 .. n |-> Unit(buffer["server"][i])]]
    BY <2>1
  <2>4. /\ out' \in [Side -> Seq(Item)]
        /\ Len(out'[Other("server")]) = Len(out[Other("server")]) + n /\ Len(out[Other("server")]) \in Nat
        /\ \A j \in 1 .. Len(out[Other("server")]) : out'[Other("server")][j] = out[Other("server")][j]
        /\ \A i \in 1 .. n :
             out'[Other("server")][Len(out[Other("server")]) + i] = Unit(buffer["server"][i])
    BY <2>1, <2>3, Passing
  <2> QED BY <2>1, <2>2, <2>4
<1>2. out \in [Side -> Seq(Item)] /\ "client" \in Side
  BY DEF IInv, TypeOK, Side
<1>3. DOMAIN out["client"] = 1 .. Len(out["client"]) /\ DOMAIN out'["client"] = 1 .. Len(out["client"]) + n
  BY <1>1, <1>2
<1>4. ASSUME NEW j \in DOMAIN out'["client"]
      PROVE  \/ j \in DOMAIN out["client"] /\ out'["client"][j] = out["client"][j]
             \/ j > Len(out["client"]) /\ ~IsReply(out'["client"][j])
  <2>1. CASE j <= Len(out["client"])
    BY <1>1, <1>3, <2>1
  <2>2. CASE ~(j <= Len(out["client"]))
    <3>1. PICK i \in 1 .. n : j = Len(out["client"]) + i
      <4>1. j - Len(out["client"]) \in 1 .. n /\ j = Len(out["client"]) + (j - Len(out["client"]))
        BY <1>1, <1>3, <2>2
      <4> QED BY <4>1
    <3>2. out'["client"][j] = Unit(buffer["server"][i])
      BY <1>1, <3>1
    <3>3. j > Len(out["client"])
      BY <1>1, <1>3, <2>2
    <3> QED BY <3>2, <3>3 DEF Unit, IsReply
  <2> QED BY <2>1, <2>2
<1>5. Protocol'
  <2>1. PICK k \in 0 .. Len(out["client"]) :
          /\ \A j \in DOMAIN out["client"] : IsReply(out["client"][j]) <=> j <= k
          /\ k > 0 => got["client"] = <<>>
          /\ pc # "exited" /\ peer["client"] # "gone" =>
               heard \o SubSeq(out["client"], 1, k) \in Expected
    BY DEF IInv, Protocol
  <2>2. k \in 0 .. Len(out'["client"]) /\ k \in Nat /\ k <= Len(out["client"])
    BY <1>1
  <2>3. \A j \in DOMAIN out'["client"] : IsReply(out'["client"][j]) <=> j <= k
    <3> SUFFICES ASSUME NEW j \in DOMAIN out'["client"]
                 PROVE  IsReply(out'["client"][j]) <=> j <= k
      OBVIOUS
    <3>1. CASE j \in DOMAIN out["client"] /\ out'["client"][j] = out["client"][j]
      BY <2>1, <3>1
    <3>2. CASE j > Len(out["client"]) /\ ~IsReply(out'["client"][j])
      <4>1. j \in Int
        BY <1>1, <1>3
      <4>2. ~(j <= k)
        BY <1>1, <2>2, <3>2, <4>1
      <4> QED BY <3>2, <4>2
    <3> QED BY <1>4, <3>1, <3>2
  <2>4. SubSeq(out'["client"], 1, k) = SubSeq(out["client"], 1, k)
    <3>1. /\ SubSeq(out["client"], 1, k) \in Seq(Item) /\ Len(SubSeq(out["client"], 1, k)) = k
          /\ \A j \in 1 .. k : SubSeq(out["client"], 1, k)[j] = out["client"][j]
      BY <1>2, Cut
    <3>2. /\ SubSeq(out'["client"], 1, k) \in Seq(Item) /\ Len(SubSeq(out'["client"], 1, k)) = k
          /\ \A j \in 1 .. k : SubSeq(out'["client"], 1, k)[j] = out'["client"][j]
      <4>1. out'["client"] \in Seq(Item)
        BY <1>1, <1>2
      <4> QED BY <2>2, <4>1, Cut
    <3>3. \A j \in 1 .. k : out'["client"][j] = out["client"][j]
      BY <1>1, <2>2
    <3> QED BY ONLY <3>1, <3>2, <3>3, SeqEqual
  <2>5. Expected' = Expected
    BY <1>0 DEF Expected
  <2>6. pc' # "exited" /\ peer'["client"] # "gone" =>
          heard' \o SubSeq(out'["client"], 1, k) \in Expected'
    <3>1. pc' = pc /\ peer' = peer /\ heard' = heard
      BY <1>0
    <3> QED BY ONLY <2>1, <2>4, <2>5, <3>1
  <2> QED BY <1>0, <2>1, <2>2, <2>3, <2>6 DEF Protocol
<1>6. Told'
  <2> SUFFICES ASSUME NEW j \in DOMAIN out'["client"], IsReply(out'["client"][j])
               PROVE  (True(out["client"][j], Len(heard) + j))'
    BY DEF Told
  <2>1. j \in DOMAIN out["client"] /\ out'["client"][j] = out["client"][j]
    BY <1>4
  <2>2. True(out["client"][j], Len(heard) + j)
    BY <2>1 DEF IInv, Told
  <2> QED BY <1>0, <2>1, <2>2 DEF True, Closed
<1> QED BY <1>5, <1>6

LEMMA WriteInv == ASSUME IInv, NEW d \in Side, do_write(d) PROVE IInv'
<1>0. /\ pc = "relay" /\ turn[d] = "write" /\ UNCHANGED session /\ CD # 0
      /\ rst \in [Side -> BOOLEAN] /\ Other(d) \in Side /\ buffer[d] \in Seq(Nat)
  BY DEF do_write, IInv, Phases, TypeOK, Side, Other
<1>1. CASE buffer[d] = <<>> /\ Wrote(d, 0) /\ UNCHANGED <<rst, out>>
  <2>1. 0 \in 0 .. Len(buffer[d])
    BY <1>0
  <2> QED BY <1>0, <1>1, <2>1, WroteNothing
<1>2. CASE rst[Other(d)] /\ Quit
  BY <1>0, <1>2, QuitInv
<1>3. CASE /\ ~rst[Other(d)] /\ peer[Other(d)] = "gone"
           /\ \E n \in 1 .. Len(buffer[d]) : Wrote(d, n)
           /\ rst' = [rst EXCEPT ![Other(d)] = TRUE] /\ out' = out
  <2>1. PICK n \in 1 .. Len(buffer[d]) : Wrote(d, n)
    BY <1>3
  <2>2. rst' \in [Side -> BOOLEAN] /\ \A e \in Side : rst'[e] => rst[e] \/ peer[e] = "gone"
    BY <1>0, <1>3
  <2> QED BY <1>0, <1>3, <2>1, <2>2, WroteNothing
<1>4. ASSUME ~rst[Other(d)], peer[Other(d)] # "gone", NEW n \in 1 .. Len(buffer[d]), Wrote(d, n),
             out' = [out EXCEPT ![Other(d)] = @ \o [i \in 1 .. n |-> Unit(buffer[d][i])]],
             rst' = rst
      PROVE  IInv'
  <2> USE <1>4 DEF file, session, ends
  <2>0. UNCHANGED <<file, pc, peer, in, ends>> /\ n \in 0 .. Len(buffer[d])
    BY DEF Wrote
  <2>1. TypeOK'
    BY <1>0, <2>0, WroteBuffer, Passing DEF IInv, TypeOK
  <2>2. Phases' /\ EndsByReset'
    BY <1>0, <2>0 DEF IInv, Phases, Early, EndsByReset
  <2>3. Sockets'
    <3>1. \A e \in Side : turn'[e] # "write" => buffer'[e] = <<>>
      BY <1>0, <2>0, WroteBuffer DEF IInv, Sockets
    <3>2. \A e \in Side : peer[e] = "gone" => out'[e] = <<>>
      <4>1. \A e \in Side : e = d \/ e = Other(d)
        BY DEF Side, Other
      <4> QED BY <1>0, <2>0, <4>1, Passing DEF IInv, Sockets
    <3> QED BY <2>0, <3>1, <3>2 DEF IInv, Sockets
  <2>4. Flows'
    <3> SUFFICES ASSUME NEW e \in Side PROVE (\E k \in 0 .. Len(out[Other(e)]) : Flow(e, k))'
      BY DEF Flows
    <3>1. PICK k \in 0 .. Len(out[Other(e)]) : Flow(e, k)
      BY DEF IInv, Flows
    <3>2. CASE e = d
      <4>1. Flow(d, k)' /\ k \in 0 .. Len(out'[Other(d)])
        BY <1>0, <2>0, <3>1, <3>2, PassingFlow
      <4> QED BY <3>2, <4>1
    <3>3. CASE e # d
      <4>1. Other(e) = d
        BY <3>3 DEF Side, Other
      <4>2. out'[Other(e)] = out[Other(e)] /\ buffer'[e] = buffer[e]
        <5>1. out'[d] = out[d]
          BY <1>0, <2>0, Passing
        <5>2. buffer'[e] = buffer[e]
          BY <1>0, <2>0, <3>3, WroteBuffer
        <5> QED BY <4>1, <5>1, <5>2
      <4>3. Flow(e, k)'
        BY <2>0, <3>1, <4>2 DEF Flow, Got, Behind, InBuffer, InSocket, Written, Taken
      <4> QED BY <4>2, <4>3
    <3> QED BY <3>2, <3>3
  <2>5. Protocol' /\ Told'
    <3>1. CASE d = "server"
      BY <1>0, <2>0, <3>1, PassingProtocol DEF Other
    <3>2. CASE d = "client"
      <4>1. out'["client"] = out["client"]
        BY <1>0, <2>0, <3>2, Passing
      <4>2. Protocol'
        BY <1>0, <2>0, <4>1 DEF IInv, Protocol, Expected
      <4>3. Told'
        BY <1>0, <2>0, <4>1 DEF IInv, Told, True, Closed
      <4> QED BY <4>2, <4>3
    <3> QED BY <3>1, <3>2 DEF Side
  <2>6. Truthful'
    BY <1>0, <2>0 DEF IInv, Truthful, True, Closed
  <2> QED BY <2>1, <2>2, <2>3, <2>4, <2>5, <2>6 DEF IInv
<1>5. \/ buffer[d] = <<>> /\ Wrote(d, 0) /\ UNCHANGED <<rst, out>>
      \/ rst[Other(d)] /\ Quit
      \/ /\ ~rst[Other(d)] /\ peer[Other(d)] = "gone"
         /\ \E n \in 1 .. Len(buffer[d]) : Wrote(d, n)
         /\ rst' = [rst EXCEPT ![Other(d)] = TRUE] /\ out' = out
      \/ /\ ~rst[Other(d)] /\ peer[Other(d)] # "gone" /\ rst' = rst
         /\ \E n \in 1 .. Len(buffer[d]) :
              /\ Wrote(d, n)
              /\ out' = [out EXCEPT ![Other(d)] = @ \o [i \in 1 .. n |-> Unit(buffer[d][i])]]
  BY Zenon DEF do_write
<1> QED BY <1>1, <1>2, <1>3, <1>4, <1>5

-----------------------------------------------------------------------------
LEMMA NextInv == ASSUME IInv, [Next]_vars PROVE IInv'
<1>1. CASE Handler
  <2>1. ASSUME do_connect PROVE IInv'
    <3>1. pc = "connect" /\ DSTIP \in V4 \cup {Port} /\ Met(DSTIP)
      BY <2>1 DEF do_connect, IInv, TypeOK
    <3> QED BY <3>1, MetInv
  <2>2. ASSUME do_accept PROVE IInv'
    <3>1. pc = "accept" /\ Port \in V4 \cup {Port} /\ Met(Port)
      BY <2>2 DEF do_accept
    <3> QED BY <3>1, MetInv
  <2> QED BY <1>1, <2>1, <2>2, StartInv, ResolveInv DEF Handler
<1>2. CASE Environment
  BY <1>2, EditInv, AskInv, MeetInv, SendInv, ReceiveInv, ShutInv, LeaveInv DEF Environment
<1>3. CASE \E d \in Side : do_read(d) \/ do_write(d)
  BY <1>3, ReadInv, WriteInv
<1>4. CASE UNCHANGED vars
  <2> USE <1>4 DEF vars, file, session, relay, ends
  <2>1. TypeOK' /\ Phases' /\ Sockets' /\ EndsByReset'
    BY DEF IInv, TypeOK, Phases, Sockets, EndsByReset
  <2>2. Flows'
    BY FlowsKept
  <2>3. Protocol'
    BY ProtocolKept DEF Expected
  <2>4. Truthful' /\ Told'
    BY TruthKept DEF True, Closed
  <2> QED BY <2>1, <2>2, <2>3, <2>4 DEF IInv
<1> QED BY <1>1, <1>2, <1>3, <1>4 DEF Next

THEOREM Invariance == Spec => []IInv
BY InitInv, NextInv, PTL DEF Spec

(* Every variable has its type, whatever the peers do and whatever the     *)
(* resolver and socks.conf say.                                            *)
THEOREM TypeCorrect == Spec => []TypeOK
BY Invariance, PTL DEF IInv

(* The client is sent one reply to CONNECT and two to BIND, nothing of the *)
(* relay's before the last, and nothing after a refusal.                   *)
THEOREM KeepsProtocol == Spec => []Protocol
BY Invariance, PTL DEF IInv

(* A reply that the client has received is true: of what socks.conf said   *)
(* when it was read, and of the destination.                               *)
THEOREM RepliesAreTrue == Spec => []Truthful
BY Invariance, PTL DEF IInv

\* Once it has an address to join, the process ends by a peer's reset and by nothing else.
THEOREM EndsOnlyByReset == Spec => []EndsByReset
BY Invariance, PTL DEF IInv

-----------------------------------------------------------------------------
(* Each direction implements Stream.                                       *)

LEMMA NextUnit ==
  ASSUME IInv, NEW d \in Side, NEW e \in Side, Other(e) = d, out[d] # <<>>, Head(out[d]).cd = 0
  PROVE  Head(out[d]).of = Len(got[d]) + 1 /\ Len(got[d]) < sent[e]
<1>1. PICK k \in 0 .. Len(out[d]) : Flow(e, k)
  BY DEF IInv, Flows
<1>2. /\ out[d] \in Seq(Item) /\ Len(got[d]) \in Nat /\ sent[e] \in Nat
  BY DEF IInv, TypeOK
<1>3. Head(out[d]) = out[d][1] /\ Len(out[d]) \in Nat \ {0} /\ 1 \in 1 .. Len(out[d])
  BY <1>2, HeadTailProperties
<1>4. Behind(e, k) /\ Written(e, k) <= sent[e]
  BY <1>1 DEF Flow
<1>5. k = 0
  BY <1>3, <1>4 DEF Behind, IsReply
<1>6. out[d][1] = Unit(Len(got[d]) + 1 - k)
  BY <1>3, <1>4, <1>5 DEF Behind
<1>7. Len(got[d]) + Len(out[d]) - k <= sent[e]
  BY <1>4 DEF Written
<1>8. Head(out[d]).of = Len(got[d]) + 1
  <2>1. Head(out[d]).of = Len(got[d]) + 1 - k
    BY <1>3, <1>6 DEF Unit
  <2> QED BY ONLY <1>2, <1>5, <2>1
<1>9. Len(got[d]) < sent[e]
  <2>1. \A g, o, s \in Nat : o # 0 /\ g + o - 0 <= s => g < s
    BY ONLY TRUE
  <2>2. Len(got[d]) + Len(out[d]) - 0 <= sent[e]
    BY ONLY <1>5, <1>7
  <2> QED BY <1>2, <1>3, <2>1, <2>2
<1> QED BY <1>8, <1>9

LEMMA StepStreams ==
  ASSUME IInv, [Next]_vars
  PROVE  /\ Up!Next \/ UNCHANGED <<sent["client"], got["server"]>>
         /\ Down!Next \/ UNCHANGED <<sent["server"], got["client"]>>
<1>0. sent \in [Side -> Nat] /\ got \in [Side -> Seq(Nat)] /\ "client" \in Side /\ "server" \in Side
  BY DEF IInv, TypeOK, Side
<1>1. ASSUME NEW d \in Side, Send(d)
      PROVE  /\ Up!Next \/ UNCHANGED <<sent["client"], got["server"]>>
             /\ Down!Next \/ UNCHANGED <<sent["server"], got["client"]>>
  <2>1. got' = got /\ sent' = [sent EXCEPT ![d] = @ + 1]
    BY <1>1 DEF Send
  <2> QED BY <1>0, <2>1 DEF Up!Next, Up!Send, Down!Next, Down!Send, Side
<1>2. ASSUME NEW d \in Side, Receive(d)
      PROVE  /\ Up!Next \/ UNCHANGED <<sent["client"], got["server"]>>
             /\ Down!Next \/ UNCHANGED <<sent["server"], got["client"]>>
  <2>1. sent' = sent /\ out[d] # <<>>
    BY <1>2 DEF Receive
  <2>2. CASE Head(out[d]).cd # 0
    BY <1>2, <2>1, <2>2 DEF Receive
  <2>3. CASE Head(out[d]).cd = 0
    <3>1. got' = [got EXCEPT ![d] = Append(got[d], Head(out[d]).of)]
      BY <1>2, <2>3 DEF Receive
    <3>2. CASE d = "server"
      <4>1. Head(out[d]).of = Len(got[d]) + 1 /\ Len(got[d]) < sent["client"]
        BY <1>0, <2>1, <2>3, <3>2, NextUnit DEF Other
      <4> QED BY <1>0, <2>1, <3>1, <3>2, <4>1 DEF Up!Next, Up!Deliver
    <3>3. CASE d = "client"
      <4>1. Head(out[d]).of = Len(got[d]) + 1 /\ Len(got[d]) < sent["server"]
        BY <1>0, <2>1, <2>3, <3>3, NextUnit DEF Other
      <4> QED BY <1>0, <2>1, <3>1, <3>3, <4>1 DEF Down!Next, Down!Deliver
    <3> QED BY <3>2, <3>3 DEF Side
  <2> QED BY <2>2, <2>3
<1>3. CASE UNCHANGED ends
  BY <1>3 DEF ends
<1>4. \/ UNCHANGED ends
      \/ \E d \in Side : Send(d) \/ Receive(d)
  <2>1. CASE Handler
    BY <2>1 DEF Handler, do_start, do_resolve, do_connect, do_accept, Met, Resolved, Refuse, Joined, Quit
  <2>2. CASE Environment
    BY <2>2 DEF Environment, EditRules, Ask, Meet, Shut, Leave, ends
  <2>3. CASE \E d \in Side : do_read(d) \/ do_write(d)
    BY <2>3 DEF do_read, do_write, Wrote, Quit
  <2>4. CASE UNCHANGED vars
    BY <2>4 DEF vars
  <2> QED BY <2>1, <2>2, <2>3, <2>4 DEF Next
<1> QED BY <1>1, <1>2, <1>3, <1>4

(* What a peer sends is received by the other in order, unchanged and once *)
(* in each direction, for any socket size, any split into writes, and any  *)
(* amount of data.                                                         *)
THEOREM Implements == Spec => ImplementsStreams
<1>1. Init => Up!Init /\ Down!Init
  BY DEF Init, Up!Init, Down!Init, Side
<1>2. IInv /\ [Next]_vars => /\ [Up!Next]_<<sent["client"], got["server"]>>
                             /\ [Down!Next]_<<sent["server"], got["client"]>>
  BY StepStreams
<1> QED BY <1>1, <1>2, Invariance, PTL DEF Spec, ImplementsStreams, Up!Spec, Down!Spec

-----------------------------------------------------------------------------
(* What Relayed and Answered need besides fairness: whatever is on its way *)
(* there is a step that brings it on.                                      *)

\* The destination is met once it is known, and then both loops run.
Joins ==
  /\ pc \in {"connect", "accept", "relay"} => DSTIP # Port
  /\ DSTIP = Port => peer["server"] = "none" /\ sent["client"] = 0
  /\ peer["server"] \in {"none", "refused"} => \A d \in Side : sent[d] = 0
  /\ pc = "relay" => peer["server"] \notin {"none", "refused"}
  /\ pc = "left" => peer["server"] \in {"none", "refused"}
  /\ pc = "relay" => \A d \in Side : turn[d] # "off"
  /\ peer["client"] \in {"open", "shut", "gone"}

\* The handler that joins the two, a read, a write that has room, or the other's own read.
BringsOn(d) ==
  LET o == Other(d) IN
  \/ pc \in {"connect", "accept"} /\ peer["server"] \notin {"none", "refused"}
  \/ pc = "relay" /\ turn[d] = "read" /\ in[d] # <<>>
  \/ pc = "relay" /\ turn[d] = "write" /\ (buffer[d] = <<>> \/ Len(out[o]) < Cap)
  \/ peer[o] \in {"open", "shut"} /\ out[o] # <<>>
NoneHeldBack ==
  \A d \in Side :
    Len(got[Other(d)]) < sent[d] =>
      BringsOn(d) \/ peer[Other(d)] = "gone" \/ \E p \in Side : rst[p]

\* A handler that leads to an answer, or one that is under way.
NoneUnanswered ==
  CD # 0 /\ heard = <<>> /\ ~SeesEnd("client") =>
    \/ pc \in {"request", "resolve", "connect"}
    \/ peer["client"] \in {"open", "shut"} /\ out["client"] # <<>>
    \/ peer["client"] = "gone"

NeverStuck == NoneHeldBack /\ NoneUnanswered

LEMMA InitJoins == Init => Joins
  BY DEF Init, Joins, Side

\* Before the destination is met, the environment's steps change nothing that Joins speaks of.
LEMMA EnvironmentJoins ==
  ASSUME IInv, Joins, Environment
  PROVE  Joins'
<1>0. /\ peer \in [Side -> {"none", "refused", "open", "shut", "gone"}]
      /\ Side = {"client", "server"}
      /\ sent \in [Side -> Nat] /\ "client" \in Side /\ "server" \in Side
  BY DEF IInv, TypeOK, Side
<1>1. CASE EditRules \/ \E c \in 1 .. 3 : Ask(c)
  BY <1>1 DEF EditRules, Ask, session, relay, ends, Joins
<1>2. CASE \E how \in {"open", "refused"}, h \in V4 : Meet(how, h)
  <2>1. /\ pc \in {"connect", "accept"} /\ peer["server"] = "none"
        /\ UNCHANGED <<pc, DSTIP, sent, turn>> /\ peer'["client"] = peer["client"]
    BY <1>0, <1>2 DEF Meet, session, relay, ends
  <2> QED BY <2>1 DEF Joins
<1>3. ASSUME NEW d \in Side, Send(d) PROVE Joins'
  <2>1. /\ UNCHANGED <<pc, DSTIP, turn, peer>> /\ sent' = [sent EXCEPT ![d] = @ + 1]
        /\ peer[d] = "open" /\ (d = "client" => pc = "relay")
    BY <1>3 DEF Send, session, relay
  <2>2. sent'["server"] = sent["server"] \/ peer["server"] = "open"
    BY <1>0, <2>1
  <2>3. sent'["client"] = sent["client"] \/ pc = "relay"
    BY <1>0, <2>1
  <2> QED BY <1>0, <2>1, <2>2, <2>3 DEF Joins
<1>4. ASSUME NEW d \in Side, Receive(d) PROVE Joins'
  BY <1>4 DEF Receive, session, relay, Joins
<1>5. ASSUME NEW d \in Side, Shut(d) \/ Leave(d) PROVE Joins'
  <2>1. /\ UNCHANGED <<pc, DSTIP, turn, sent>> /\ peer[d] \in {"open", "shut"}
        /\ \E v \in {"shut", "gone"} : peer' = [peer EXCEPT ![d] = v]
    BY <1>5 DEF Shut, Leave, session, relay, ends
  <2>2. \/ peer'["server"] = peer["server"]
        \/ peer["server"] \in {"open", "shut"} /\ peer'["server"] \in {"shut", "gone"}
    BY <1>0, <2>1
  <2>3. peer'["client"] \in {peer["client"], "shut", "gone"}
    BY <1>0, <2>1
  <2> QED BY <2>1, <2>2, <2>3 DEF Joins
<1> QED BY <1>1, <1>2, <1>3, <1>4, <1>5 DEF Environment

LEMMA HandlerJoins ==
  ASSUME IInv, Joins, Handler
  PROVE  Joins'
<1>1. CASE do_start
  <2>1. UNCHANGED <<DSTIP, sent, turn, peer>> /\ pc = "request" /\ pc' \in {"resolve", "left"}
    BY <1>1 DEF do_start, session, relay, ends
  <2> QED BY <2>1 DEF Joins, IInv, Phases
<1>2. ASSUME Quit, UNCHANGED DSTIP PROVE Joins'
  BY <1>2 DEF Quit, relay, ends, Joins
<1>3. CASE do_resolve
  <2>1. peer["server"] = "none" /\ (\A d \in Side : sent[d] = 0) /\ pc = "resolve"
    BY <1>3 DEF do_resolve, IInv, Phases, Joins
  <2>2. ASSUME NEW a \in Answers, v4(a) # {}, Resolved(a) PROVE Joins'
    <3>1. DSTIP' # Port
      BY <2>2, Chosen, SocksAssumption DEF Resolved
    <3>2. /\ UNCHANGED <<sent, turn, peer>>
          /\ pc' \in {"connect", "accept", "left", "exited"}
      BY <2>2 DEF Resolved, Refuse, Quit, relay, ends
    <3> QED BY <2>1, <3>1, <3>2 DEF Joins
  <2>3. CASE pc' = "left" /\ UNCHANGED <<session, relay, peer, ends>>
    BY <2>1, <2>3 DEF session, relay, ends, Joins
  <2>4. CASE Quit /\ UNCHANGED session
    BY <1>2, <2>4 DEF session
  <2> QED BY <1>3, <2>2, <2>3, <2>4 DEF do_resolve
<1>4. ASSUME NEW of, Met(of), pc \in {"connect", "accept"} PROVE Joins'
  <2>1. UNCHANGED DSTIP
    BY <1>4 DEF Met, session
  <2>2. CASE peer["server"] = "refused" /\ Refuse(of) /\ ~rst["client"]
    BY <2>1, <2>2 DEF Refuse, relay, ends, Joins
  <2>3. CASE Quit
    BY <1>2, <2>1, <2>3
  <2>4. CASE peer["server"] \notin {"none", "refused"} /\ Joined(of)
    BY <1>4, <2>1, <2>4 DEF Joined, ends, Joins
  <2> QED BY <1>4, <2>2, <2>3, <2>4 DEF Met, Refuse
<1>5. CASE do_connect \/ do_accept
  BY <1>4, <1>5 DEF do_connect, do_accept
<1> QED BY <1>1, <1>3, <1>5 DEF Handler

LEMMA RelayJoins ==
  ASSUME IInv, Joins, NEW d \in Side, do_read(d) \/ do_write(d)
  PROVE  Joins'
<1>0. turn \in [Side -> {"off", "read", "write"}]
  BY DEF IInv, TypeOK
<1>1. UNCHANGED <<DSTIP, sent, peer>> /\ (pc' = pc \/ pc' = "exited")
  BY DEF do_read, do_write, Quit, Wrote, session, relay, ends
<1>2. \/ turn' = turn
      \/ \E v \in {"read", "write"} : turn' = [turn EXCEPT ![d] = v]
  BY DEF do_read, do_write, Quit, Wrote, relay
<1>3. \A e \in Side : turn[e] # "off" => turn'[e] # "off"
  BY <1>0, <1>2
<1> QED BY <1>1, <1>3 DEF Joins

LEMMA NextJoins == IInv /\ Joins /\ [Next]_vars => Joins'
<1>1. IInv /\ Joins /\ UNCHANGED vars => Joins'
  BY DEF vars, session, relay, ends, Joins
<1> QED BY <1>1, EnvironmentJoins, HandlerJoins, RelayJoins DEF Next

(* A unit that has not arrived is in the first socket, in the buffer of    *)
(* its direction, or in the second socket; there is no fourth place.       *)
LEMMA HeldSomewhere ==
  ASSUME IInv, Joins, NEW d \in Side, Len(got[Other(d)]) < sent[d],
         peer[Other(d)] # "gone", \A p \in Side : ~rst[p]
  PROVE  BringsOn(d)
<1> DEFINE o == Other(d)
<1>0. /\ o \in Side /\ d \in {"client", "server"} /\ o # d
      /\ in[d] \in Seq(Nat) /\ buffer[d] \in Seq(Nat) /\ out[o] \in Seq(Item) /\ sent[d] \in Nat
      /\ Len(got[o]) \in Nat /\ peer \in [Side -> {"none", "refused", "open", "shut", "gone"}]
      /\ turn[d] \in {"off", "read", "write"} /\ sent[d] > 0
      /\ pc \in {"request", "resolve", "connect", "accept", "relay", "left", "exited"}
  BY DEF IInv, TypeOK, Side, Other
<1>1. DSTIP # Port /\ peer["server"] \notin {"none", "refused"}
  BY <1>0 DEF Joins
<1>2. pc \in {"connect", "accept", "relay"}
  <2>1. pc # "exited"
    BY <1>1 DEF IInv, EndsByReset
  <2> QED BY <1>0, <1>1, <2>1 DEF IInv, Phases, Joins
<1>3. CASE pc \in {"connect", "accept"}
  BY <1>1, <1>3 DEF BringsOn
<1>4. CASE pc = "relay" /\ out[o] # <<>>
  <2>1. peer["client"] \notin {"none", "refused"}
    BY DEF Joins
  <2>2. o \in {"client", "server"}
    BY <1>0 DEF Side
  <2>3. peer[o] \in {"open", "shut"}
    BY <1>0, <1>1, <2>1, <2>2
  <2> QED BY <1>4, <2>3 DEF BringsOn
<1>5. CASE pc = "relay" /\ out[o] = <<>>
  <2>1. turn[d] \in {"read", "write"}
    BY <1>0, <1>5 DEF Joins
  <2>2. CASE turn[d] = "write"
    BY <1>5, <2>2, SocksAssumption DEF BringsOn
  <2>3. CASE turn[d] = "read"
    <3>1. buffer[d] = <<>>
      BY <2>3 DEF IInv, Sockets
    <3>2. PICK k \in 0 .. Len(out[o]) : Flow(d, k)
      BY DEF IInv, Flows
    <3>3. k = 0 /\ Len(out[o]) = 0 /\ Len(buffer[d]) = 0
      BY <1>5, <3>1, <3>2
    <3>4. sent[d] = Taken(d, k) + Len(in[d])
      BY <1>5, <3>2 DEF Flow
    <3>5. Taken(d, k) = Len(got[o])
      BY <1>0, <3>3 DEF Taken, Written
    <3>6. sent[d] = Len(got[o]) + Len(in[d]) /\ Len(got[o]) < sent[d]
      BY <3>4, <3>5
    <3>7. in[d] # <<>>
      <4>1. \A a, b \in Nat : b < a => a # b + 0
        OBVIOUS
      <4> QED BY <1>0, <3>6, <4>1
    <3> QED BY <1>5, <2>3, <3>7 DEF BringsOn
  <2> QED BY <2>1, <2>2, <2>3
<1> QED BY <1>2, <1>3, <1>4, <1>5

\* Past the request and the attempt to connect, the replies of Protocol are on their way.
LEMMA AnswerSomewhere ==
  ASSUME IInv, Joins
  PROVE  NoneUnanswered
<1> SUFFICES ASSUME CD # 0, heard = <<>>, ~SeesEnd("client"),
                    pc \notin {"request", "resolve", "connect"}, peer["client"] # "gone"
             PROVE  peer["client"] \in {"open", "shut"} /\ out["client"] # <<>>
  BY DEF NoneUnanswered
<1>1. out["client"] # <<>>
  <2>1. CASE pc \in {"left", "exited"}
    BY <2>1 DEF SeesEnd, Closed
  <2>2. CASE pc \in {"accept", "relay"}
    <3>1. PICK k \in 0 .. Len(out["client"]) :
            heard \o SubSeq(out["client"], 1, k) \in Expected
      BY <2>2 DEF IInv, Protocol
    <3>2. <<>> \notin Expected
      BY <2>2 DEF Expected, IInv, Phases
    <3>3. out["client"] = <<>> => heard \o SubSeq(out["client"], 1, k) = <<>>
      BY <3>1
    <3> QED BY <3>1, <3>2, <3>3
  <2> QED BY <2>1, <2>2 DEF IInv, TypeOK
<1>2. peer["client"] \in {"open", "shut"}
  BY DEF Joins
<1> QED BY <1>1, <1>2

(* For any amount of data and any sizes of sockets, reads and writes: what *)
(* a peer has sent and the other not received is brought on by a handler   *)
(* or by the other's own read, until somebody resets; and a client that    *)
(* has asked has its answer before it.                                     *)
THEOREM NoStandstill == Spec => []NeverStuck
<1>1. Init => IInv /\ Joins
  BY InitInv, InitJoins
<1>2. IInv /\ Joins /\ [Next]_vars => IInv' /\ Joins'
  BY NextInv, NextJoins
<1>3. IInv /\ Joins => NeverStuck
  BY HeldSomewhere, AnswerSomewhere DEF NeverStuck, NoneHeldBack
<1> QED BY <1>1, <1>2, <1>3, PTL DEF Spec
=============================================================================
