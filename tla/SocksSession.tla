---------------------------- MODULE SocksSession ----------------------------
(***************************************************************************)
(* socks_server (src/311552007_np_project4/socks_server.cpp): a child that *)
(* the server has forked for a connection, with the session it serves,     *)
(* from the request to the relay in both directions, its client, and the   *)
(* host the session is joined to.                                          *)
(*                                                                         *)
(* An action is one asio handler, from its call to its return; the thread  *)
(* runs them one after another.  Data are numbered units, and a socket     *)
(* holds Cap of them each way.  A peer is "open", has "shut" its sending   *)
(* half, or is "gone"; what is written to one that is gone comes back as a *)
(* reset, after which the socket gives errors.                             *)
(***************************************************************************)
EXTENDS Integers, Sequences

CONSTANTS
  Addr, V4,  \* addresses, and those of them that are IPv4
  Port,      \* the port do_bind listens on
  Answers,   \* what the resolver may return: sequences of addresses, <<>> an error
  Rules,     \* what socks.conf may permit: sets of <<CD, address>>
  Cap,       \* units a socket holds in each direction
  MaxSent,   \* bound: units each peer sends
  MaxEdits   \* bound: edits of socks.conf

Side == {"client", "server"}
Other(d) == IF d = "client" THEN "server" ELSE "client"

ASSUME SocksAssumption ==
  /\ V4 \subseteq Addr /\ Port \notin Addr
  /\ Answers \subseteq Seq(Addr) /\ Rules \subseteq SUBSET ({1, 2} \X Addr)
  /\ Cap \in Nat \ {0} /\ MaxSent \in [Side -> Nat] /\ MaxEdits \in Nat

VARIABLES
  socks_conf, edits,  \* what the file permits now, and how often it was edited
  pc,       \* "request", "resolve", "connect", "accept", "relay"; "left": the session is
            \* destroyed, the process stays; "exited"
  CD,       \* of the request, 0 before it
  DSTIP,    \* the address chosen, Port before that
  host,     \* the address at the other end of server_socket_, Port before that
  turn,     \* side -> what its loop waits for: "off", "read" (from it), "write" (to the other)
  buffer,   \* side -> what was read from it and is not yet written to the other
  peer,     \* side -> "none" (not met), "refused", "open", "shut", "gone"
  rst,      \* side -> has it reset the connection?
  in, out,  \* side -> units on their way from it, and replies and units on their way to it
  sent, got,\* side -> how many units it sent; the units it received
  heard,    \* replies the client received
  checked   \* ghost: what socks.conf permitted when it was read

file == <<socks_conf, edits>>
session == <<CD, DSTIP, host, checked>>
relay == <<turn, buffer>>
ends == <<sent, got, heard>>
vars == <<file, pc, session, relay, peer, rst, in, out, ends>>

Reply(c, of) == [cd |-> c, of |-> of]
Unit(n) == [cd |-> 0, of |-> n]

Closed(d) == pc = "exited" \/ (pc = "left" /\ d = "client")

-----------------------------------------------------------------------------
(* The peers and the file.                                                 *)

EditRules ==
  /\ edits < MaxEdits /\ edits' = edits + 1 /\ socks_conf' \in Rules \ {socks_conf}
  /\ UNCHANGED <<pc, session, relay, peer, rst, in, out, ends>>

Ask(c) ==
  /\ pc = "request" /\ CD = 0 /\ peer["client"] = "open" /\ CD' = c
  /\ UNCHANGED <<file, pc, DSTIP, host, checked, relay, peer, rst, in, out, ends>>

(* The destination takes the connection, or any host connects to the port, *)
(* which is open to all; or that fails.                                    *)
Meet(how, h) ==
  /\ pc \in {"connect", "accept"} /\ peer["server"] = "none"
  /\ pc = "connect" => h = DSTIP
  /\ peer' = [peer EXCEPT !["server"] = how] /\ host' = h
  /\ UNCHANGED <<file, pc, CD, DSTIP, checked, relay, rst, in, out, ends>>

\* A client sends once it has the last reply it expects; a server at once.
Granted == Len(heard) = CD /\ heard[CD].cd = 90
Send(d) ==
  /\ peer[d] = "open" /\ ~Closed(d) /\ (d = "client" => pc = "relay" /\ Granted)
  /\ sent[d] < MaxSent[d] /\ Len(in[d]) < Cap
  /\ sent' = [sent EXCEPT ![d] = @ + 1]
  /\ in' = [in EXCEPT ![d] = Append(@, sent'[d])]
  /\ UNCHANGED <<file, pc, session, relay, peer, rst, out, got, heard>>

Receive(d) ==
  /\ peer[d] \in {"open", "shut"} /\ out[d] # <<>>
  /\ out' = [out EXCEPT ![d] = Tail(@)]
  /\ IF Head(out[d]).cd = 0
     THEN got' = [got EXCEPT ![d] = Append(@, Head(out[d]).of)] /\ heard' = heard
     ELSE heard' = Append(heard, Head(out[d])) /\ got' = got
  /\ UNCHANGED <<file, pc, session, relay, peer, rst, in, sent>>

Shut(d) ==
  /\ peer[d] = "open" /\ peer' = [peer EXCEPT ![d] = "shut"]
  /\ UNCHANGED <<file, pc, session, relay, rst, in, out, ends>>

\* A peer that leaves unread what it was sent resets the connection.
Leave(d) ==
  /\ peer[d] \in {"open", "shut"} /\ peer' = [peer EXCEPT ![d] = "gone"]
  /\ rst' = [rst EXCEPT ![d] = @ \/ out[d] # <<>>] /\ out' = [out EXCEPT ![d] = <<>>]
  /\ UNCHANGED <<file, pc, session, relay, in, ends>>

-----------------------------------------------------------------------------
(* The session before the relay.                                           *)

\* exit(0), or an exception that ends main.  The kernel delivers what was written, unless
\* it has to reset the connection because of what was not read.
Kept(d) == IF in[d] = <<>> THEN {out[d]} ELSE {SubSeq(out[d], 1, k) : k \in 0 .. Len(out[d])}
Quit ==
  /\ pc' = "exited"
  /\ \E c \in Kept("client"), s \in Kept("server") :
       out' = [d \in Side |-> IF d = "client" THEN c ELSE s]
  /\ UNCHANGED <<file, relay, peer, rst, in, ends>>

\* Eight bytes into a socket that has sent eight at most: they always fit.
do_reply(c, of) ==
  IF peer["client"] = "gone"
  THEN rst' = [rst EXCEPT !["client"] = TRUE] /\ out' = out
  ELSE rst' = rst /\ out' = [out EXCEPT !["client"] = Append(@, Reply(c, of))]

do_start ==
  /\ pc = "request"
  /\ \/ CD # 0 /\ pc' = "resolve"
     \/ CD = 0 /\ peer["client"] # "open" /\ pc' = "left"
  /\ UNCHANGED <<file, session, relay, peer, rst, in, out, ends>>

\* printInfo throws when the client has reset; else a reply, the session's last act.
Refuse(of) ==
  IF rst["client"] THEN Quit
  ELSE do_reply(91, of) /\ pc' = "left" /\ UNCHANGED <<file, relay, peer, in, ends>>

pass_firewallType(ip) == CD \in {p[1] : p \in socks_conf}
pass_firewall(ip) == <<CD, ip>> \in socks_conf

v4(a) == {i \in DOMAIN a : a[i] \in V4}
chosenFirst(a) == a[1]
chosen(a) == a[CHOOSE i \in v4(a) : \A j \in v4(a) : i <= j]

Resolved(a) ==
  /\ DSTIP' = chosen(a) /\ checked' = socks_conf /\ UNCHANGED <<CD, host>>
  /\ \/ /\ pass_firewall(DSTIP') /\ CD = 1 /\ pc' = "connect"
        /\ UNCHANGED <<file, relay, peer, rst, in, out, ends>>
     \/ /\ pass_firewall(DSTIP') /\ CD = 2 /\ pc' = "accept" /\ do_reply(90, Port)
        /\ UNCHANGED <<file, relay, peer, in, ends>>
     \/ ~pass_firewall(DSTIP') /\ Refuse(DSTIP')

(* Without an address the handler does nothing and the session ends; with  *)
(* none that is IPv4 it uses the end iterator, which ends the process.     *)
do_resolve ==
  /\ pc = "resolve"
  /\ \E a \in Answers :
       \/ /\ a = <<>> /\ pc' = "left"
          /\ UNCHANGED <<file, session, relay, peer, rst, in, out, ends>>
       \/ a # <<>> /\ v4(a) = {} /\ Quit /\ UNCHANGED session
       \/ v4(a) # {} /\ Resolved(a)

\* Both loops start while the last reply is under way.
Joined(of) ==
  /\ do_reply(90, of) /\ pc' = "relay" /\ turn' = [d \in Side |-> "read"]
  /\ UNCHANGED <<file, buffer, peer, in, ends>>

Met(of) ==
  /\ \/ peer["server"] = "refused" /\ Refuse(of)
     \/ peer["server"] \notin {"none", "refused"} /\ rst["client"] /\ Quit
     \/ peer["server"] \notin {"none", "refused"} /\ ~rst["client"] /\ Joined(of)
  /\ UNCHANGED session

do_connectOk == pc = "connect" /\ peer["server"] # "refused" /\ Met(DSTIP)
do_connect == pc = "connect" /\ Met(DSTIP)
do_acceptDst == pc = "accept" /\ Met(DSTIP)
do_accept == pc = "accept" /\ Met(Port)

-----------------------------------------------------------------------------
(* The relay: a loop per side, which reads what has come from it and       *)
(* writes all of that to the other before it reads again.  Errors end the  *)
(* process; end of file does not, it is zero units to write, and the loop  *)
(* goes round again.                                                       *)

failedEof(d) == rst[d] \/ peer[d] = "gone"
failed(d) == rst[d]

do_read(d) ==
  /\ pc = "relay" /\ turn[d] = "read"
  /\ \/ \E n \in 1 .. Len(in[d]) :
          /\ buffer' = [buffer EXCEPT ![d] = SubSeq(in[d], 1, n)]
          /\ in' = [in EXCEPT ![d] = SubSeq(@, n + 1, Len(@))]
          /\ turn' = [turn EXCEPT ![d] = "write"]
          /\ UNCHANGED <<file, pc, peer, rst, out, ends>>
     \/ /\ in[d] = <<>> /\ peer[d] \in {"shut", "gone"} /\ ~failed(d)
        /\ turn' = [turn EXCEPT ![d] = "write"]
        /\ UNCHANGED <<file, pc, buffer, peer, rst, in, out, ends>>
     \/ in[d] = <<>> /\ failed(d) /\ Quit
  /\ UNCHANGED session

WroteSome(d, n) ==
  /\ buffer' = [buffer EXCEPT ![d] = <<>>]
  /\ turn' = [turn EXCEPT ![d] = "read"]
  /\ UNCHANGED <<file, pc, peer, in, ends>>
WroteOnce(d, n) ==
  /\ buffer' = [buffer EXCEPT ![d] = SubSeq(@, n + 1, Len(@))]
  /\ turn' = IF n = Len(buffer[d]) THEN [turn EXCEPT ![d] = "off"] ELSE turn
  /\ UNCHANGED <<file, pc, peer, in, ends>>

\* async_write goes on until everything is written.
Wrote(d, n) ==
  /\ buffer' = [buffer EXCEPT ![d] = SubSeq(@, n + 1, Len(@))]
  /\ turn' = IF n = Len(buffer[d]) THEN [turn EXCEPT ![d] = "read"] ELSE turn
  /\ UNCHANGED <<file, pc, peer, in, ends>>

do_write(d) ==
  LET o == Other(d) IN
  /\ pc = "relay" /\ turn[d] = "write"
  /\ \/ buffer[d] = <<>> /\ Wrote(d, 0) /\ UNCHANGED <<rst, out>>
     \/ buffer[d] # <<>> /\ rst[o] /\ Quit
     \/ /\ ~rst[o] /\ peer[o] = "gone"
        /\ \E n \in 1 .. Len(buffer[d]) : Wrote(d, n)
        /\ rst' = [rst EXCEPT ![o] = TRUE] /\ out' = out
     \/ /\ ~rst[o] /\ peer[o] # "gone"
        /\ \E n \in 1 .. Len(buffer[d]) :
             /\ Len(out[o]) + n <= Cap /\ Wrote(d, n)
             /\ out' = [out EXCEPT ![o] = @ \o [i \in 1 .. n |-> Unit(buffer[d][i])]]
        /\ rst' = rst
  /\ UNCHANGED session

-----------------------------------------------------------------------------
Init ==
  /\ socks_conf \in Rules /\ edits = 0 /\ pc = "request"
  /\ CD = 0 /\ DSTIP = Port /\ host = Port /\ checked = {}
  /\ turn = [d \in Side |-> "off"] /\ buffer = [d \in Side |-> <<>>]
  /\ peer = [d \in Side |-> IF d = "client" THEN "open" ELSE "none"]
  /\ rst = [d \in Side |-> FALSE]
  /\ in = [d \in Side |-> <<>>] /\ out = [d \in Side |-> <<>>]
  /\ sent = [d \in Side |-> 0] /\ got = [d \in Side |-> <<>>] /\ heard = <<>>

Handler == do_start \/ do_resolve \/ do_connect \/ do_accept
Environment ==
  \/ EditRules \/ (\E c \in 1 .. 3 : Ask(c))
  \/ \E how \in {"open", "refused"}, h \in V4 : Meet(how, h)
  \/ \E d \in Side : Send(d) \/ Receive(d) \/ Shut(d) \/ Leave(d)

Next == Handler \/ Environment \/ \E d \in Side : do_read(d) \/ do_write(d)

(* The process runs its handlers; a connection attempt ends somehow.  What *)
(* peers do, reading included, is up to them.                              *)
Fairness ==
  /\ WF_vars(Handler)
  /\ WF_vars(pc = "connect" /\ \E how \in {"open", "refused"}, h \in V4 : Meet(how, h))
  /\ \A d \in Side : WF_vars(do_read(d)) /\ WF_vars(do_write(d))

Spec == Init /\ [][Next]_vars
FairSpec == Spec /\ Fairness

-----------------------------------------------------------------------------
(* Properties.                                                             *)

Answer == [cd : {90, 91}, of : V4 \cup {Port}]
Item == [cd : {0}, of : Nat] \cup Answer

\* Every variable has its type (the file, the session, its sockets and its peers).
TypeOK ==
  /\ socks_conf \in Rules /\ edits \in 0 .. MaxEdits
  /\ pc \in {"request", "resolve", "connect", "accept", "relay", "left", "exited"}
  /\ CD \in 0 .. 3 /\ DSTIP \in V4 \cup {Port} /\ host \in V4 \cup {Port}
  /\ checked \in Rules \cup {{}}
  /\ turn \in [Side -> {"off", "read", "write"}] /\ buffer \in [Side -> Seq(Nat)]
  /\ peer \in [Side -> {"none", "refused", "open", "shut", "gone"}]
  /\ rst \in [Side -> BOOLEAN] /\ in \in [Side -> Seq(Nat)]
  /\ out \in [Side -> Seq(Item)]
  /\ sent \in [Side -> Nat] /\ got \in [Side -> Seq(Nat)] /\ heard \in Seq(Answer)

(* What either peer sends reaches the other unchanged, in order and once,  *)
(* through the two buffers and writes of any size: each direction          *)
(* implements Stream.                                                      *)
Up == INSTANCE Stream WITH sent <- sent["client"], got <- got["server"]
Down == INSTANCE Stream WITH sent <- sent["server"], got <- got["client"]
ImplementsStreams == Up!Spec /\ Down!Spec

IsReply(x) == x.cd # 0
Expected ==
  CASE pc = "relay" /\ CD = 1 -> {<<Reply(90, DSTIP)>>}
    [] pc = "relay" /\ CD = 2 -> {<<Reply(90, Port), Reply(90, Port)>>}
    [] pc = "accept" -> {<<Reply(90, Port)>>}
    [] pc = "left" -> {<<>>, <<Reply(91, DSTIP)>>, <<Reply(90, Port), Reply(91, Port)>>}
    [] OTHER -> {<<>>}

(* SOCKS 4 as the client sees it: one reply to CONNECT, two that name the  *)
(* same port to BIND, and none of the destination's units before the last. *)
Protocol ==
  \E k \in 0 .. Len(out["client"]) :
    /\ \A j \in DOMAIN out["client"] : IsReply(out["client"][j]) <=> j <= k
    /\ k > 0 => got["client"] = <<>>
    /\ pc # "exited" /\ peer["client"] # "gone" =>
         heard \o SubSeq(out["client"], 1, k) \in Expected

True(r, i) ==  \* of reply r, the i-th one
  IF r.cd = 90
  THEN /\ <<CD, DSTIP>> \in checked
       /\ i = CD => peer["server"] \notin {"none", "refused"} /\ (CD = 1 => host = DSTIP)
  ELSE (<<CD, DSTIP>> \in checked => peer["server"] = "refused") /\ Closed("client")

(* Replies are true: 90 means that socks.conf, when it was read, permitted *)
(* the command and the address the client asked for, and the last 90 that  *)
(* the session is joined: by CONNECT, to that address; by BIND, to whoever *)
(* connected first, as do_accept compares it with nothing.  91 means that  *)
(* it was not permitted or that nobody was met, and that the connection is *)
(* closed.                                                                 *)
Truthful == \A i \in DOMAIN heard : True(heard[i], i)

(* The relay ends by a reset and by nothing else: a peer that has shut its *)
(* sending half can still be sent to.                                      *)
EndsByReset == pc = "exited" => DSTIP = Port \/ \E d \in Side : rst[d]

(* Whoever reads gets what was sent to it, whatever the other direction    *)
(* does, until one of the two resets the connection.                       *)
Relayed ==
  \A d \in Side :
    WF_vars(Receive(Other(d))) =>
      \A n \in 1 .. MaxSent[d] :
        sent[d] >= n ~> \/ Len(got[Other(d)]) >= n \/ peer[Other(d)] = "gone"
                        \/ \E p \in Side : rst[p]

SeesEnd(d) == Closed(d) /\ out[d] = <<>>

\* A client that asks gets an answer, or at least the end of the connection.
Answered ==
  WF_vars(Receive("client")) =>
    (CD # 0 ~> heard # <<>> \/ SeesEnd("client") \/ peer["client"] = "gone")

(* "Download files larger than 1GB completely": when the destination has   *)
(* sent all and closed, a client that reads comes to the end of the file.  *)
DownloadEnds ==
  WF_vars(Receive("client")) =>
    (pc = "relay" /\ peer["server"] = "gone" ~>
       SeesEnd("client") \/ peer["client"] = "gone")
=============================================================================
