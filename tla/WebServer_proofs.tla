--------------------------- MODULE WebServer_proofs ---------------------------
(***************************************************************************)
(* What holds of the two web servers for any number of browsers, whatever  *)
(* they ask for and however long it is: an answer is whole or missing, and *)
(* no two programs hold each other's connections.                          *)
(*                                                                         *)
(* At the end, that a browser that waits has somebody to go on for it.     *)
(***************************************************************************)
EXTENDS WebServer, TLAPS

\* A program that has a connection is one that runs, whose own the server has closed.
Holders ==
  \A c, d \in Conn :
    c \in holds[d] => program = "http" /\ cgi[c] = "running" /\ "server" \notin holds[c]

\* Nothing answers before the request is handled, and then what answers has its connection.
Answering ==
  \A c \in Conn :
    /\ cgi[c] # "none" => conn[c] = "handled"
    /\ cgi[c] = "running" => IF program = "http" THEN c \in holds[c] ELSE wrote[c] = Size

Reading == \A c \in Conn : up /\ conn[c] = "reading" => "server" \in holds[c]

\* Half an answer is one that is being written, or was for a browser that has left.
Partial == \A c \in Conn : wrote[c] \in {0, Size} \/ gone[c] \/ cgi[c] = "running"

IInv == TypeOK /\ Holders /\ Answering /\ Reading /\ Partial /\ NoMutualHold /\ WholeAnswer

-----------------------------------------------------------------------------
LEMMA InitInv == Init => IInv
<1> SUFFICES ASSUME Init PROVE IInv
  OBVIOUS
<1>1. TypeOK
  BY WebAssumption DEF Init, TypeOK
<1>2. Holders /\ Answering /\ Reading /\ Partial /\ NoMutualHold
  BY DEF Init, Holders, Answering, Reading, Partial, NoMutualHold
<1>3. WholeAnswer
  BY DEF Init, WholeAnswer
<1> QED BY <1>1, <1>2, <1>3 DEF IInv

(* A browser's steps change neither who holds what nor what was written.   *)
LEMMA BrowserInv ==
  ASSUME IInv, NEW c \in Conn, Connect(c) \/ Ask(c) \/ Leave(c) \/ Receive(c)
  PROVE  IInv'
<1>0. /\ program' = program /\ up' = up /\ cgi' = cgi /\ holds' = holds /\ wrote' = wrote
      /\ end' = end
  BY DEF Connect, Ask, Leave, Receive, browser
<1>1. TypeOK'
  <2>1. CASE Connect(c) \/ Ask(c) \/ Leave(c)
    BY <2>1 DEF Connect, Ask, Leave, browser, IInv, TypeOK
  <2>2. CASE Receive(c)
    BY <2>2, WebAssumption DEF Receive, IInv, TypeOK
  <2> QED BY <2>1, <2>2
<1>2. Holders' /\ NoMutualHold'
  BY <1>0 DEF IInv, Holders, NoMutualHold
<1>3. \A d \in Conn : conn'[d] = conn[d] \/ (conn[d] = "none" /\ conn'[d] = "queued")
  BY DEF Connect, Ask, Leave, Receive, IInv, TypeOK
<1>4. Answering' /\ Reading'
  BY <1>0, <1>3 DEF IInv, Answering, Reading
<1>5. \A d \in Conn : gone[d] => gone'[d]
  BY DEF Connect, Ask, Leave, Receive, browser, IInv, TypeOK
<1>6. Partial'
  BY <1>0, <1>5 DEF IInv, Partial
<1>7. \A d \in Conn : end[d] # "none" => got'[d] = got[d]
  BY DEF Connect, Ask, Leave, Receive, Present, browser, IInv, TypeOK
<1>8. WholeAnswer'
  BY <1>0, <1>7 DEF IInv, WholeAnswer
<1> QED BY <1>1, <1>2, <1>4, <1>6, <1>8 DEF IInv

(* A clean end comes when nobody holds the connection: half an answer is   *)
(* held by the program that writes it.                                     *)
LEMMA SeesEndInv ==
  ASSUME IInv, NEW c \in Conn, SeesEnd(c)
  PROVE  IInv'
<1>0. UNCHANGED <<program, up, conn, asked, gone, got, cgi, holds, wrote>>
  BY DEF SeesEnd
<1>1. TypeOK'
  BY DEF SeesEnd, IInv, TypeOK
<1>2. Holders' /\ Answering' /\ Reading' /\ Partial' /\ NoMutualHold'
  BY <1>0 DEF IInv, Holders, Answering, Reading, Partial, NoMutualHold
<1>3. \A d \in Conn : d # c => end'[d] = end[d]
  BY DEF SeesEnd, IInv, TypeOK
<1>4. end'[c] = "eof" => got[c] \in {0, Size}
  <2> SUFFICES ASSUME end'[c] = "eof" PROVE got[c] \in {0, Size}
    OBVIOUS
  <2>1. got[c] = wrote[c] /\ holds[c] = {} /\ ~gone[c]
    BY DEF SeesEnd, Present, IInv, TypeOK
  <2>2. cgi[c] = "running" => wrote[c] = Size
    BY <2>1 DEF IInv, Answering
  <2> QED BY <2>1, <2>2 DEF IInv, Partial
<1>5. end'[c] = "reset" => c \in Long \/ ~up
  <2> SUFFICES ASSUME end'[c] = "reset", c \notin Long PROVE ~up
    OBVIOUS
  <2>1. conn[c] # "handled" \/ conn[c] = "queued"
    BY DEF SeesEnd, Unread, IInv, TypeOK
  <2>2. CASE conn[c] = "queued"
    BY <2>2 DEF SeesEnd, Listening
  <2>3. CASE conn[c] = "reading"
    BY <2>3 DEF SeesEnd, IInv, Reading
  <2> QED BY <2>1, <2>2, <2>3 DEF SeesEnd, Present, IInv, TypeOK
<1>6. WholeAnswer'
  BY <1>0, <1>3, <1>4, <1>5 DEF IInv, WholeAnswer
<1> QED BY <1>1, <1>2, <1>6 DEF IInv

\* A connection in the queue is nobody's, and no program is its.
LEMMA AcceptInv ==
  ASSUME IInv, NEW c \in Conn, do_accept(c)
  PROVE  IInv'
<1>0. /\ UNCHANGED <<program, up, asked, gone, got, end, cgi, wrote>> /\ conn[c] = "queued"
      /\ conn' = [conn EXCEPT ![c] = "reading"] /\ holds' = [holds EXCEPT ![c] = {"server"}]
  BY DEF do_accept, browser
<1>1. TypeOK'
  BY <1>0 DEF IInv, TypeOK
<1>2. /\ holds'[c] = {"server"} /\ \A d \in Conn : d # c => holds'[d] = holds[d]
      /\ conn'[c] = "reading" /\ \A d \in Conn : d # c => conn'[d] = conn[d]
  BY <1>0 DEF IInv, TypeOK
<1>3. cgi[c] = "none" /\ \A d \in Conn : c \notin holds[d]
  BY <1>0 DEF IInv, TypeOK, Answering, Holders
<1>4. Holders'
  BY <1>0, <1>2, <1>3, WebAssumption DEF IInv, Holders
<1>5. Answering' /\ Reading'
  BY <1>0, <1>2, <1>3 DEF IInv, Answering, Reading
<1>6. Partial' /\ WholeAnswer'
  BY <1>0 DEF IInv, Partial, WholeAnswer
<1>7. NoMutualHold'
  BY <1>2, <1>3, WebAssumption DEF IInv, NoMutualHold
<1> QED BY <1>1, <1>4, <1>5, <1>6, <1>7 DEF IInv

(* What every handler of a request finds: the server has the connection,   *)
(* and nothing answers on it yet.                                          *)
LEMMA AtRead ==
  ASSUME IInv, NEW c \in Conn, do_read(c)
  PROVE  /\ program' = program /\ asked' = asked /\ gone' = gone /\ got' = got /\ end' = end
         /\ up /\ conn[c] = "reading" /\ conn' = [conn EXCEPT ![c] = "handled"]
         /\ conn'[c] = "handled" /\ \A d \in Conn : d # c => conn'[d] = conn[d]
         /\ conn' \in [Conn -> {"none", "queued", "reading", "handled"}]
         /\ "server" \in holds[c] /\ cgi[c] = "none" /\ \A d \in Conn : c \notin holds[d]
<1>1. conn[c] = "reading" /\ conn' = [conn EXCEPT ![c] = "handled"] /\ up
  BY DEF do_read
<1>2. cgi[c] = "none"
  BY <1>1 DEF IInv, TypeOK, Answering
<1> QED BY <1>1, <1>2 DEF do_read, browser, IInv, TypeOK, Reading, Holders

\* The connection is dropped and nothing else happens, when the read or the fork has failed.
LEMMA DropInv ==
  ASSUME IInv, NEW c \in Conn, do_read(c), Drops(c), UNCHANGED <<up, cgi, wrote>>
  PROVE  IInv'
<1>0. /\ holds' \in [Conn -> SUBSET (Conn \cup {"server"})]
      /\ holds'[c] = holds[c] \ {"server"} /\ \A d \in Conn : d # c => holds'[d] = holds[d]
  BY DEF Drops, IInv, TypeOK
<1>1. TypeOK'
  BY <1>0, AtRead DEF IInv, TypeOK
<1>2. Holders' /\ NoMutualHold'
  BY <1>0, AtRead, WebAssumption DEF IInv, Holders, NoMutualHold
<1>3. Answering' /\ Reading'
  BY <1>0, AtRead, WebAssumption DEF IInv, Answering, Reading
<1>4. Partial' /\ WholeAnswer'
  BY AtRead DEF IInv, Partial, WholeAnswer
<1> QED BY <1>1, <1>2, <1>3, <1>4 DEF IInv

\* The server ends: no connection is its any more, and its own sessions end with it.
LEMMA ParseRequestInv ==
  ASSUME IInv, NEW c \in Conn, do_read(c), ParseRequest(c)
  PROVE  IInv'
<1>0. /\ up' = FALSE /\ wrote' = wrote
      /\ holds' = [d \in Conn |-> holds[d] \ {"server"}]
      /\ \A d \in Conn : holds'[d] = holds[d] \ {"server"}
      /\ cgi' = [d \in Conn |-> IF program = "cgi" /\ cgi[d] = "running" THEN "ended" ELSE cgi[d]]
      /\ \A d \in Conn :
           cgi'[d] = IF program = "cgi" /\ cgi[d] = "running" THEN "ended" ELSE cgi[d]
  BY DEF ParseRequest
<1>1. TypeOK'
  <2>1. holds' \in [Conn -> SUBSET (Conn \cup {"server"})]
    BY <1>0 DEF IInv, TypeOK
  <2>2. cgi' \in [Conn -> {"none", "running", "ended"}]
    BY <1>0 DEF IInv, TypeOK
  <2>3. up' \in BOOLEAN /\ wrote' \in [Conn -> 0..Size]
    BY <1>0 DEF IInv, TypeOK
  <2> QED BY <2>1, <2>2, <2>3, AtRead DEF IInv, TypeOK
<1>2. Holders' /\ NoMutualHold'
  BY <1>0, AtRead, WebAssumption DEF IInv, Holders, NoMutualHold
<1>3. Answering' /\ Reading'
  BY <1>0, AtRead, WebAssumption DEF IInv, TypeOK, Answering, Reading
<1>4. Partial'
  BY <1>0, AtRead DEF IInv, TypeOK, Answering, Partial
<1>5. WholeAnswer'
  BY <1>0, AtRead DEF IInv, WholeAnswer
<1> QED BY <1>1, <1>2, <1>3, <1>4, <1>5 DEF IInv

(* The child has what the server has, and nobody who has something the     *)
(* server had is held by it: it is new, and its own connection the server  *)
(* has closed.                                                             *)
LEMMA ForkInv ==
  ASSUME IInv, NEW c \in Conn, do_read(c), program = "http", UNCHANGED <<up, wrote>>,
         cgi' = [cgi EXCEPT ![c] = "running"],
         holds' = [Copied(c) EXCEPT ![c] = @ \ {"server"}]
  PROVE  IInv'
<1>0. /\ Copied(c) \in [Conn -> SUBSET (Conn \cup {"server"})]
      /\ Copied(c) = [d \in Conn |-> IF "server" \in holds[d] THEN holds[d] \cup {c} ELSE holds[d]]
  BY DEF Copied, IInv, TypeOK
<1>1. /\ holds' \in [Conn -> SUBSET (Conn \cup {"server"})]
      /\ holds'[c] = (holds[c] \cup {c}) \ {"server"}
      /\ \A d \in Conn : d # c =>
           holds'[d] = IF "server" \in holds[d] THEN holds[d] \cup {c} ELSE holds[d]
  BY <1>0, AtRead
<1>2. /\ cgi' \in [Conn -> {"none", "running", "ended"}]
      /\ cgi'[c] = "running" /\ \A d \in Conn : d # c => cgi'[d] = cgi[d]
  BY DEF IInv, TypeOK
<1>3. TypeOK'
  BY <1>1, <1>2, AtRead DEF IInv, TypeOK
<1>4. Holders'
  <2> SUFFICES ASSUME NEW e \in Conn, NEW d \in Conn, e \in holds'[d]
               PROVE  program = "http" /\ cgi'[e] = "running" /\ "server" \notin holds'[e]
    BY AtRead DEF Holders
  <2>1. CASE e = c
    BY <2>1, <1>1, <1>2, WebAssumption
  <2>2. CASE e # c
    <3>1. e \in holds[d]
      BY <2>2, <1>1
    <3>2. cgi[e] = "running" /\ "server" \notin holds[e]
      BY <3>1 DEF IInv, Holders
    <3> QED BY <2>2, <3>2, <1>1, <1>2
  <2> QED BY <2>1, <2>2
<1>5. Answering'
  <2> SUFFICES ASSUME NEW e \in Conn
               PROVE  /\ cgi'[e] # "none" => conn'[e] = "handled"
                      /\ cgi'[e] = "running" => e \in holds'[e]
    BY AtRead DEF Answering
  <2>1. CASE e = c
    BY <2>1, <1>1, AtRead, WebAssumption
  <2>2. CASE e # c
    BY <2>2, <1>1, <1>2, AtRead DEF IInv, Answering
  <2> QED BY <2>1, <2>2
<1>6. Reading'
  BY <1>1, AtRead DEF IInv, Reading
<1>7. Partial' /\ WholeAnswer'
  BY <1>2, AtRead DEF IInv, Partial, WholeAnswer
<1>8. NoMutualHold'
  <2> SUFFICES ASSUME NEW d \in Conn, NEW e \in Conn, d # e, d \in holds'[e], e \in holds'[d]
               PROVE  FALSE
    BY DEF NoMutualHold
  <2>1. CASE d # c /\ e # c
    BY <2>1, <1>1 DEF IInv, NoMutualHold
  <2>2. \A x \in Conn : x # c /\ c \in holds'[x] => x \notin holds'[c]
    <3> SUFFICES ASSUME NEW x \in Conn, x # c, c \in holds'[x] PROVE x \notin holds'[c]
      OBVIOUS
    <3>1. "server" \in holds[x]
      BY <1>1, AtRead
    <3>2. x \notin holds[c]
      BY <3>1 DEF IInv, Holders
    <3> QED BY <3>2, <1>1
  <2> QED BY <2>1, <2>2
<1> QED BY <1>3, <1>4, <1>5, <1>6, <1>7, <1>8 DEF IInv

LEMMA ServeInv ==
  ASSUME IInv, NEW c \in Conn, do_read(c), program = "cgi", UNCHANGED <<up, holds>>,
         cgi' = [cgi EXCEPT ![c] = "running"], wrote' = [wrote EXCEPT ![c] = Size]
  PROVE  IInv'
<1>1. /\ cgi' \in [Conn -> {"none", "running", "ended"}]
      /\ cgi'[c] = "running" /\ \A d \in Conn : d # c => cgi'[d] = cgi[d]
  BY DEF IInv, TypeOK
<1>2. /\ wrote' \in [Conn -> 0..Size]
      /\ wrote'[c] = Size /\ \A d \in Conn : d # c => wrote'[d] = wrote[d]
  BY WebAssumption DEF IInv, TypeOK
<1>3. TypeOK'
  BY <1>1, <1>2, AtRead DEF IInv, TypeOK
<1>4. Holders' /\ NoMutualHold'
  BY AtRead DEF IInv, Holders, NoMutualHold
<1>5. Answering' /\ Reading'
  BY <1>1, <1>2, AtRead DEF IInv, Answering, Reading
<1>6. Partial' /\ WholeAnswer'
  BY <1>1, <1>2, AtRead DEF IInv, Partial, WholeAnswer
<1> QED BY <1>3, <1>4, <1>5, <1>6 DEF IInv

LEMMA ReadInv ==
  ASSUME IInv, NEW c \in Conn, do_read(c)
  PROVE  IInv'
<1>1. CASE Error(c)
  BY <1>1, DropInv DEF Error
<1>2. CASE ParseRequest(c)
  BY <1>2, ParseRequestInv
<1>3. CASE Fork(c)
  BY <1>3, ForkInv, DropInv DEF Fork
<1>4. CASE Serve(c)
  BY <1>4, ServeInv, DropInv DEF Serve
<1> QED BY <1>1, <1>2, <1>3, <1>4 DEF do_read, do_request

\* Only a program of http_server has anything left to write.
LEMMA WriteInv ==
  ASSUME IInv, NEW c \in Conn, Write(c)
  PROVE  IInv'
<1>0. /\ UNCHANGED <<program, up, conn, asked, gone, got, end, cgi, holds>>
      /\ cgi[c] = "running" /\ wrote[c] < Size /\ wrote' = [wrote EXCEPT ![c] = @ + 1]
  BY DEF Write, browser
<1>1. /\ wrote' \in [Conn -> 0..Size] /\ \A d \in Conn : d # c => wrote'[d] = wrote[d]
  BY <1>0, WebAssumption DEF IInv, TypeOK
<1>2. TypeOK'
  BY <1>0, <1>1 DEF IInv, TypeOK
<1>3. Holders' /\ Reading' /\ NoMutualHold' /\ WholeAnswer'
  BY <1>0 DEF IInv, Holders, Reading, NoMutualHold, WholeAnswer
<1>4. wrote[c] # Size
  BY <1>0, WebAssumption DEF IInv, TypeOK
<1>5. Answering'
  BY <1>0, <1>1, <1>4 DEF IInv, Answering
<1>6. Partial'
  BY <1>0, <1>1 DEF IInv, Partial
<1> QED BY <1>2, <1>3, <1>5, <1>6 DEF IInv

LEMMA FinishesInv ==
  ASSUME IInv, NEW c \in Conn, Finishes(c)
  PROVE  IInv'
<1>0. /\ UNCHANGED <<program, up, conn, asked, gone, got, end, wrote>>
      /\ cgi[c] = "running" /\ (wrote[c] = Size \/ gone[c])
      /\ cgi' = [cgi EXCEPT ![c] = "ended"]
      /\ holds' = [d \in Conn |-> holds[d] \ {IF program = "http" \/ c # d THEN c ELSE "server"}]
  BY DEF Finishes, browser
<1>1. /\ cgi' \in [Conn -> {"none", "running", "ended"}]
      /\ cgi'[c] = "ended" /\ \A d \in Conn : d # c => cgi'[d] = cgi[d]
  BY <1>0 DEF IInv, TypeOK
<1>2. /\ holds' \in [Conn -> SUBSET (Conn \cup {"server"})]
      /\ \A d \in Conn : holds'[d] \subseteq holds[d]
      /\ \A d, e \in Conn : e # c /\ e \in holds[d] => e \in holds'[d]
      /\ \A d \in Conn : d # c /\ "server" \in holds[d] => "server" \in holds'[d]
  BY <1>0, WebAssumption DEF IInv, TypeOK
<1>3. TypeOK'
  BY <1>0, <1>1, <1>2 DEF IInv, TypeOK
<1>4. Holders'
  <2> SUFFICES ASSUME NEW e \in Conn, NEW d \in Conn, e \in holds'[d]
               PROVE  program = "http" /\ cgi'[e] = "running" /\ "server" \notin holds'[e]
    BY <1>0 DEF Holders
  <2>1. program = "http" /\ cgi[e] = "running" /\ "server" \notin holds[e]
    BY <1>2 DEF IInv, Holders
  <2>2. e # c
    BY <1>0, <2>1
  <2> QED BY <1>1, <1>2, <2>1, <2>2
<1>5. Answering'
  BY <1>0, <1>1, <1>2 DEF IInv, Answering
<1>6. Reading'
  <2>1. conn[c] = "handled"
    BY <1>0 DEF IInv, Answering
  <2> QED BY <1>0, <1>2, <2>1 DEF IInv, Reading
<1>7. Partial' /\ WholeAnswer'
  BY <1>0, <1>1 DEF IInv, Partial, WholeAnswer
<1>8. NoMutualHold'
  BY <1>2 DEF IInv, NoMutualHold
<1> QED BY <1>3, <1>4, <1>5, <1>6, <1>7, <1>8 DEF IInv

LEMMA StepInv == IInv /\ [Next]_vars => IInv'
<1> SUFFICES ASSUME IInv, [Next]_vars PROVE IInv'
  OBVIOUS
<1>1. ASSUME NEW c \in Conn,
             \/ Connect(c) \/ Ask(c) \/ Leave(c) \/ Receive(c) \/ SeesEnd(c)
             \/ do_accept(c) \/ do_read(c) \/ Write(c) \/ Finishes(c)
      PROVE  IInv'
  BY <1>1, BrowserInv, SeesEndInv, AcceptInv, ReadInv, WriteInv, FinishesInv
<1>2. CASE UNCHANGED vars
  <2>1. /\ UNCHANGED <<program, up, conn, asked, gone>>
        /\ UNCHANGED <<cgi, holds, wrote, got, end>>
    BY <1>2 DEF vars
  <2>2. TypeOK' /\ Holders' /\ Answering' /\ Reading'
    BY <2>1 DEF IInv, TypeOK, Holders, Answering, Reading
  <2>3. Partial' /\ NoMutualHold' /\ WholeAnswer'
    BY <2>1 DEF IInv, Partial, NoMutualHold, WholeAnswer
  <2> QED BY <2>2, <2>3 DEF IInv
<1> QED BY <1>1, <1>2 DEF Next

-----------------------------------------------------------------------------
(* The inductive invariant: who holds a connection, who answers on it, and *)
(* how much of the answer there is.                                        *)
THEOREM Invariance == Spec => []IInv
  BY InitInv, StepInv, PTL DEF Spec

\* Every variable of the servers, of the browsers and of the programs keeps its type.
THEOREM TypeCorrect == Spec => []TypeOK
<1>1. IInv => TypeOK
  BY DEF IInv
<1> QED BY <1>1, Invariance, PTL

(* For any number of browsers, whatever they ask for: a clean end comes    *)
(* with the whole answer or none, and a reset only to requests that are    *)
(* longer than a read, or when the server has ended.                       *)
THEOREM AnswersWhole == Spec => []WholeAnswer
<1>1. IInv => WholeAnswer
  BY DEF IInv
<1> QED BY <1>1, Invariance, PTL

(* However many programs are forked while others run and browsers connect: *)
(* no two hold each other's connections.                                   *)
THEOREM NoCircle == Spec => []NoMutualHold
<1>1. IInv => NoMutualHold
  BY DEF IInv
<1> QED BY <1>1, Invariance, PTL

-----------------------------------------------------------------------------
(* What PageEnds needs besides fairness: a browser that waits always waits *)
(* for somebody who can take a step, or for a console.                     *)

\* The server has a connection as long as it is up, until it has handled the request.
Attached ==
  \A c \in Conn :
    /\ "server" \in holds[c] =>
         up /\ (conn[c] = "reading" \/ (program = "cgi" /\ cgi[c] = "running"))
    /\ asked[c] => conn[c] # "none"

\* A program that is no console writes the rest of its answer, or has finished.
Ends(d) == cgi[d] = "running" /\ Kind[d] # "console"

(* The server's handler for c, its browser's next read or the end of it,   *)
(* or a step of a program that keeps the connection or its queue.          *)
CanGoOn(c) ==
  \/ up /\ conn[c] \in {"queued", "reading"}
  \/ got[c] < wrote[c]
  \/ holds[c] = {} /\ (conn[c] = "queued" => ~Listening)
  \/ \E d \in Conn : Ends(d) /\
       (d \in holds[c] \/ (program = "cgi" /\ d = c) \/ (conn[c] = "queued" /\ ~up))

NeverStuck ==
  \A c \in Conn : asked[c] /\ ~gone[c] /\ end[c] = "none" => CanGoOn(c) \/ Kept(c)

LEMMA InitAttached == Init => Attached
  BY DEF Init, Attached

LEMMA ForkAttached ==
  ASSUME IInv, Attached, NEW c \in Conn, do_read(c), Fork(c)
  PROVE  Attached'
<1> SUFFICES ASSUME NEW d \in Conn
             PROVE  /\ "server" \in holds'[d] =>
                         up' /\ (conn'[d] = "reading" \/ (program' = "cgi" /\ cgi'[d] = "running"))
                    /\ asked'[d] => conn'[d] # "none"
  BY DEF Attached
<1>1. "server" \in holds'[d] => "server" \in holds[d] /\ d # c
  <2>1. Copied(c) = [e \in Conn |-> IF "server" \in holds[e] THEN holds[e] \cup {c} ELSE holds[e]]
    BY DEF Copied
  <2>2. CASE Drops(c)
    BY <2>2 DEF Drops, IInv, TypeOK
  <2>3. CASE holds' = [Copied(c) EXCEPT ![c] = @ \ {"server"}]
    BY <2>1, <2>3, WebAssumption
  <2> QED BY <2>2, <2>3 DEF Fork
<1>2. up' = up /\ program = "http"
  BY DEF Fork
<1> QED BY <1>1, <1>2, AtRead DEF Attached

LEMMA ReadAttached ==
  ASSUME IInv, Attached, NEW c \in Conn, do_read(c)
  PROVE  Attached'
<1>1. CASE Error(c)
  <2>1. "server" \notin holds'[c] /\ \A d \in Conn : d # c => holds'[d] = holds[d]
    BY <1>1 DEF Error, Drops, IInv, TypeOK
  <2> QED BY <1>1, <2>1, AtRead DEF Error, Attached
<1>2. CASE ParseRequest(c)
  <2>1. \A d \in Conn : "server" \notin holds'[d]
    BY <1>2 DEF ParseRequest
  <2> QED BY <2>1, AtRead DEF Attached
<1>3. CASE Fork(c)
  BY <1>3, ForkAttached
<1>4. CASE Serve(c)
  <2>1. program = "cgi" /\ up' = up /\ \A d \in Conn : "server" \in holds'[d] => "server" \in holds[d]
    BY <1>4 DEF Serve, Drops, IInv, TypeOK
  <2>2. "server" \in holds'[c] => cgi'[c] = "running"
    BY <1>4 DEF Serve, Drops, IInv, TypeOK
  <2>3. \A d \in Conn : d # c => cgi'[d] = cgi[d]
    BY <1>4 DEF Serve, IInv, TypeOK
  <2> QED BY <2>1, <2>2, <2>3, AtRead DEF Attached
<1> QED BY <1>1, <1>2, <1>3, <1>4 DEF do_read, do_request

LEMMA FinishesAttached ==
  ASSUME IInv, Attached, NEW c \in Conn, Finishes(c)
  PROVE  Attached'
<1>0. /\ UNCHANGED <<program, up, conn, asked>> /\ cgi[c] = "running"
      /\ \A d \in Conn : d # c => cgi'[d] = cgi[d]
      /\ \A d \in Conn :
           holds'[d] = holds[d] \ {IF program = "http" \/ c # d THEN c ELSE "server"}
  BY DEF Finishes, browser, IInv, TypeOK
<1>1. program # "cgi" => "server" \notin holds[c]
  BY <1>0 DEF Attached, IInv, Answering
<1> QED BY <1>0, <1>1 DEF Attached, IInv, TypeOK

LEMMA StepAttached == IInv /\ Attached /\ [Next]_vars => Attached'
<1> SUFFICES ASSUME IInv, Attached, [Next]_vars PROVE Attached'
  OBVIOUS
<1>1. ASSUME NEW c \in Conn, Connect(c) \/ Ask(c) PROVE Attached'
  <2>1. UNCHANGED <<program, up, cgi, holds>>
    BY <1>1 DEF Connect, Ask
  <2>2. \A d \in Conn : conn[d] # "none" => conn'[d] = conn[d]
    BY <1>1 DEF Connect, Ask, IInv, TypeOK
  <2>3. \A d \in Conn : asked'[d] => asked[d] \/ conn[d] # "none"
    BY <1>1 DEF Connect, Ask, Present, browser, IInv, TypeOK
  <2> QED BY <2>1, <2>2, <2>3 DEF Attached
<1>2. ASSUME NEW c \in Conn, Leave(c) \/ Receive(c) \/ SeesEnd(c) \/ Write(c) PROVE Attached'
  BY <1>2 DEF Leave, Receive, SeesEnd, Write, browser, Attached
<1>3. ASSUME NEW c \in Conn, do_accept(c) PROVE Attached'
  <2>1. /\ up /\ UNCHANGED <<program, up, asked, cgi>>
        /\ conn'[c] = "reading" /\ \A d \in Conn : d # c => conn'[d] = conn[d] /\ holds'[d] = holds[d]
    BY <1>3 DEF do_accept, browser, IInv, TypeOK
  <2> QED BY <2>1 DEF Attached
<1>4. CASE UNCHANGED vars
  BY <1>4 DEF vars, Attached
<1> QED BY <1>1, <1>2, <1>3, <1>4, ReadAttached, FinishesAttached DEF Next

\* Whoever has the connection of a browser that waits, or the listening socket, goes on.
LEMMA Moves ==
  ASSUME IInv, Attached, NEW c \in Conn, asked[c], ~gone[c], end[c] = "none"
  PROVE  CanGoOn(c) \/ Kept(c)
<1>1. CASE up /\ conn[c] \in {"queued", "reading"}
  BY <1>1 DEF CanGoOn
<1>2. CASE conn[c] = "queued" /\ ~up /\ Listening
  BY <1>2 DEF Listening, CanGoOn, Ends, Kept
<1>3. CASE \E d \in Conn : d \in holds[c]
  BY <1>3 DEF IInv, Holders, CanGoOn, Ends, Kept
<1>4. CASE "server" \in holds[c] /\ ~(up /\ conn[c] = "reading")
  BY <1>4 DEF Attached, CanGoOn, Ends, Kept
<1>5. CASE holds[c] = {} /\ (conn[c] = "queued" => ~Listening)
  BY <1>5 DEF CanGoOn
<1> QED BY <1>1, <1>2, <1>3, <1>4, <1>5 DEF Attached, IInv, TypeOK

(* For any number of browsers and programs, whoever has left and whatever  *)
(* each program has inherited: a browser that has asked is never left with *)
(* nobody to go on for it, unless a console keeps its connection.          *)
THEOREM NoStandstill == Spec => []NeverStuck
<1>1. Init => IInv /\ Attached
  BY InitInv, InitAttached
<1>2. IInv /\ Attached /\ [Next]_vars => IInv' /\ Attached'
  BY StepInv, StepAttached
<1>3. IInv /\ Attached => NeverStuck
  BY Moves DEF NeverStuck
<1> QED BY <1>1, <1>2, <1>3, PTL DEF Spec
=============================================================================
