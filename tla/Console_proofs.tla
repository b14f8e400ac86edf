--------------------------- MODULE Console_proofs ---------------------------
(***************************************************************************)
(* What Console promises a page and the shells on it: every variable has   *)
(* its type, a shell is sent its script in order and at most one line for  *)
(* each prompt, and the page shows a command before its output.            *)
(***************************************************************************)
EXTENDS Console, TLAPS, FiniteSetTheorems, SequenceTheorems, WellFoundedInduction

-----------------------------------------------------------------------------
(* Types.  The line that is to be written or shown is there: a handler     *)
(* takes its first character.                                              *)

Has(s, h) == \E i \in DOMAIN ready[s] : ready[s][i] = h

MsgHeld(s) == timer[s] \/ Has(s, "timer") \/ Has(s, "wrote") => toShellMsg[s] # <<>>

TypeInv == TypeOK /\ \A s \in Shell : MsgHeld(s)

Handlers == {"read", "wrote", "timer"}

LEMMA UnitTypes ==
  /\ \A c \in {"%", "sp", "text", "out"}, n \in Nat : Unit(c, n) \in Text
  /\ \A n \in Int : Unit("cmd", n) \in Shown
  /\ Junk \in Shown /\ Text \subseteq Shown /\ Prompt \in Seq(Text)
<1>1. ASSUME NEW c \in {"%", "sp", "text", "out"}, NEW n \in Nat PROVE Unit(c, n) \in Text
  BY DEF Unit, Text
<1>2. Prompt \in Seq(Text)
  <2>1. Unit("%", 1) \in Text /\ Unit("sp", 1) \in Text
    BY <1>1
  <2>2. \A a, b \in Text : <<a, b>> \in Seq(Text)
    OBVIOUS
  <2> QED BY <2>1, <2>2, Zenon DEF Prompt
<1>3. Text \subseteq Shown /\ Junk \in Shown
  BY DEF Shown
<1>4. \A n \in Int : Unit("cmd", n) \in Shown
  BY DEF Shown, Unit
<1> QED BY <1>1, <1>2, <1>3, <1>4

LEMMA Least ==
  ASSUME NEW T \in SUBSET Nat, T # {}
  PROVE  \E i \in T : \A j \in T : i <= j
<1> DEFINE R == OpToRel(<, Nat)
<1>1. PICK x \in T : \A y \in T : ~(<<y, x>> \in R)
  <2>1. IsWellFoundedOn(R, Nat)
    BY NatLessThanWellFounded
  <2> HIDE DEF R
  <2> QED BY <2>1, WFMin
<1>2. ASSUME NEW a \in Nat, NEW b \in Nat, a < b PROVE <<a, b>> \in R
  <2>1. <<a, b>> \in {ss \in Nat \X Nat : ss[1] < ss[2]}
    BY <1>2
  <2> QED BY <2>1, Zenon DEF OpToRel
<1>3. \A y \in T : ~(y < x)
  BY <1>1, <1>2, Zenon
<1> QED BY <1>3

\* The line a shell takes ends at the first newline after what it has taken.
LEMMA FirstLine ==
  ASSUME TypeOK, NEW s \in Shell, HasLine(s)
  PROVE  /\ EndOfLine(s) \in taken[s] + 1 .. Len(typed[s]) /\ EndOfLine(s) \in Nat
         /\ typed[s][EndOfLine(s)] = NL
         /\ \A j \in taken[s] + 1 .. EndOfLine(s) - 1 : typed[s][j] # NL
<1> DEFINE T == {i \in taken[s] + 1 .. Len(typed[s]) : typed[s][i] = NL}
<1>1. taken[s] \in Nat /\ Len(typed[s]) \in Nat
  BY DEF TypeOK
<1>2. T \in SUBSET Nat /\ T # {}
  BY <1>1 DEF HasLine
<1>3. \E i \in T : \A j \in T : i <= j
  <2> HIDE DEF T
  <2> QED BY <1>2, Least
<1>4. \E i \in taken[s] + 1 .. Len(typed[s]) :
        typed[s][i] = NL /\ \A j \in taken[s] + 1 .. i - 1 : typed[s][j] # NL
  BY <1>1, <1>3
<1>5. /\ EndOfLine(s) \in taken[s] + 1 .. Len(typed[s])
      /\ typed[s][EndOfLine(s)] = NL
      /\ \A j \in taken[s] + 1 .. EndOfLine(s) - 1 : typed[s][j] # NL
  BY <1>4 DEF EndOfLine
<1> QED BY <1>1, <1>5

\* What getline leaves: a text that is not empty, and the place in the file.
LEMMA GetlineType ==
  ASSUME TypeOK, NEW s \in Shell, getline(s)
  PROVE  /\ toShellMsg' \in [Shell -> Seq(Int)] /\ toShellMsg'[s] # <<>>
         /\ toShellMsg'[s][1] \in Int
         /\ file' \in [Shell -> Nat] /\ \A o \in Shell : file'[o] <= Lines[o] + 1
         /\ \A o \in Shell \ {s} : toShellMsg'[o] = toShellMsg[o] /\ file'[o] = file[o]
<1> DEFINE line == CASE file[s] < Lines[s] -> <<file[s] + 1>>
                     [] file[s] = Lines[s] -> <<>>
                     [] OTHER -> toShellMsg[s]
<1>1. /\ Lines[s] \in Nat /\ file[s] \in Nat /\ toShellMsg[s] \in Seq(Int)
      /\ file \in [Shell -> Nat] /\ Lines \in [Shell -> Nat]
      /\ \A o \in Shell : file[o] <= Lines[o] + 1
  BY ConsoleAssumption DEF TypeOK
<1>2. line \in Seq(Int)
  BY <1>1
<1>3. toShellMsg' = [toShellMsg EXCEPT ![s] = Append(line, NL)]
  BY DEF getline
<1> HIDE DEF line
<1>4. Append(line, NL) \in Seq(Int) /\ Append(line, NL) # <<>> /\ Append(line, NL)[1] \in Int
  <2>1. NL \in Int
    BY DEF NL
  <2>2. Append(line, NL) \in Seq(Int) /\ Len(Append(line, NL)) > 0
    BY <1>2, <2>1
  <2> QED BY <2>2
<1>5. /\ toShellMsg' \in [Shell -> Seq(Int)] /\ toShellMsg'[s] # <<>> /\ toShellMsg'[s][1] \in Int
      /\ \A o \in Shell \ {s} : toShellMsg'[o] = toShellMsg[o]
  BY <1>3, <1>4 DEF TypeOK
<1>6. file' = [file EXCEPT ![s] = IF @ <= Lines[s] THEN @ + 1 ELSE @]
  BY DEF getline
<1>7. /\ file' \in [Shell -> Nat] /\ \A o \in Shell : file'[o] <= Lines[o] + 1
      /\ \A o \in Shell \ {s} : file'[o] = file[o]
  BY <1>1, <1>6
<1> QED BY <1>5, <1>7

\* The queue of handlers after one has run.
LEMMA RunsType ==
  ASSUME TypeOK, NEW s \in Shell, ready[s] # <<>>, NEW more \in Seq(Handlers), Runs(s, more)
  PROVE  /\ ready' \in [Shell -> Seq(Handlers)]
         /\ ready'[s] = Tail(ready[s]) \o more
         /\ \A o \in Shell \ {s} : ready'[o] = ready[o]
         /\ \A h : Has(s, h)' => Has(s, h) \/ \E i \in DOMAIN more : more[i] = h
<1>1. ready[s] \in Seq(Handlers) /\ ready \in [Shell -> Seq(Handlers)]
  BY DEF TypeOK, Handlers
<1>2. Tail(ready[s]) \in Seq(Handlers) /\ Tail(ready[s]) \o more \in Seq(Handlers)
  BY <1>1
<1>3. ready' = [ready EXCEPT ![s] = Tail(ready[s]) \o more]
  BY DEF Runs
<1>4. ready'[s] = Tail(ready[s]) \o more
  BY <1>1, <1>3
<1>5. ASSUME NEW h, NEW i \in DOMAIN ready'[s], ready'[s][i] = h
      PROVE  Has(s, h) \/ \E j \in DOMAIN more : more[j] = h
  <2>1. CASE i <= Len(Tail(ready[s]))
    <3>1. ready[s][i + 1] = h /\ i + 1 \in DOMAIN ready[s]
      BY <1>1, <1>2, <1>4, <1>5, <2>1
    <3> QED BY <3>1 DEF Has
  <2>2. CASE i > Len(Tail(ready[s]))
    <3>1. more[i - Len(Tail(ready[s]))] = h /\ i - Len(Tail(ready[s])) \in DOMAIN more
      BY <1>1, <1>2, <1>4, <1>5, <2>2
    <3> QED BY <3>1
  <2>3. i \in Int /\ Len(Tail(ready[s])) \in Int
    BY <1>1, <1>2, <1>4, <1>5
  <2> QED BY <2>1, <2>2, <2>3
<1> QED BY <1>1, <1>2, <1>3, <1>4, <1>5 DEF Has

-----------------------------------------------------------------------------
(* Each action keeps the types.                                            *)

\* What a shell says is text.
LEMMA SaysType ==
  ASSUME TypeOK, NEW s \in Shell, NEW t \in Seq(Text), Says(s, t)
  PROVE  /\ said' \in [Shell -> Seq(Text)] /\ said'[s] = said[s] \o t
         /\ \A o \in Shell \ {s} : said'[o] = said[o]
<1>1. said \in [Shell -> Seq(Text)]
  BY DEF TypeOK
<1>2. said' = [said EXCEPT ![s] = said[s] \o t]
  BY DEF Says
<1>3. said[s] \o t \in Seq(Text)
  BY <1>1
<1> QED BY <1>1, <1>2, <1>3

LEMMA OutputType ==
  ASSUME TypeOK, NEW s \in Shell, NEW t \in Seq(Shown), Output(s, t)
  PROVE  /\ page' \in [Shell -> Seq(Shown)] /\ page'[s] = page[s] \o t /\ web' = web
         /\ \A o \in Shell \ {s} : page'[o] = page[o]
<1>1. page \in [Shell -> Seq(Shown)]
  BY DEF TypeOK
<1>2. page' = [page EXCEPT ![s] = page[s] \o t] /\ web' = web
  BY DEF Output
<1>3. page[s] \o t \in Seq(Shown)
  BY <1>1
<1> QED BY <1>1, <1>2, <1>3

\* What the shell is sent, and the handler that will be told of it.
LEMMA WriteType ==
  ASSUME TypeOK, NEW s \in Shell, ready[s] # <<>>, NEW msg \in Seq(Int), do_write(s, msg)
  PROVE  /\ typed' \in [Shell -> Seq(Int)] /\ typed'[s] = typed[s] \o msg
         /\ \A o \in Shell \ {s} : typed'[o] = typed[o] /\ ready'[o] = ready[o]
         /\ ready' \in [Shell -> Seq(Handlers)] /\ ready'[s] = Tail(ready[s]) \o <<"wrote">>
         /\ \A h : Has(s, h)' => Has(s, h) \/ h = "wrote"
<1>1. typed \in [Shell -> Seq(Int)]
  BY DEF TypeOK
<1>2. typed' = [typed EXCEPT ![s] = typed[s] \o msg] /\ Runs(s, <<"wrote">>)
  BY DEF do_write
<1>3. typed[s] \o msg \in Seq(Int)
  BY <1>1
<1>4. /\ typed' \in [Shell -> Seq(Int)] /\ typed'[s] = typed[s] \o msg
      /\ \A o \in Shell \ {s} : typed'[o] = typed[o]
  BY <1>1, <1>2, <1>3
<1>5. <<"wrote">> \in Seq(Handlers)
  BY DEF Handlers
<1>6. \A h : (\E i \in DOMAIN <<"wrote">> : <<"wrote">>[i] = h) => h = "wrote"
  OBVIOUS
<1>7. /\ ready' \in [Shell -> Seq(Handlers)] /\ ready'[s] = Tail(ready[s]) \o <<"wrote">>
      /\ \A o \in Shell \ {s} : ready'[o] = ready[o]
      /\ \A h : Has(s, h)' => Has(s, h) \/ \E i \in DOMAIN <<"wrote">> : <<"wrote">>[i] = h
  BY <1>2, <1>5, RunsType
<1> QED BY <1>4, <1>6, <1>7

WebItem == [to : Shell, text : Seq(Shown)]

LEMMA WebType ==
  ASSUME TypeOK, NEW s \in Shell, NEW text \in Seq(Shown), NEW then \in Seq(Shown),
         do_write_web(s, text, then)
  PROVE  /\ page' \in [Shell -> Seq(Shown)] /\ web' \in Seq(WebItem)
         /\ \A o \in Shell \ {s} : page'[o] = page[o]
<1>1. page \in [Shell -> Seq(Shown)] /\ web \in Seq(WebItem)
  BY DEF TypeOK, WebItem
<1>2. \A t \in Seq(Shown) : Waits(s, t) \in Seq(WebItem)
  BY DEF Waits, WebItem
<1>3. CASE web = <<>> /\ Output(s, text \o then)
  <2>1. text \o then \in Seq(Shown)
    OBVIOUS
  <2> QED BY <1>1, <1>3, <2>1, OutputType
<1>4. CASE web' = Waits(s, then) /\ page' = [page EXCEPT ![s] = @ \o text]
  <2>1. page[s] \o text \in Seq(Shown)
    BY <1>1
  <2> QED BY <1>1, <1>2, <1>4, <2>1
<1>5. CASE /\ web' = web \o Waits(s, text) \o IF then = <<>> THEN <<>> ELSE Waits(s, then)
           /\ page' = page
  <2>1. /\ web \o Waits(s, text) \o <<>> \in Seq(WebItem)
        /\ web \o Waits(s, text) \o Waits(s, then) \in Seq(WebItem)
    <3>1. \A x, y, z \in Seq(WebItem) : x \o y \o z \in Seq(WebItem)
      OBVIOUS
    <3>2. <<>> \in Seq(WebItem)
      OBVIOUS
    <3> QED BY <1>1, <1>2, <3>1, <3>2, Zenon
  <2> QED BY <1>1, <1>5, <2>1
<1> QED BY <1>3, <1>4, <1>5 DEF do_write_web

LEMMA ShowPromptType == ASSUME TypeInv, NEW s \in Shell, ShowPrompt(s) PROVE TypeInv'
<1> USE DEF TypeInv, ShowPrompt, client, browser
<1>1. said' \in [Shell -> Seq(Text)]
  BY SaysType, UnitTypes
<1>2. shell' \in [Shell -> {"none", "busy", "prompted", "closed"}]
  BY DEF TypeOK
<1>3. TypeOK'
  BY <1>1, <1>2 DEF TypeOK
<1> QED BY <1>3 DEF MsgHeld, Has

LEMMA TakeLineType == ASSUME TypeInv, NEW s \in Shell, TakeLine(s) PROVE TypeInv'
<1> DEFINE line == SubSeq(typed[s], taken[s] + 1, EndOfLine(s) - 1)
<1>1. /\ TypeOK /\ HasLine(s) /\ taken' = [taken EXCEPT ![s] = EndOfLine(s)]
      /\ UNCHANGED <<program, up, client, browser, seen, typed, chats, cut>>
  BY DEF TypeInv, TakeLine
<1>2. taken' \in [Shell -> Nat]
  <2>1. EndOfLine(s) \in Nat /\ taken \in [Shell -> Nat]
    BY <1>1, FirstLine DEF TypeOK
  <2> QED BY <1>1, <2>1
<1>3. \/ said' = said
      \/ Len(line) = 1 /\ line[1] > 0 /\ Says(s, <<Unit("out", line[1])>>)
  BY DEF TakeLine
<1>4. line \in Seq(Int)
  <2>1. EndOfLine(s) \in taken[s] + 1 .. Len(typed[s]) /\ typed[s] \in Seq(Int) /\ taken[s] \in Nat
    BY <1>1, FirstLine DEF TypeOK
  <2>2. \A i \in taken[s] + 1 .. EndOfLine(s) - 1 : typed[s][i] \in Int
    BY <2>1
  <2> QED BY <2>1, <2>2, SubSeqProperties
<1>5. said' \in [Shell -> Seq(Text)]
  <2>1. CASE said' = said
    BY <1>1, <2>1 DEF TypeOK
  <2>2. CASE Len(line) = 1 /\ line[1] > 0 /\ Says(s, <<Unit("out", line[1])>>)
    <3> HIDE DEF line
    <3>1. line[1] \in Nat
      <4>1. 1 \in 1 .. Len(line)
        BY <2>2
      <4>2. line[1] \in Int
        BY <1>4, <4>1, ElementOfSeq
      <4> QED BY <2>2, <4>2
    <3>2. <<Unit("out", line[1])>> \in Seq(Text)
      <4>1. Unit("out", line[1]) \in Text
        BY <3>1, UnitTypes
      <4>2. \A u \in Text : <<u>> \in Seq(Text)
        OBVIOUS
      <4> QED BY <4>1, <4>2
    <3> QED BY <1>1, <2>2, <3>2, SaysType
  <2> QED BY <1>3, <2>1, <2>2
<1>6. shell' \in [Shell -> {"none", "busy", "prompted", "closed"}]
  <2>1. shell' = [shell EXCEPT ![s] = "closed"] \/ shell' = [shell EXCEPT ![s] = "busy"]
    BY DEF TakeLine
  <2> QED BY <1>1, <2>1 DEF TypeOK
<1>7. TypeOK'
  BY <1>1, <1>2, <1>5, <1>6 DEF TypeOK, client, browser
<1> QED BY <1>1, <1>7 DEF TypeInv, client, MsgHeld, Has

LEMMA ChatText ==
  ASSUME NEW t \in Chats
  PROVE  [i \in DOMAIN t |-> Unit(t[i], 0)] \in Seq(Text)
<1> DEFINE Letters == {"text", "%", "sp"}
<1>1. t \in Seq(Letters)
  BY ConsoleAssumption
<1>2. \A i \in 1 .. Len(t) : Unit(t[i], 0) \in Text
  <2>1. \A i \in 1 .. Len(t) : t[i] \in Letters
    BY <1>1, ElementOfSeq
  <2> QED BY <2>1, UnitTypes
<1>3. Len(t) \in Nat /\ DOMAIN t = 1 .. Len(t)
  BY <1>1, LenProperties
<1>4. [i \in 1 .. Len(t) |-> Unit(t[i], 0)] \in [1 .. Len(t) -> Text]
  BY <1>2
<1> QED BY <1>3, <1>4, SeqDef

LEMMA ChatType == ASSUME TypeInv, NEW s \in Shell, Chat(s) PROVE TypeInv'
<1>1. /\ TypeOK /\ chats' = [chats EXCEPT ![s] = @ + 1]
      /\ UNCHANGED <<program, up, client, browser, shell, seen, typed, taken, cut>>
      /\ \E t \in Chats : Says(s, [i \in DOMAIN t |-> Unit(t[i], 0)])
  BY DEF TypeInv, Chat
<1>2. said' \in [Shell -> Seq(Text)]
  BY <1>1, ChatText, SaysType
<1>3. chats' \in [Shell -> Nat]
  BY <1>1 DEF TypeOK
<1>4. TypeOK'
  BY <1>1, <1>2, <1>3 DEF TypeOK, client, browser
<1> QED BY <1>1, <1>4 DEF TypeInv, client, MsgHeld, Has

Phase == {"resolve", "connect", "request", "reply", "read", "failed", "unknown", "refused"}

\* Getting connected: every step to the first read.
Connecting(s) ==
  do_resolve(s) \/ do_connect(s) \/ do_connectProxy(s) \/ do_request(s) \/ do_recv_reply(s)

\* It moves this client on, and may bring its shell to life.
LEMMA ConnectingStep ==
  ASSUME NEW s \in Shell, Connecting(s)
  PROVE  /\ \E to \in Phase : pc' = [pc EXCEPT ![s] = to]
                              /\ \/ to # "read" /\ shell' = shell
                                 \/ to = "read" /\ shell' = [shell EXCEPT ![s] = "busy"]
         /\ pc[s] # "read" /\ up' \in {up, TRUE, FALSE}
         /\ UNCHANGED <<program, ready, timer, data_, file, toShellMsg, page, web,
                        said, taken, chats, seen, typed, cut>>
<1> USE DEF Moves, Answers, Phase, browser, remote
<1>1. CASE do_resolve(s)
  BY <1>1 DEF do_resolve
<1>2. CASE do_connect(s)
  BY <1>2 DEF do_connect
<1>3. CASE do_connectProxy(s)
  BY <1>3 DEF do_connectProxy
<1>4. CASE do_request(s)
  BY <1>4 DEF do_request
<1>5. CASE do_recv_reply(s)
  BY <1>5 DEF do_recv_reply
<1> QED BY <1>1, <1>2, <1>3, <1>4, <1>5 DEF Connecting

LEMMA ConnectingType == ASSUME TypeInv, NEW s \in Shell, Connecting(s) PROVE TypeInv'
<1>1. PICK to \in Phase : /\ pc' = [pc EXCEPT ![s] = to]
                          /\ \/ to # "read" /\ shell' = shell
                             \/ to = "read" /\ shell' = [shell EXCEPT ![s] = "busy"]
  BY ConnectingStep
<1>2. /\ up' \in {up, TRUE, FALSE}
      /\ UNCHANGED <<program, ready, timer, data_, file, toShellMsg, page, web,
                     said, taken, chats, seen, typed, cut>>
  BY ConnectingStep
<1>3. pc' \in [Shell -> Phase] /\ shell' \in [Shell -> {"none", "busy", "prompted", "closed"}]
  BY <1>1 DEF TypeInv, TypeOK, Phase
<1>4. TypeOK'
  BY <1>2, <1>3 DEF TypeInv, TypeOK, Phase
<1> QED BY <1>2, <1>4 DEF TypeInv, MsgHeld, Has

\* One more handler is ready.
LEMMA AppendHandler ==
  ASSUME TypeOK, NEW s \in Shell, NEW h \in Handlers,
         ready' = [ready EXCEPT ![s] = Append(@, h)]
  PROVE  /\ ready' \in [Shell -> Seq(Handlers)] /\ ready'[s] = Append(ready[s], h)
         /\ \A o \in Shell \ {s} : ready'[o] = ready[o]
         /\ \A g : Has(s, g)' => Has(s, g) \/ g = h
<1>1. ready \in [Shell -> Seq(Handlers)] /\ ready[s] \in Seq(Handlers)
  BY DEF TypeOK, Handlers
<1>2. /\ ready' \in [Shell -> Seq(Handlers)] /\ ready'[s] = Append(ready[s], h)
      /\ \A o \in Shell \ {s} : ready'[o] = ready[o]
  BY <1>1
<1>3. ASSUME NEW g, NEW i \in DOMAIN ready'[s], ready'[s][i] = g
      PROVE  Has(s, g) \/ g = h
  BY <1>1, <1>2, <1>3 DEF Has
<1> QED BY <1>2, <1>3 DEF Has

LEMMA ReceiveType == ASSUME TypeInv, NEW s \in Shell, Receive(s) PROVE TypeInv'
<1>1. PICK n \in seen[s] + 1 .. Len(said[s]) :
        /\ data_' = [data_ EXCEPT ![s] = SubSeq(said[s], seen[s] + 1, n)]
        /\ seen' = [seen EXCEPT ![s] = n]
  BY DEF Receive
<1>2. /\ TypeOK /\ ready' = [ready EXCEPT ![s] = Append(@, "read")]
      /\ cut' = [cut EXCEPT ![s] = @ \/ Prompts(data_'[s]) > 1 \/ Splits(said[s], seen'[s])]
      /\ UNCHANGED <<program, up, pc, timer, file, toShellMsg, browser, remote, typed>>
  BY DEF Receive, TypeInv
<1>3. said[s] \in Seq(Text) /\ seen[s] \in Nat /\ Len(said[s]) \in Nat /\ n \in Nat
  BY <1>2 DEF TypeOK
<1>4. SubSeq(said[s], seen[s] + 1, n) \in Seq(Text)
  <2>1. \A i \in seen[s] + 1 .. n : said[s][i] \in Text
    BY <1>3
  <2> QED BY <1>3, <2>1, SubSeqProperties
<1>5. data_' \in [Shell -> Seq(Text)] /\ seen' \in [Shell -> Nat]
  BY <1>1, <1>2, <1>3, <1>4 DEF TypeOK
<1>6. cut' \in [Shell -> BOOLEAN]
  <2> DEFINE b == cut[s] \/ Prompts(data_'[s]) > 1 \/ Splits(said[s], seen'[s])
  <2>1. b \in BOOLEAN
    OBVIOUS
  <2>2. cut' = [cut EXCEPT ![s] = b]
    BY <1>2
  <2> HIDE DEF b
  <2> QED BY <1>2, <2>1, <2>2 DEF TypeOK
<1>7. /\ ready' \in [Shell -> Seq(Handlers)]
      /\ \A o \in Shell \ {s} : ready'[o] = ready[o]
      /\ \A g : Has(s, g)' => Has(s, g) \/ g = "read"
  BY <1>2, AppendHandler DEF Handlers
<1>8. TypeOK'
  BY <1>2, <1>5, <1>6, <1>7 DEF TypeOK, browser, remote, Handlers
<1> QED BY <1>2, <1>7, <1>8 DEF TypeInv, MsgHeld, Has

LEMMA ExpireType == ASSUME TypeInv, NEW s \in Shell, Expire(s) PROVE TypeInv'
<1>1. /\ TypeOK /\ timer[s] /\ timer' = [timer EXCEPT ![s] = FALSE]
      /\ ready' = [ready EXCEPT ![s] = Append(@, "timer")]
      /\ UNCHANGED <<program, up, pc, data_, file, toShellMsg, browser, remote, seen, typed, cut>>
  BY DEF Expire, TypeInv
<1>2. /\ ready' \in [Shell -> Seq(Handlers)]
      /\ \A o \in Shell \ {s} : ready'[o] = ready[o]
      /\ \A g : Has(s, g)' => Has(s, g) \/ g = "timer"
  BY <1>1, AppendHandler DEF Handlers
<1>3. timer' \in [Shell -> BOOLEAN] /\ \A o \in Shell \ {s} : timer'[o] = timer[o]
  BY <1>1 DEF TypeOK
<1>4. TypeOK'
  BY <1>1, <1>2, <1>3 DEF TypeOK, browser, remote, Handlers
<1> QED BY <1>1, <1>2, <1>3, <1>4 DEF TypeInv, MsgHeld, Has

LEMMA WebWrittenType == ASSUME TypeInv, WebWritten PROVE TypeInv'
<1>1. /\ TypeOK /\ web # <<>> /\ web' = Tail(web)
      /\ UNCHANGED <<program, up, client, remote, seen, typed, cut>>
      /\ \E t \in {Head(web).text, <<Junk>>} : page' = [page EXCEPT ![Head(web).to] = @ \o t]
  BY DEF TypeInv, WebWritten
<1>2. web \in Seq(WebItem) /\ page \in [Shell -> Seq(Shown)]
  BY <1>1 DEF TypeOK, WebItem
<1>3. Head(web) \in WebItem /\ web' \in Seq(WebItem)
  BY <1>1, <1>2, HeadTailProperties
<1>4. Head(web).to \in Shell /\ Head(web).text \in Seq(Shown)
  BY <1>3 DEF WebItem
<1>5. <<Junk>> \in Seq(Shown)
  <2>1. \A u \in Shown : <<u>> \in Seq(Shown)
    OBVIOUS
  <2> QED BY <2>1, UnitTypes
<1>6. \A t \in Seq(Shown) : page[Head(web).to] \o t \in Seq(Shown)
  BY <1>2, <1>4
<1>7. page' \in [Shell -> Seq(Shown)]
  <2> DEFINE to == Head(web).to
  <2>1. PICK t \in {Head(web).text, <<Junk>>} : page' = [page EXCEPT ![to] = @ \o t]
    BY <1>1
  <2>2. page[to] \o t \in Seq(Shown)
    BY <1>4, <1>5, <1>6, <2>1
  <2> HIDE DEF to
  <2> QED BY <1>2, <2>1, <2>2
<1>8. TypeOK'
  BY <1>1, <1>3, <1>7 DEF TypeOK, client, remote, WebItem
<1> QED BY <1>1, <1>8 DEF TypeInv, client, MsgHeld, Has

\* What changes when a read is handled: how each program shows the text, and what it does
\* about a prompt.
LEMMA ReadStep ==
  ASSUME NEW s \in Shell, do_read(s)
  PROVE  /\ up /\ ready[s] # <<>> /\ Head(ready[s]) = "read"
         /\ data_' = [data_ EXCEPT ![s] = <<>>]
         /\ UNCHANGED <<program, up, pc, shell, said, taken, chats, seen, cut>>
         /\ \/ /\ program = "project3" /\ HasPrompt(data_[s]) /\ getline(s)
               /\ timer' = [timer EXCEPT ![s] = TRUE] /\ typed' = typed /\ Runs(s, <<>>)
               /\ Output(s, data_[s])
            \/ /\ program = "project4" /\ HasPrompt(data_[s]) /\ getline(s)
               /\ timer' = timer /\ do_write(s, toShellMsg'[s]) /\ Output(s, data_[s])
            \/ /\ program = "cgi" /\ HasPrompt(data_[s]) /\ getline(s)
               /\ timer' = timer /\ do_write(s, toShellMsg'[s])
               /\ do_write_web(s, data_[s], Echo(toShellMsg'[s]))
            \/ /\ ~HasPrompt(data_[s]) /\ UNCHANGED <<file, toShellMsg, timer, typed>>
               /\ Runs(s, <<>>)
               /\ \/ program # "cgi" /\ Output(s, data_[s])
                  \/ program = "cgi" /\ do_write_web(s, data_[s], <<>>)
<1> USE DEF remote
<1>1. CASE do_printTimer(s)
  BY <1>1 DEF do_read, do_printTimer
<1>2. CASE do_printProxy(s)
  BY <1>2 DEF do_read, do_printProxy
<1>3. CASE do_printWeb(s)
  BY <1>3 DEF do_read, do_printWeb
<1> QED BY <1>1, <1>2, <1>3 DEF do_read

LEMMA ReadType == ASSUME TypeInv, NEW s \in Shell, do_read(s) PROVE TypeInv'
<1>1. /\ TypeOK /\ ready[s] # <<>>
      /\ data_' = [data_ EXCEPT ![s] = <<>>]
      /\ UNCHANGED <<program, up, pc, shell, said, taken, chats, seen, cut>>
  BY ReadStep DEF TypeInv
<1>2. data_' \in [Shell -> Seq(Text)] /\ data_[s] \in Seq(Shown)
  <2>1. data_ \in [Shell -> Seq(Text)] /\ <<>> \in Seq(Text)
    BY <1>1 DEF TypeOK
  <2> QED BY <1>1, <2>1, UnitTypes, SeqMonotonic
<1>3. UNCHANGED <<file, toShellMsg>> \/ getline(s)
  BY ReadStep
<1>4. /\ toShellMsg' \in [Shell -> Seq(Int)]
      /\ file' \in [Shell -> Nat] /\ \A o \in Shell : file'[o] <= Lines[o] + 1
      /\ \A o \in Shell \ {s} : toShellMsg'[o] = toShellMsg[o]
      /\ toShellMsg'[s] # <<>> \/ toShellMsg'[s] = toShellMsg[s]
      /\ getline(s) => toShellMsg'[s] # <<>> /\ toShellMsg'[s][1] \in Int
  <2>1. CASE getline(s)
    BY <1>1, <2>1, GetlineType
  <2>2. CASE ~getline(s)
    <3>1. UNCHANGED <<file, toShellMsg>>
      BY <1>3, <2>2
    <3> QED BY <1>1, <2>2, <3>1 DEF TypeOK
  <2> QED BY <2>1, <2>2
<1>5. /\ page' \in [Shell -> Seq(Shown)] /\ web' \in Seq(WebItem)
  <2>1. CASE Output(s, data_[s])
    <3>1. page' \in [Shell -> Seq(Shown)] /\ web' = web
      BY <1>1, <1>2, <2>1, OutputType
    <3> QED BY <1>1, <3>1 DEF TypeOK, WebItem
  <2>2. CASE do_write_web(s, data_[s], <<>>)
    <3>1. <<>> \in Seq(Shown)
      OBVIOUS
    <3> QED BY <1>1, <1>2, <2>2, <3>1, WebType
  <2>3. CASE getline(s) /\ do_write_web(s, data_[s], Echo(toShellMsg'[s]))
    <3>1. Unit("cmd", toShellMsg'[s][1]) \in Shown
      BY <1>4, <2>3, UnitTypes
    <3>2. \A u \in Shown : <<u>> \in Seq(Shown)
      OBVIOUS
    <3>3. Echo(toShellMsg'[s]) \in Seq(Shown)
      BY <3>1, <3>2 DEF Echo
    <3> QED BY <1>1, <1>2, <2>3, <3>3, WebType
  <2> QED BY <2>1, <2>2, <2>3, ReadStep
<1>6. /\ typed' \in [Shell -> Seq(Int)] /\ ready' \in [Shell -> Seq(Handlers)]
      /\ \A o \in Shell \ {s} : ready'[o] = ready[o]
      /\ \A h : Has(s, h)' => Has(s, h) \/ getline(s)
  <2>1. CASE typed' = typed /\ Runs(s, <<>>)
    <3>1. <<>> \in Seq(Handlers)
      OBVIOUS
    <3>2. /\ ready' \in [Shell -> Seq(Handlers)]
          /\ \A o \in Shell \ {s} : ready'[o] = ready[o]
          /\ \A h : Has(s, h)' => Has(s, h) \/ \E i \in DOMAIN <<>> : <<>>[i] = h
      BY <1>1, <2>1, <3>1, RunsType
    <3>3. \A h : ~\E i \in DOMAIN <<>> : <<>>[i] = h
      OBVIOUS
    <3>4. typed' \in [Shell -> Seq(Int)]
      BY <1>1, <2>1 DEF TypeOK
    <3> QED BY <3>2, <3>3, <3>4
  <2>2. CASE getline(s) /\ do_write(s, toShellMsg'[s])
    <3>1. toShellMsg'[s] \in Seq(Int)
      BY <1>4
    <3> QED BY <1>1, <2>2, <3>1, WriteType
  <2> QED BY <2>1, <2>2, ReadStep
<1>7. /\ timer' \in [Shell -> BOOLEAN]
      /\ \A o \in Shell \ {s} : timer'[o] = timer[o]
      /\ timer'[s] => timer[s] \/ getline(s)
  <2>1. timer' = timer \/ (getline(s) /\ timer' = [timer EXCEPT ![s] = TRUE])
    BY ReadStep
  <2> QED BY <1>1, <2>1 DEF TypeOK
<1>8. TypeOK'
  BY <1>1, <1>2, <1>4, <1>5, <1>6, <1>7 DEF TypeOK, Handlers, WebItem
<1>9. ASSUME NEW o \in Shell PROVE MsgHeld(o)'
  <2>1. CASE o = s /\ getline(s)
    BY <1>4, <2>1 DEF MsgHeld
  <2>2. CASE o = s /\ ~getline(s)
    <3>1. toShellMsg'[s] = toShellMsg[s]
      BY <1>3, <2>2
    <3>2. \A h : Has(s, h)' => Has(s, h)
      BY <1>6, <2>2
    <3>3. timer'[s] => timer[s]
      BY <1>7, <2>2, Zenon
    <3>4. MsgHeld(s)
      BY DEF TypeInv
    <3> QED BY <2>2, <3>1, <3>2, <3>3, <3>4 DEF MsgHeld
  <2>3. CASE o # s
    BY <1>4, <1>6, <1>7, <2>3 DEF MsgHeld, TypeInv, Has
  <2> QED BY <2>1, <2>2, <2>3
<1> QED BY <1>8, <1>9 DEF TypeInv

LEMMA FireType == ASSUME TypeInv, NEW s \in Shell, Fire(s) PROVE TypeInv'
<1>1. /\ TypeOK /\ ready[s] # <<>> /\ Head(ready[s]) = "timer" /\ do_write(s, toShellMsg[s])
      /\ UNCHANGED <<program, up, pc, timer, data_, file, toShellMsg, browser, remote, seen, cut>>
  BY DEF Fire, TypeInv
<1>2. toShellMsg[s] \in Seq(Int)
  BY <1>1 DEF TypeOK
<1>3. /\ typed' \in [Shell -> Seq(Int)] /\ ready' \in [Shell -> Seq(Handlers)]
      /\ \A o \in Shell \ {s} : ready'[o] = ready[o]
      /\ \A h : Has(s, h)' => Has(s, h) \/ h = "wrote"
  BY <1>1, <1>2, WriteType
<1>4. Has(s, "timer")
  <2>1. ready[s] \in Seq(Handlers)
    BY <1>1 DEF TypeOK, Handlers
  <2>2. 1 \in DOMAIN ready[s] /\ ready[s][1] = "timer"
    BY <1>1, <2>1
  <2> QED BY <2>2 DEF Has
<1>5. TypeOK'
  BY <1>1, <1>3 DEF TypeOK, browser, remote, Handlers
<1>6. ASSUME NEW o \in Shell PROVE MsgHeld(o)'
  <2>1. MsgHeld(o)
    BY DEF TypeInv
  <2>2. CASE o = s
    <3>1. toShellMsg[s] # <<>>
      BY <1>4, <2>1, <2>2 DEF MsgHeld
    <3> QED BY <1>1, <2>2, <3>1 DEF MsgHeld
  <2>3. CASE o # s
    BY <1>1, <1>3, <2>1, <2>3 DEF MsgHeld, Has
  <2> QED BY <2>2, <2>3
<1> QED BY <1>5, <1>6 DEF TypeInv

\* escape keeps the length, and turns every newline into ESC.
LEMMA EscapeType ==
  ASSUME NEW msg \in Seq(Int)
  PROVE  /\ escape(msg) \in Seq(Int) /\ Len(escape(msg)) = Len(msg)
         /\ DOMAIN escape(msg) = DOMAIN msg
         /\ \A i \in DOMAIN msg : escape(msg)[i] = IF msg[i] = NL THEN ESC ELSE msg[i]
         /\ msg # <<>> => escape(msg) # <<>>
<1>1. DOMAIN msg = 1 .. Len(msg) /\ Len(msg) \in Nat
  OBVIOUS
<1>2. \A i \in 1 .. Len(msg) : escape(msg)[i] = IF msg[i] = NL THEN ESC ELSE msg[i]
  BY <1>1 DEF escape
<1>3. escape(msg) \in [1 .. Len(msg) -> Int]
  BY <1>1 DEF escape, ESC
<1>4. escape(msg) \in Seq(Int) /\ Len(escape(msg)) = Len(msg)
  BY <1>1, <1>3
<1> QED BY <1>1, <1>2, <1>3, <1>4

LEMMA WroteStep ==
  ASSUME NEW s \in Shell, Wrote(s) \/ WroteWeb(s)
  PROVE  /\ ready[s] # <<>> /\ Head(ready[s]) = "wrote" /\ Runs(s, <<>>)
         /\ UNCHANGED <<program, up, pc, timer, data_, file, shell, said, taken, chats, seen,
                        typed, cut>>
         /\ \/ /\ program # "cgi" /\ Output(s, Echo(toShellMsg[s]))
               /\ toShellMsg' = [toShellMsg EXCEPT ![s] = escape(@)]
            \/ /\ program = "cgi" \/ shell[s] = "closed"
               /\ UNCHANGED <<page, web, toShellMsg>>
  BY DEF Wrote, WroteWeb, browser, remote

LEMMA WroteType == ASSUME TypeInv, NEW s \in Shell, Wrote(s) \/ WroteWeb(s) PROVE TypeInv'
<1>1. /\ TypeOK /\ ready[s] # <<>> /\ Head(ready[s]) = "wrote" /\ Runs(s, <<>>)
      /\ UNCHANGED <<program, up, pc, timer, data_, file, shell, said, taken, chats, seen,
                     typed, cut>>
  BY WroteStep DEF TypeInv
<1>2. /\ toShellMsg \in [Shell -> Seq(Int)] /\ toShellMsg[s] \in Seq(Int)
      /\ page \in [Shell -> Seq(Shown)] /\ web \in Seq(WebItem)
  BY <1>1 DEF TypeOK, WebItem
<1>3. toShellMsg[s] # <<>>
  <2>1. ready[s] \in Seq(Handlers)
    BY <1>1 DEF TypeOK, Handlers
  <2>2. 1 \in DOMAIN ready[s] /\ ready[s][1] = "wrote"
    BY <1>1, <2>1
  <2> QED BY <2>2 DEF TypeInv, MsgHeld, Has
<1>4. /\ ready' \in [Shell -> Seq(Handlers)]
      /\ \A o \in Shell \ {s} : ready'[o] = ready[o]
      /\ \A h : Has(s, h)' => Has(s, h)
  <2>1. <<>> \in Seq(Handlers)
    OBVIOUS
  <2>2. /\ ready' \in [Shell -> Seq(Handlers)]
        /\ \A o \in Shell \ {s} : ready'[o] = ready[o]
        /\ \A h : Has(s, h)' => Has(s, h) \/ \E i \in DOMAIN <<>> : <<>>[i] = h
    BY <1>1, <2>1, RunsType
  <2>3. \A h : ~\E i \in DOMAIN <<>> : <<>>[i] = h
    OBVIOUS
  <2> QED BY <2>2, <2>3
<1>5. /\ toShellMsg' \in [Shell -> Seq(Int)] /\ page' \in [Shell -> Seq(Shown)]
      /\ web' \in Seq(WebItem)
      /\ \A o \in Shell : toShellMsg'[o] # <<>> \/ toShellMsg'[o] = toShellMsg[o]
  <2>1. CASE UNCHANGED <<page, web, toShellMsg>>
    BY <1>2, <2>1
  <2>2. CASE /\ Output(s, Echo(toShellMsg[s]))
             /\ toShellMsg' = [toShellMsg EXCEPT ![s] = escape(toShellMsg[s])]
    <3>1. escape(toShellMsg[s]) \in Seq(Int) /\ escape(toShellMsg[s]) # <<>>
      BY <1>2, <1>3, EscapeType
    <3>2. toShellMsg[s][1] \in Int
      BY <1>2, <1>3
    <3>3. \A u \in Shown : <<u>> \in Seq(Shown)
      OBVIOUS
    <3>4. Echo(toShellMsg[s]) \in Seq(Shown)
      BY <3>2, <3>3, UnitTypes DEF Echo
    <3>5. page' \in [Shell -> Seq(Shown)] /\ web' = web
      BY <1>1, <2>2, <3>4, OutputType
    <3> QED BY <1>2, <2>2, <3>1, <3>5
  <2> QED BY <2>1, <2>2, WroteStep
<1>6. TypeOK'
  BY <1>1, <1>4, <1>5 DEF TypeOK, Handlers, WebItem
<1>7. ASSUME NEW o \in Shell PROVE MsgHeld(o)'
  <2>1. MsgHeld(o)
    BY DEF TypeInv
  <2>2. \A h : Has(o, h)' => Has(o, h)
    BY <1>4 DEF Has
  <2> QED BY <1>1, <1>5, <2>1, <2>2 DEF MsgHeld
<1> QED BY <1>6, <1>7 DEF TypeInv

-----------------------------------------------------------------------------
(* Every step is one of these.                                             *)

LEMMA Steps ==
  ASSUME Next
  PROVE  \/ up' = FALSE
            /\ UNCHANGED <<program, client, browser, remote, seen, typed, cut>>
         \/ WebWritten
         \/ \E s \in Shell :
              \/ Connecting(s) \/ do_read(s) \/ Fire(s) \/ Wrote(s) \/ WroteWeb(s)
              \/ Receive(s) \/ Expire(s) \/ ShowPrompt(s) \/ TakeLine(s) \/ Chat(s)
  BY DEF Next, Done, Handler, Completes, Speaks, Connecting

LEMMA InitType == Init => TypeInv
<1>1. \A S : <<>> \in Seq(S)
  OBVIOUS
<1>2. ASSUME Init PROVE TypeOK
  <2>1. \A S : [s \in Shell |-> <<>>] \in [Shell -> Seq(S)]
    BY <1>1
  <2>2. /\ ready \in [Shell -> Seq({"read", "wrote", "timer"})] /\ data_ \in [Shell -> Seq(Text)]
        /\ toShellMsg \in [Shell -> Seq(Int)] /\ page \in [Shell -> Seq(Shown)]
        /\ said \in [Shell -> Seq(Text)] /\ typed \in [Shell -> Seq(Int)]
        /\ web \in Seq([to : Shell, text : Seq(Shown)])
    BY <1>1, <1>2, <2>1 DEF Init
  <2>3. \A s \in Shell : file[s] <= Lines[s] + 1
    <3>1. file = [s \in Shell |-> 0] /\ \A s \in Shell : Lines[s] \in Nat
      BY <1>2, ConsoleAssumption DEF Init
    <3> QED BY <3>1
  <2>4. /\ program \in {"project3", "project4", "cgi"} /\ up \in BOOLEAN
        /\ pc \in [Shell -> {"resolve", "connect", "request", "reply", "read",
                             "failed", "unknown", "refused"}]
        /\ timer \in [Shell -> BOOLEAN] /\ file \in [Shell -> Nat]
        /\ shell \in [Shell -> {"none", "busy", "prompted", "closed"}]
        /\ seen \in [Shell -> Nat] /\ taken \in [Shell -> Nat] /\ chats \in [Shell -> Nat]
        /\ cut \in [Shell -> BOOLEAN]
    BY <1>2 DEF Init
  <2> QED BY <2>2, <2>3, <2>4 DEF TypeOK
<1>3. Init => \A s \in Shell : MsgHeld(s)
  BY DEF Init, MsgHeld, Has
<1> QED BY <1>2, <1>3 DEF TypeInv

LEMMA NextType == TypeInv /\ [Next]_vars => TypeInv'
<1> SUFFICES ASSUME TypeInv, [Next]_vars PROVE TypeInv'
  OBVIOUS
<1>1. CASE UNCHANGED vars
  BY <1>1 DEF vars, client, browser, remote, TypeInv, TypeOK, MsgHeld, Has
<1>2. CASE up' = FALSE /\ UNCHANGED <<program, client, browser, remote, seen, typed, cut>>
  BY <1>2 DEF client, browser, remote, TypeInv, TypeOK, MsgHeld, Has
<1>3. CASE Next
  BY <1>2, <1>3, Steps, WebWrittenType, ConnectingType, ReadType, FireType, WroteType,
     ReceiveType, ExpireType, ShowPromptType, TakeLineType, ChatType
<1> QED BY <1>1, <1>3

\* Every variable has its type, and no handler takes the first character of an empty line.
THEOREM TypeCorrect == Spec => []TypeOK
<1>1. Spec => []TypeInv
  BY InitType, NextType, PTL DEF Spec
<1>2. TypeInv => TypeOK
  BY DEF TypeInv
<1> QED BY <1>1, <1>2, PTL

-----------------------------------------------------------------------------
(* Counting: newlines in what was typed, timers among the handlers, marks  *)
(* and prompts in what was said.                                           *)

Positions(q, v) == {i \in DOMAIN q : q[i] = v}
Times(q, v) == Cardinality(Positions(q, v))

MarkPositions(q) == {i \in DOMAIN q : q[i].c = "%"}
Marks(q) == Cardinality(MarkPositions(q))

LEMMA PartOfInterval ==
  ASSUME NEW n \in Nat, NEW A \in SUBSET (1 .. n)
  PROVE  IsFiniteSet(A) /\ Cardinality(A) \in Nat
<1>1. IsFiniteSet(1 .. n)
  BY FS_Interval
<1>2. IsFiniteSet(A)
  BY <1>1, FS_Subset
<1> QED BY <1>2, FS_CardinalityType

\* The positions of a sequence, then those of another that follows it.
Follows(n, A, B, T) ==
  /\ n \in Nat /\ A \subseteq 1 .. n /\ B \subseteq Nat \ {0} /\ T \subseteq Nat
  /\ \A i \in Nat : i \in T <=> i \in A \/ (i > n /\ i - n \in B)

LEMMA CountBoth ==
  ASSUME NEW n, NEW A, NEW B, NEW T, Follows(n, A, B, T), IsFiniteSet(B)
  PROVE  Cardinality(T) = Cardinality(A) + Cardinality(B)
<1> USE DEF Follows
<1> DEFINE C == T \ A
           f == [b \in B |-> n + b]
<1>1. IsFiniteSet(A) /\ Cardinality(A) \in Nat /\ Cardinality(B) \in Nat
  BY PartOfInterval, FS_CardinalityType
<1>2. f \in Bijection(B, C)
  <2>1. \A b \in B : n + b \in C
    OBVIOUS
  <2>2. f \in [B -> C] /\ \A b \in B : f[b] = n + b
    BY <2>1
  <2>3. \A a, b \in B : f[a] = f[b] => a = b
    BY <2>2
  <2>4. \A c \in C : \E b \in B : f[b] = c
    <3> SUFFICES ASSUME NEW c \in C PROVE \E b \in B : f[b] = c
      OBVIOUS
    <3>1. c \in Nat /\ c \in T /\ c \notin A
      OBVIOUS
    <3>2. c > n /\ c - n \in B
      BY <3>1
    <3>3. f[c - n] = c
      BY <2>2, <3>1, <3>2
    <3> QED BY <3>2, <3>3
  <2> QED BY <2>2, <2>3, <2>4 DEF Bijection, Injection, Surjection, IsInjective
<1>3. IsFiniteSet(C) /\ Cardinality(C) = Cardinality(B)
  <2>1. ExistsBijection(B, C)
    BY <1>2 DEF ExistsBijection
  <2> HIDE DEF C
  <2> QED BY <1>1, <2>1, FS_Bijection
<1>4. A \cap C = {} /\ T = A \cup C
  <2>1. \A i \in A : i \in Nat /\ i \in T
    OBVIOUS
  <2> QED BY <2>1
<1>5. Cardinality(A \cap C) = 0
  BY <1>4, FS_EmptySet
<1> HIDE DEF C
<1>6. Cardinality(A \cup C) = Cardinality(A) + Cardinality(C) - Cardinality(A \cap C)
  BY <1>1, <1>3, FS_Union
<1> QED BY <1>1, <1>3, <1>4, <1>5, <1>6

LEMMA TimesType ==
  ASSUME NEW S, NEW q \in Seq(S), NEW v
  PROVE  /\ Positions(q, v) \in SUBSET (1 .. Len(q)) /\ IsFiniteSet(Positions(q, v))
         /\ Times(q, v) \in Nat
         /\ Times(q, v) = 0 <=> \A i \in DOMAIN q : q[i] # v
<1>1. Positions(q, v) \in SUBSET (1 .. Len(q)) /\ Len(q) \in Nat
  BY DEF Positions
<1>2. IsFiniteSet(Positions(q, v)) /\ Times(q, v) \in Nat
  BY <1>1, PartOfInterval DEF Times
<1>3. Times(q, v) = 0 <=> Positions(q, v) = {}
  BY <1>2, FS_EmptySet DEF Times
<1> QED BY <1>1, <1>2, <1>3 DEF Positions

LEMMA TimesConcat ==
  ASSUME NEW S, NEW q \in Seq(S), NEW r \in Seq(S), NEW v
  PROVE  Times(q \o r, v) = Times(q, v) + Times(r, v)
<1>1. /\ Len(q) \in Nat /\ Len(r) \in Nat
      /\ Positions(q, v) \in SUBSET (1 .. Len(q)) /\ Positions(r, v) \in SUBSET (1 .. Len(r))
  BY TimesType
<1>2. /\ DOMAIN (q \o r) = 1 .. Len(q) + Len(r)
      /\ DOMAIN q = 1 .. Len(q) /\ DOMAIN r = 1 .. Len(r)
      /\ \A i \in 1 .. Len(q) + Len(r) :
           (q \o r)[i] = IF i <= Len(q) THEN q[i] ELSE r[i - Len(q)]
  BY ConcatProperties, LenProperties
<1>3. ASSUME NEW i \in Nat
      PROVE  i \in Positions(q \o r, v)
               <=> i \in Positions(q, v) \/ (i > Len(q) /\ i - Len(q) \in Positions(r, v))
  BY <1>1, <1>2 DEF Positions
<1>4. Positions(q \o r, v) \in SUBSET Nat
  BY <1>1, <1>2 DEF Positions
<1>5. Cardinality(Positions(q \o r, v))
        = Cardinality(Positions(q, v)) + Cardinality(Positions(r, v))
  <2> DEFINE n == Len(q)
             A == Positions(q, v)
             B == Positions(r, v)
             T == Positions(q \o r, v)
  <2>1. Follows(n, A, B, T) /\ IsFiniteSet(B)
    BY <1>1, <1>3, <1>4, TimesType DEF Follows
  <2> HIDE DEF n, A, B, T
  <2>2. Cardinality(T) = Cardinality(A) + Cardinality(B)
    BY <2>1, CountBoth
  <2> QED BY <2>2 DEF T, A, B
<1> QED BY <1>5 DEF Times

LEMMA TimesOne ==
  ASSUME NEW x, NEW v
  PROVE  Times(<<x>>, v) = (IF x = v THEN 1 ELSE 0) /\ Times(<<>>, v) = 0
<1>1. Positions(<<x>>, v) = IF x = v THEN {1} ELSE {}
  BY DEF Positions
<1>2. Positions(<<>>, v) = {}
  BY DEF Positions
<1> QED BY <1>1, <1>2, FS_EmptySet, FS_Singleton DEF Times

LEMMA TimesAppend ==
  ASSUME NEW S, NEW q \in Seq(S), NEW x \in S, NEW v
  PROVE  Times(Append(q, x), v) = Times(q, v) + IF x = v THEN 1 ELSE 0
<1>1. Append(q, x) = q \o <<x>> /\ <<x>> \in Seq(S)
  OBVIOUS
<1>2. Times(q \o <<x>>, v) = Times(q, v) + Times(<<x>>, v)
  BY <1>1, TimesConcat, Zenon
<1> QED BY <1>1, <1>2, TimesOne

LEMMA TimesTail ==
  ASSUME NEW S, NEW q \in Seq(S), q # <<>>, NEW v
  PROVE  Times(q, v) = Times(Tail(q), v) + IF Head(q) = v THEN 1 ELSE 0
<1>1. Head(q) \in S /\ Tail(q) \in Seq(S) /\ <<Head(q)>> \in Seq(S)
  OBVIOUS
<1>2. q = <<Head(q)>> \o Tail(q)
  OBVIOUS
<1>3. Times(q, v) = Times(<<Head(q)>>, v) + Times(Tail(q), v)
  <2>1. Times(<<Head(q)>> \o Tail(q), v) = Times(<<Head(q)>>, v) + Times(Tail(q), v)
    BY <1>1, TimesConcat, Zenon
  <2> QED BY <1>2, <2>1, Zenon
<1>4. Times(Tail(q), v) \in Nat
  BY <1>1, TimesType
<1> QED BY <1>3, <1>4, TimesOne

\* What a shell says: a mark for each "%", a prompt where a space follows it.
LEMMA MarksAre ==
  ASSUME NEW q \in Seq(Text)
  PROVE  /\ [i \in DOMAIN q |-> q[i].c] \in Seq({"%", "sp", "text", "out"})
         /\ Marks(q) = Times([i \in DOMAIN q |-> q[i].c], "%")
<1>1. DOMAIN q = 1 .. Len(q) /\ Len(q) \in Nat /\ \A i \in 1 .. Len(q) : q[i] \in Text
  BY LenProperties, ElementOfSeq
<1> DEFINE r == [i \in 1 .. Len(q) |-> q[i].c]
<1>2. r \in [1 .. Len(q) -> {"%", "sp", "text", "out"}]
  BY <1>1 DEF Text
<1>3. r \in Seq({"%", "sp", "text", "out"})
  BY <1>1, <1>2, SeqDef
<1>4. MarkPositions(q) = Positions(r, "%")
  BY <1>1 DEF MarkPositions, Positions
<1> QED BY <1>1, <1>3, <1>4 DEF Marks, Times

LEMMA MarksConcat ==
  ASSUME NEW q \in Seq(Text), NEW r \in Seq(Text)
  PROVE  Marks(q \o r) = Marks(q) + Marks(r) /\ Marks(q) \in Nat /\ Marks(r) \in Nat
<1> DEFINE Ch(t) == [i \in DOMAIN t |-> t[i].c]
           Letters == {"%", "sp", "text", "out"}
<1>1. q \o r \in Seq(Text)
  OBVIOUS
<1>2. /\ Ch(q) \in Seq(Letters) /\ Ch(r) \in Seq(Letters) /\ Ch(q \o r) \in Seq(Letters)
      /\ Marks(q) = Times(Ch(q), "%") /\ Marks(r) = Times(Ch(r), "%")
      /\ Marks(q \o r) = Times(Ch(q \o r), "%")
  BY <1>1, MarksAre, Zenon
<1>3. Ch(q \o r) = Ch(q) \o Ch(r)
  <2>1. /\ Len(q) \in Nat /\ DOMAIN q = 1 .. Len(q) /\ Len(r) \in Nat /\ DOMAIN r = 1 .. Len(r)
        /\ Len(q \o r) = Len(q) + Len(r) /\ DOMAIN (q \o r) = 1 .. Len(q) + Len(r)
        /\ \A i \in 1 .. Len(q) + Len(r) :
             (q \o r)[i] = IF i <= Len(q) THEN q[i] ELSE r[i - Len(q)]
    BY <1>1, LenProperties, ConcatProperties
  <2>2. /\ \A i \in 1 .. Len(q) : Ch(q)[i] = q[i].c
        /\ \A i \in 1 .. Len(r) : Ch(r)[i] = r[i].c
        /\ \A i \in 1 .. Len(q) + Len(r) : Ch(q \o r)[i] = (q \o r)[i].c
        /\ DOMAIN Ch(q) = 1 .. Len(q) /\ DOMAIN Ch(r) = 1 .. Len(r)
        /\ DOMAIN Ch(q \o r) = 1 .. Len(q) + Len(r)
    BY <2>1
  <2> HIDE DEF Ch, Letters
  <2>3. Len(Ch(q)) = Len(q) /\ Len(Ch(r)) = Len(r) /\ Len(Ch(q \o r)) = Len(q) + Len(r)
    BY <1>2, <2>1, <2>2
  <2>4. /\ Ch(q) \o Ch(r) \in Seq(Letters)
        /\ Len(Ch(q) \o Ch(r)) = Len(q) + Len(r)
        /\ \A i \in 1 .. Len(q) + Len(r) :
             (Ch(q) \o Ch(r))[i] = IF i <= Len(q) THEN Ch(q)[i] ELSE Ch(r)[i - Len(q)]
    <3> DEFINE x == Ch(q)
               y == Ch(r)
    <3>1. x \in Seq(Letters) /\ y \in Seq(Letters) /\ Len(x) = Len(q) /\ Len(y) = Len(r)
      BY <1>2, <2>3
    <3> HIDE DEF x, y
    <3>2. /\ x \o y \in Seq(Letters) /\ Len(x \o y) = Len(x) + Len(y)
          /\ \A i \in 1 .. Len(x) + Len(y) :
               (x \o y)[i] = IF i <= Len(x) THEN x[i] ELSE y[i - Len(x)]
      BY <3>1, ConcatProperties
    <3>3. /\ x \o y \in Seq(Letters) /\ Len(x \o y) = Len(q) + Len(r)
          /\ \A i \in 1 .. Len(q) + Len(r) :
               (x \o y)[i] = IF i <= Len(q) THEN x[i] ELSE y[i - Len(q)]
      BY <3>1, <3>2
    <3> QED BY <3>3 DEF x, y
  <2>5. \A i \in 1 .. Len(Ch(q \o r)) : Ch(q \o r)[i] = (Ch(q) \o Ch(r))[i]
    <3> SUFFICES ASSUME NEW i \in 1 .. Len(q) + Len(r)
                 PROVE  Ch(q \o r)[i] = (Ch(q) \o Ch(r))[i]
      BY <2>3
    <3>1. CASE i <= Len(q)
      BY <2>1, <2>2, <2>4, <3>1
    <3>2. CASE i > Len(q)
      <4>1. i - Len(q) \in 1 .. Len(r)
        BY <2>1, <3>2
      <4>2. (q \o r)[i] = r[i - Len(q)] /\ (Ch(q) \o Ch(r))[i] = Ch(r)[i - Len(q)]
        BY <2>1, <2>4, <3>2
      <4> QED BY <2>2, <4>1, <4>2
    <3>3. i \in Int /\ Len(q) \in Int
      BY <2>1
    <3>4. i <= Len(q) \/ i > Len(q)
      BY <3>3
    <3> QED BY <3>1, <3>2, <3>4, Zenon
  <2> QED BY <1>2, <2>3, <2>4, <2>5, SeqEqual
<1> HIDE DEF Ch, Letters
<1>4. Times(Ch(q) \o Ch(r), "%") = Times(Ch(q), "%") + Times(Ch(r), "%")
  BY <1>2, TimesConcat, Zenon
<1>5. Marks(q) \in Nat /\ Marks(r) \in Nat
  BY <1>2, TimesType
<1> QED BY <1>2, <1>3, <1>4, <1>5

LEMMA MarksOne ==
  ASSUME NEW u \in Text
  PROVE  Marks(<<u>>) = (IF u.c = "%" THEN 1 ELSE 0)
<1>1. MarkPositions(<<u>>) = IF u.c = "%" THEN {1} ELSE {}
  BY DEF MarkPositions
<1> QED BY <1>1, FS_EmptySet, FS_Singleton DEF Marks

LEMMA MarksOfPrompt == Marks(Prompt) = 1
<1>1. Prompt = <<Unit("%", 1)>> \o <<Unit("sp", 1)>>
  BY DEF Prompt
<1>2. Unit("%", 1) \in Text /\ Unit("sp", 1) \in Text
  BY UnitTypes
<1>3. <<Unit("%", 1)>> \in Seq(Text) /\ <<Unit("sp", 1)>> \in Seq(Text)
  <2>1. \A u \in Text : <<u>> \in Seq(Text)
    OBVIOUS
  <2> QED BY <1>2, <2>1
<1>4. Marks(<<Unit("%", 1)>>) = 1 /\ Marks(<<Unit("sp", 1)>>) = 0
  <2>1. Unit("%", 1).c = "%" /\ Unit("sp", 1).c = "sp"
    BY DEF Unit
  <2> QED BY <1>2, <2>1, MarksOne
<1> DEFINE x == <<Unit("%", 1)>>
           y == <<Unit("sp", 1)>>
<1>5. x \in Seq(Text) /\ y \in Seq(Text) /\ Prompt = x \o y /\ Marks(x) = 1 /\ Marks(y) = 0
  BY <1>1, <1>3, <1>4
<1> HIDE DEF x, y
<1> QED BY <1>5, MarksConcat

LEMMA NoMarks ==
  ASSUME NEW q \in Seq(Text), \A i \in DOMAIN q : q[i].c # "%"
  PROVE  Marks(q) = 0
<1>1. MarkPositions(q) = {}
  BY DEF MarkPositions
<1> QED BY <1>1, FS_EmptySet DEF Marks

\* Where a prompt ends in the first n units of q.
Ends(q, n) == {i \in 2 .. n : q[i - 1].c = "%" /\ q[i].c = "sp"}

\* How many prompts a client has been sent.
Met(q, n) == Cardinality(Ends(q, n))

LEMMA EndsType ==
  ASSUME NEW q \in Seq(Text), NEW n \in 0 .. Len(q)
  PROVE  /\ Ends(q, n) \in SUBSET (1 .. n) /\ IsFiniteSet(Ends(q, n)) /\ Met(q, n) \in Nat
         /\ Prompts(SubSeq(q, 1, n)) = Met(q, n)
<1>1. n \in Nat /\ Len(q) \in Nat
  BY LenProperties
<1>2. Ends(q, n) \in SUBSET (1 .. n)
  BY <1>1 DEF Ends
<1>3. IsFiniteSet(Ends(q, n)) /\ Met(q, n) \in Nat
  BY <1>1, <1>2, PartOfInterval DEF Met
<1>4. PromptEnds(SubSeq(q, 1, n)) = Ends(q, n)
  <2>1. \A i \in 1 .. n : q[i] \in Text
    BY <1>1, ElementOfSeq
  <2>2. Len(SubSeq(q, 1, n)) = n /\ \A i \in 1 .. n : SubSeq(q, 1, n)[i] = q[i]
    BY <1>1, <2>1, SubSeqProperties
  <2> QED BY <1>1, <2>2 DEF PromptEnds, Ends
<1> QED BY <1>2, <1>3, <1>4 DEF Prompts, Met

\* No more prompts than marks.
LEMMA MetMarks ==
  ASSUME NEW q \in Seq(Text), NEW n \in 0 .. Len(q)
  PROVE  Met(q, n) <= Marks(q)
<1> DEFINE f == [i \in Ends(q, n) |-> i - 1]
<1>1. Len(q) \in Nat /\ DOMAIN q = 1 .. Len(q) /\ n \in Nat
  BY LenProperties
<1>2. f \in Injection(Ends(q, n), MarkPositions(q))
  <2>1. \A i \in Ends(q, n) : i \in 2 .. n /\ i - 1 \in MarkPositions(q)
    BY <1>1 DEF Ends, MarkPositions
  <2>2. f \in [Ends(q, n) -> MarkPositions(q)] /\ \A i \in Ends(q, n) : f[i] = i - 1
    BY <2>1
  <2>3. \A i, j \in Ends(q, n) : f[i] = f[j] => i = j
    BY <2>1, <2>2
  <2> QED BY <2>2, <2>3 DEF Injection, IsInjective
<1>3. IsFiniteSet(MarkPositions(q))
  <2>1. MarkPositions(q) \in SUBSET (1 .. Len(q))
    BY <1>1 DEF MarkPositions
  <2> QED BY <1>1, <2>1, PartOfInterval
<1> HIDE DEF f
<1>4. Cardinality(Ends(q, n)) <= Cardinality(MarkPositions(q))
  BY <1>2, <1>3, FS_Injection
<1> QED BY <1>4 DEF Met, Marks

\* A read that brings a prompt makes it one more at least.
LEMMA MetMore ==
  ASSUME NEW q \in Seq(Text), NEW n \in 0 .. Len(q), NEW m \in n .. Len(q)
  PROVE  Met(q, n) + (IF HasPrompt(SubSeq(q, n + 1, m)) THEN 1 ELSE 0) <= Met(q, m)
<1>1. Len(q) \in Nat /\ n \in Nat /\ m \in Nat /\ n <= m /\ m <= Len(q)
  BY LenProperties
<1>2. Ends(q, n) \subseteq Ends(q, m)
  BY <1>1 DEF Ends
<1>3. IsFiniteSet(Ends(q, m)) /\ IsFiniteSet(Ends(q, n)) /\ Met(q, n) \in Nat /\ Met(q, m) \in Nat
  BY <1>1, EndsType
<1>4. Met(q, n) <= Met(q, m)
  BY <1>2, <1>3, FS_Subset DEF Met
<1>5. ASSUME HasPrompt(SubSeq(q, n + 1, m)) PROVE Met(q, n) + 1 <= Met(q, m)
  <2>1. \A i \in n + 1 .. m : q[i] \in Text
    BY <1>1, ElementOfSeq
  <2>2. /\ Len(SubSeq(q, n + 1, m)) = m - n
        /\ \A i \in 1 .. m - n : SubSeq(q, n + 1, m)[i] = q[n + i]
    BY <1>1, <2>1, SubSeqProperties
  <2>3. PICK i \in 2 .. m - n : q[n + (i - 1)].c = "%" /\ q[n + i].c = "sp"
    <3> DEFINE d == SubSeq(q, n + 1, m)
    <3>1. PICK i \in PromptEnds(d) : TRUE
      BY <1>5 DEF HasPrompt
    <3> HIDE DEF d
    <3>2. i \in 2 .. Len(d) /\ d[i - 1].c = "%" /\ d[i].c = "sp"
      BY <3>1 DEF PromptEnds
    <3>3. Len(d) = m - n /\ \A j \in 1 .. m - n : d[j] = q[n + j]
      BY <2>2 DEF d
    <3>4. i \in 2 .. m - n /\ d[i - 1] = q[n + (i - 1)] /\ d[i] = q[n + i]
      BY <1>1, <3>2, <3>3
    <3> QED BY <3>2, <3>4
  <2>4. n + i \in Ends(q, m) /\ n + i \notin Ends(q, n)
    <3>1. n + i \in 2 .. m /\ n + (i - 1) = (n + i) - 1 /\ n + i > n
      BY <1>1, <2>3
    <3> QED BY <1>1, <2>3, <3>1 DEF Ends
  <2>5. Ends(q, n) # Ends(q, m)
    BY <2>4
  <2>6. Met(q, n) # Met(q, m)
    BY <1>2, <1>3, <2>5, FS_Subset DEF Met
  <2> QED BY <1>3, <1>4, <2>6
<1> QED BY <1>3, <1>4, <1>5

\* What is said later changes nothing about what was.
LEMMA MetConcat ==
  ASSUME NEW q \in Seq(Text), NEW r \in Seq(Text), NEW n \in 0 .. Len(q)
  PROVE  Met(q \o r, n) = Met(q, n)
<1>1. Len(q) \in Nat /\ Len(r) \in Nat
  BY LenProperties
<1>2. \A i \in 1 .. n : (q \o r)[i] = q[i]
  BY <1>1, ConcatProperties
<1>3. Ends(q \o r, n) = Ends(q, n)
  BY <1>1, <1>2 DEF Ends
<1> QED BY <1>3 DEF Met

-----------------------------------------------------------------------------
(* What holds of each shell and its client in every reachable state.       *)

Armed(s) == Times(ready[s], "timer") + IF timer[s] THEN 1 ELSE 0

\* The kinds of output a text holds, and the commands a column shows.
Outs(t) == {t[i].of : i \in {j \in DOMAIN t : t[j].c = "out"}}
Cmd(s, k) == \E i \in DOMAIN page[s] : page[s][i] = Unit("cmd", k)

\* A read waits in front of a write that is done.
Before(q) == \E i, j \in DOMAIN q : i < j /\ q[i] = "read" /\ q[j] = "wrote"

\* Then only a timer has put it there, and what was read came before the line.
Quiet(s) ==
  /\ program = "project3"
  /\ Stray(s) \/ (~HasPrompt(data_[s]) /\ \A k \in Outs(data_[s]) : Cmd(s, k))

Shape(s) ==
  /\ program # "project3" => Armed(s) = 0
  /\ Times(ready[s], "read") <= 1
  /\ Times(ready[s], "read") = 0 => data_[s] = <<>>
  /\ Outs(data_[s]) \subseteq Outs(said[s])
  /\ pc[s] # "read" => shell[s] = "none"
  /\ seen[s] <= Len(said[s]) /\ taken[s] <= Len(typed[s])
  /\ Before(ready[s]) => Quiet(s)

\* The newlines of the line that waits: one, and none once it was shown.
Clean(s) ==
  /\ file[s] <= Lines[s] => Times(toShellMsg[s], NL) <= 1
  /\ \/ program = "cgi" \/ Hurried(s) \/ shell[s] = "closed"
     \/ /\ Times(toShellMsg[s], NL) <= 1
        /\ \/ Times(ready[s], "wrote") > 0 \/ Armed(s) > 0
           \/ Times(toShellMsg[s], NL) = 0

\* Lines sent and lines under way, against prompts met.
Excused(s) == file[s] > Lines[s] /\ (program = "cgi" \/ Hurried(s) \/ shell[s] = "closed")

Paid(s) ==
  Excused(s) \/ Asked(s) + Armed(s) + (IF HasPrompt(data_[s]) THEN 1 ELSE 0)
                  <= Met(said[s], seen[s])

\* Unless a user says one, a shell says a mark for each line it takes, and one before.
Turns(s) ==
  Stray(s) \/ Marks(said[s]) = TakenLines(s) + IF shell[s] = "prompted" THEN 1 ELSE 0

\* Nothing is read after "exit".
Stops(s) == Stray(s) \/ Exit[s] > Lines[s] \/ file[s] <= Exit[s]

\* What was typed is the script as far as it was read; past its end, no line.
AsWritten(s, q) ==
  \A i \in DOMAIN q :
    /\ i <= 2 * Lines[s] => q[i] = IF i % 2 = 1 THEN (i + 1) \div 2 ELSE NL
    /\ i > 2 * Lines[s] => q[i] <= 0

Script(s) ==
  /\ AsWritten(s, typed[s])
  /\ file[s] <= Lines[s] =>
       /\ Asked(s) = file[s] - Armed(s) /\ Len(typed[s]) = 2 * (file[s] - Armed(s))
       /\ Armed(s) > 0 => toShellMsg[s] = <<file[s], NL>>
       /\ Times(ready[s], "wrote") > 0 => toShellMsg[s][1] = file[s] /\ file[s] > 0
  /\ file[s] > Lines[s] =>
       /\ Len(typed[s]) >= 2 * Lines[s]
       /\ \A i \in DOMAIN toShellMsg[s] : toShellMsg[s][i] <= 0
  /\ Armed(s) <= 1 /\ (Armed(s) > 0 => Times(ready[s], "wrote") = 0)

\* What the shell has taken of it: whole lines, none after "exit".
Took(s) ==
  /\ taken[s] <= 2 * Lines[s] => taken[s] = 2 * TakenLines(s)
  /\ shell[s] # "closed" => \A i \in 1 .. taken[s] : typed[s][i] # Exit[s]
  /\ shell[s] = "closed" => taken[s] = 2 * Exit[s] /\ Exit[s] <= Lines[s]
  /\ \A k \in Outs(said[s]) : k \in 1 .. Lines[s] /\ k < Exit[s] /\ 2 * k <= taken[s]

\* A line that was sent is on the page, or its handler is ready.
Echoed(s) ==
  \A k \in 1 .. Lines[s] : 2 * k <= Len(typed[s]) =>
    k >= Exit[s] \/ Cmd(s, k) \/ (Times(ready[s], "wrote") > 0 /\ toShellMsg[s][1] = k)

InStep(s) == Script(s) /\ Took(s) /\ (program = "cgi" \/ Echoed(s))

Shows(s) ==
  \A j \in DOMAIN page[s] : page[s][j].c = "out" =>
    Hurried(s) \/ \E i \in 1 .. j - 1 : page[s][i] \in {Unit("cmd", page[s][j].of), Junk}

Local(s) ==
  /\ Shape(s) /\ Clean(s) /\ Paid(s) /\ Turns(s) /\ Stops(s)
  /\ Hurried(s) \/ InStep(s)

(* The browser's side.  On an asynchronous socket a command may wait for   *)
(* it, in front of the output.                                             *)
Marked(s, k, t) == \E j \in DOMAIN t : t[j] \in {Unit("cmd", k), Junk}
Placed(s, k, n) ==
  Marked(s, k, page[s]) \/ \E i \in 1 .. n : web[i].to = s /\ Marked(s, k, web[i].text)

Browser(s) ==
  /\ Shows(s)
  /\ program # "cgi" => web = <<>>
  /\ program = "cgi" =>
       /\ \A k \in 1 .. Lines[s] : 2 * k <= Len(typed[s]) => Placed(s, k, Len(web))
       /\ \A i \in DOMAIN web : web[i].to = s =>
            \A k \in Outs(web[i].text) : Placed(s, k, i - 1)

IInv == TypeInv /\ \A s \in Shell : Local(s) /\ Browser(s)

-----------------------------------------------------------------------------
(* What a step leaves alone keeps what was true of it.                     *)

Same(o) ==
  /\ program' = program /\ pc'[o] = pc[o] /\ ready'[o] = ready[o] /\ timer'[o] = timer[o]
  /\ data_'[o] = data_[o] /\ file'[o] = file[o] /\ toShellMsg'[o] = toShellMsg[o]
  /\ shell'[o] = shell[o] /\ said'[o] = said[o] /\ seen'[o] = seen[o]
  /\ typed'[o] = typed[o] /\ taken'[o] = taken[o]

LEMMA Unchanging ==
  ASSUME NEW o \in Shell, Same(o)
  PROVE  /\ Armed(o)' = Armed(o) /\ Asked(o)' = Asked(o) /\ TakenLines(o)' = TakenLines(o)
         /\ Stray(o)' = Stray(o) /\ Hurried(o)' = Hurried(o)
<1> USE DEF Same
<1>1. Armed(o)' = Armed(o)
  BY DEF Armed
<1>2. Asked(o)' = Asked(o)
  BY DEF Asked
<1>3. TakenLines(o)' = TakenLines(o)
  BY DEF TakenLines
<1>4. Stray(o)' = Stray(o)
  BY DEF Stray
<1> QED BY <1>1, <1>2, <1>3, <1>4 DEF Hurried

LEMMA LocalSame ==
  ASSUME NEW o \in Shell, Local(o), Same(o), \A k : Cmd(o, k) => Cmd(o, k)'
  PROVE  Local(o)'
<1>1. /\ Armed(o)' = Armed(o) /\ Asked(o)' = Asked(o) /\ TakenLines(o)' = TakenLines(o)
      /\ Stray(o)' = Stray(o) /\ Hurried(o)' = Hurried(o)
  BY Unchanging
<1> USE DEF Same
<1>2. Shape(o)'
  BY <1>1 DEF Local, Shape, Quiet
<1>3. Clean(o)'
  BY <1>1 DEF Local, Clean
<1>4. Paid(o)'
  BY <1>1 DEF Local, Paid, Excused
<1>5. Turns(o)' /\ Stops(o)'
  BY <1>1 DEF Local, Turns, Stops
<1>6. InStep(o) => InStep(o)'
  <2>1. Script(o) => Script(o)'
    BY <1>1 DEF Script
  <2>2. Took(o) => Took(o)'
    BY <1>1 DEF Took
  <2>3. Echoed(o) => Echoed(o)'
    BY <1>1 DEF Echoed
  <2> QED BY <2>1, <2>2, <2>3 DEF InStep
<1> QED BY <1>1, <1>2, <1>3, <1>4, <1>5, <1>6 DEF Local

-----------------------------------------------------------------------------
(* The numbers of a shell, and how its queue of handlers moves.            *)

LEMMA Numbers ==
  ASSUME TypeInv, NEW s \in Shell, Shape(s)
  PROVE  /\ Armed(s) \in Nat /\ Asked(s) \in Nat /\ Asked(s) = Times(typed[s], NL)
         /\ TakenLines(s) \in Nat /\ TakenLines(s) <= Asked(s)
         /\ Met(said[s], seen[s]) \in Nat /\ Marks(said[s]) \in Nat
         /\ Met(said[s], seen[s]) <= Marks(said[s])
         /\ Lines[s] \in Nat /\ Exit[s] \in Nat \ {0} /\ file[s] \in Nat /\ file[s] <= Lines[s] + 1
         /\ taken[s] \in Nat /\ seen[s] \in Nat /\ Len(typed[s]) \in Nat /\ Len(said[s]) \in Nat
<1>1. /\ TypeOK /\ typed[s] \in Seq(Int) /\ said[s] \in Seq(Text) /\ ready[s] \in Seq(Handlers)
      /\ taken[s] \in Nat /\ seen[s] \in Nat /\ file[s] \in Nat /\ file[s] <= Lines[s] + 1
      /\ timer[s] \in BOOLEAN
  BY DEF TypeInv, TypeOK, Handlers
<1>2. Lines[s] \in Nat /\ Exit[s] \in Nat \ {0}
  BY ConsoleAssumption
<1>3. Len(typed[s]) \in Nat /\ Len(said[s]) \in Nat
  BY <1>1, LenProperties
<1>4. Armed(s) \in Nat
  <2>1. Times(ready[s], "timer") \in Nat
    BY <1>1, TimesType
  <2> QED BY <2>1 DEF Armed
<1>5. Asked(s) = Times(typed[s], NL) /\ Asked(s) \in Nat
  <2>1. Asked(s) = Times(typed[s], NL)
    BY DEF Asked, Times, Positions
  <2> QED BY <1>1, <2>1, TimesType
<1>6. TakenLines(s) \in Nat /\ TakenLines(s) <= Asked(s)
  <2> DEFINE A == {i \in 1 .. taken[s] : typed[s][i] = NL}
  <2>1. A \in SUBSET (1 .. taken[s])
    OBVIOUS
  <2>2. A \in SUBSET Positions(typed[s], NL)
    <3>1. DOMAIN typed[s] = 1 .. Len(typed[s]) /\ taken[s] <= Len(typed[s])
      BY <1>1, LenProperties DEF Shape
    <3> QED BY <1>1, <1>3, <3>1 DEF Positions
  <2>3. TakenLines(s) = Cardinality(A)
    BY DEF TakenLines
  <2> HIDE DEF A
  <2>4. Cardinality(A) \in Nat
    BY <1>1, <2>1, PartOfInterval
  <2>5. IsFiniteSet(Positions(typed[s], NL))
    BY <1>1, TimesType
  <2>6. Cardinality(A) <= Times(typed[s], NL)
    BY <2>2, <2>5, FS_Subset DEF Times
  <2> QED BY <1>5, <2>3, <2>4, <2>6
<1>7. seen[s] \in 0 .. Len(said[s])
  BY <1>1, <1>3 DEF Shape
<1>8. Met(said[s], seen[s]) \in Nat /\ Met(said[s], seen[s]) <= Marks(said[s])
  BY <1>1, <1>7, EndsType, MetMarks
<1>9. Marks(said[s]) \in Nat
  BY <1>1, MarksConcat
<1> QED BY <1>1, <1>2, <1>3, <1>4, <1>5, <1>6, <1>8, <1>9

\* Where nobody makes the shell say "%", lines sent and under way are at most one ahead
\* of those it has taken.
LEMMA InTurn ==
  ASSUME TypeInv, NEW s \in Shell, Local(s), ~Stray(s), ~Excused(s)
  PROVE  Asked(s) + Armed(s) + (IF HasPrompt(data_[s]) THEN 1 ELSE 0)
           <= TakenLines(s) + IF shell[s] = "prompted" THEN 1 ELSE 0
<1>1. Shape(s) /\ Paid(s) /\ Turns(s)
  BY DEF Local
<1>2. /\ Armed(s) \in Nat /\ Asked(s) \in Nat /\ TakenLines(s) \in Nat
      /\ Met(said[s], seen[s]) \in Nat /\ Marks(said[s]) \in Nat
      /\ Met(said[s], seen[s]) <= Marks(said[s])
  BY <1>1, Numbers
<1>3. Marks(said[s]) = TakenLines(s) + IF shell[s] = "prompted" THEN 1 ELSE 0
  BY <1>1 DEF Turns
<1>4. Asked(s) + Armed(s) + (IF HasPrompt(data_[s]) THEN 1 ELSE 0) <= Met(said[s], seen[s])
  BY <1>1 DEF Paid
<1> QED BY <1>2, <1>3, <1>4

\* With a timer, then no prompt comes while a line waits for it.
LEMMA OneWaits ==
  ASSUME TypeInv, NEW s \in Shell, Local(s), program = "project3", ~Stray(s)
  PROVE  ~Excused(s) /\ (HasPrompt(data_[s]) => Armed(s) = 0)
<1>1. Shape(s) /\ Stops(s) /\ ~Hurried(s) /\ Took(s)
  BY DEF Local, Hurried, InStep
<1>2. /\ Armed(s) \in Nat /\ Asked(s) \in Nat /\ TakenLines(s) \in Nat /\ TakenLines(s) <= Asked(s)
      /\ Lines[s] \in Nat /\ Exit[s] \in Nat /\ file[s] \in Nat
  BY <1>1, Numbers
<1>3. ~Excused(s)
  <2>1. ASSUME file[s] > Lines[s], shell[s] = "closed" PROVE FALSE
    <3>1. Exit[s] <= Lines[s] /\ file[s] <= Exit[s]
      BY <1>1, <1>2, <2>1 DEF Took, Stops
    <3> QED BY <1>2, <2>1, <3>1
  <2> QED BY <1>1, <2>1 DEF Excused
<1>4. Asked(s) + Armed(s) + (IF HasPrompt(data_[s]) THEN 1 ELSE 0)
        <= TakenLines(s) + IF shell[s] = "prompted" THEN 1 ELSE 0
  BY <1>3, InTurn
<1>5. HasPrompt(data_[s]) => Armed(s) = 0
  BY <1>2, <1>4
<1> QED BY <1>3, <1>5

LEMMA QueueTail ==
  ASSUME NEW q \in Seq(Handlers), q # <<>>, NEW more \in {<<>>, <<"wrote">>},
         NEW r, r = Tail(q) \o more
  PROVE  /\ \A h \in {"read", "timer"} :
              Times(q, h) = Times(r, h) + IF Head(q) = h THEN 1 ELSE 0
         /\ more = <<>> =>
              Times(q, "wrote") = Times(r, "wrote") + IF Head(q) = "wrote" THEN 1 ELSE 0
         /\ more # <<>> => Times(r, "wrote") > 0
         /\ Before(r) => Before(q) \/ (more # <<>> /\ Times(Tail(q), "read") > 0)
         /\ Head(q) = "read" /\ Times(q, "wrote") > 0 => Before(q)
<1>1. /\ Tail(q) \in Seq(Handlers) /\ Head(q) = q[1] /\ Len(Tail(q)) = Len(q) - 1
      /\ Len(q) \in Nat /\ DOMAIN q = 1 .. Len(q) /\ DOMAIN Tail(q) = 1 .. Len(q) - 1
      /\ \A i \in 1 .. Len(q) - 1 : Tail(q)[i] = q[i + 1]
  OBVIOUS
<1>2. more \in Seq(Handlers)
  <2>1. <<>> \in Seq(Handlers) /\ <<"wrote">> \in Seq(Handlers)
    BY DEF Handlers
  <2> QED BY <2>1, Zenon
<1>3. \A h : Times(q, h) = Times(Tail(q), h) + IF Head(q) = h THEN 1 ELSE 0
  BY TimesTail
<1>4. \A h : /\ Times(Tail(q) \o more, h) = Times(Tail(q), h) + Times(more, h)
             /\ Times(Tail(q), h) \in Nat
  <2> DEFINE t == Tail(q)
  <2>1. t \in Seq(Handlers)
    BY <1>1
  <2> HIDE DEF t
  <2>2. \A h : Times(t \o more, h) = Times(t, h) + Times(more, h) /\ Times(t, h) \in Nat
    BY <1>2, <2>1, TimesConcat, TimesType
  <2> QED BY <2>2 DEF t
<1>5. \A h : Times(<<>>, h) = 0 /\ Times(<<"wrote">>, h) = IF h = "wrote" THEN 1 ELSE 0
  <2>1. \A x, h : Times(<<x>>, h) = (IF x = h THEN 1 ELSE 0) /\ Times(<<>>, h) = 0
    BY TimesOne
  <2> QED BY <2>1
<1>6. Before(r) => Before(q) \/ (more # <<>> /\ Times(Tail(q), "read") > 0)
  <2> SUFFICES ASSUME NEW i \in DOMAIN r, NEW j \in DOMAIN r, i < j,
                      r[i] = "read", r[j] = "wrote"
               PROVE  Before(q) \/ (more # <<>> /\ Times(Tail(q), "read") > 0)
    BY DEF Before
  <2>1. Len(more) \in {0, 1}
    OBVIOUS
  <2>2. /\ DOMAIN r = 1 .. Len(q) - 1 + Len(more)
        /\ \A h \in 1 .. Len(q) - 1 + Len(more) :
             r[h] = IF h <= Len(q) - 1 THEN Tail(q)[h] ELSE more[h - (Len(q) - 1)]
    BY <1>1, <1>2, ConcatProperties, LenProperties
  <2>3. i \in 1 .. Len(q) - 1 /\ r[i] = Tail(q)[i]
    BY <1>1, <2>1, <2>2
  <2>4. CASE j <= Len(q) - 1
    <3>1. i + 1 \in DOMAIN q /\ j + 1 \in DOMAIN q /\ i + 1 < j + 1
          /\ q[i + 1] = "read" /\ q[j + 1] = "wrote"
      BY <1>1, <2>2, <2>3, <2>4
    <3> QED BY <3>1 DEF Before
  <2>5. CASE j > Len(q) - 1
    <3>1. Len(more) = 1
      BY <1>1, <2>1, <2>2, <2>5
    <3>2. more # <<>>
      <4>1. Len(<<>>) = 0
        OBVIOUS
      <4>2. 1 # 0
        OBVIOUS
      <4> QED BY <3>1, <4>1, <4>2, Zenon
    <3>3. Times(Tail(q), "read") # 0
      BY <1>1, <2>3, TimesType
    <3> QED BY <1>4, <3>2, <3>3
  <2>6. j \in Int /\ Len(q) \in Int
    BY <1>1, <2>1, <2>2
  <2> QED BY <2>4, <2>5, <2>6
<1>7. Head(q) = "read" /\ Times(q, "wrote") > 0 => Before(q)
  <2> SUFFICES ASSUME Head(q) = "read", Times(q, "wrote") > 0 PROVE Before(q)
    OBVIOUS
  <2>1. PICK j \in DOMAIN q : q[j] = "wrote"
    BY TimesType
  <2>2. 1 \in DOMAIN q /\ q[1] = "read" /\ 1 < j
    BY <1>1, <2>1
  <2> QED BY <2>1, <2>2 DEF Before
<1>8. CASE more = <<>>
  BY <1>3, <1>4, <1>5, <1>6, <1>7, <1>8
<1>9. CASE more = <<"wrote">>
  <2>1. more # <<>>
    BY <1>9
  <2>2. Times(r, "wrote") > 0
    BY <1>4, <1>5, <1>9
  <2>3. \A h \in {"read", "timer"} :
          Times(q, h) = Times(r, h) + IF Head(q) = h THEN 1 ELSE 0
    BY <1>3, <1>4, <1>5, <1>9
  <2> QED BY <1>6, <1>7, <2>1, <2>2, <2>3
<1> QED BY <1>8, <1>9

LEMMA QueueAppend ==
  ASSUME NEW q \in Seq(Handlers), NEW h \in {"read", "timer"}, NEW r, r = Append(q, h)
  PROVE  /\ \A v : Times(r, v) = Times(q, v) + IF h = v THEN 1 ELSE 0
         /\ Before(r) => Before(q)
<1>1. /\ h \in Handlers /\ Len(q) \in Nat /\ DOMAIN q = 1 .. Len(q) /\ DOMAIN r = 1 .. Len(q) + 1
      /\ \A i \in 1 .. Len(q) : r[i] = q[i]
      /\ r[Len(q) + 1] = h
  BY DEF Handlers
<1>2. \A v : Times(r, v) = Times(q, v) + IF h = v THEN 1 ELSE 0
  BY <1>1, TimesAppend
<1>3. ASSUME Before(r) PROVE Before(q)
  <2>1. PICK i, j \in DOMAIN r : i < j /\ r[i] = "read" /\ r[j] = "wrote"
    BY <1>3 DEF Before
  <2>2. j # Len(q) + 1
    BY <1>1, <2>1
  <2>3. i \in DOMAIN q /\ j \in DOMAIN q
    BY <1>1, <2>1, <2>2
  <2> QED BY <1>1, <2>1, <2>3 DEF Before
<1> QED BY <1>2, <1>3

-----------------------------------------------------------------------------
(* What a shell says, and what its column shows, only grows.               *)

LEMMA OutsOf ==
  ASSUME NEW q \in Seq(Shown), NEW t \in Seq(Shown)
  PROVE  Outs(q \o t) = Outs(q) \cup Outs(t)
<1>1. /\ DOMAIN (q \o t) = 1 .. Len(q) + Len(t) /\ Len(q) \in Nat /\ Len(t) \in Nat
      /\ DOMAIN q = 1 .. Len(q) /\ DOMAIN t = 1 .. Len(t)
      /\ \A i \in 1 .. Len(q) + Len(t) : (q \o t)[i] = IF i <= Len(q) THEN q[i] ELSE t[i - Len(q)]
  BY ConcatProperties, LenProperties
<1>2. ASSUME NEW k \in Outs(q \o t) PROVE k \in Outs(q) \cup Outs(t)
  <2>1. PICK i \in 1 .. Len(q) + Len(t) : (q \o t)[i].c = "out" /\ k = (q \o t)[i].of
    BY <1>1, <1>2 DEF Outs
  <2>2. CASE i <= Len(q)
    <3>1. i \in DOMAIN q /\ q[i] = (q \o t)[i]
      BY <1>1, <2>2
    <3> QED BY <2>1, <3>1 DEF Outs
  <2>3. CASE i > Len(q)
    <3>1. i - Len(q) \in DOMAIN t /\ t[i - Len(q)] = (q \o t)[i]
      BY <1>1, <2>3
    <3> QED BY <2>1, <3>1 DEF Outs
  <2>4. i \in Int /\ Len(q) \in Int
    BY <1>1
  <2> QED BY <2>2, <2>3, <2>4
<1>3. ASSUME NEW k \in Outs(q) PROVE k \in Outs(q \o t)
  <2>1. PICK i \in DOMAIN q : q[i].c = "out" /\ k = q[i].of
    BY <1>3 DEF Outs
  <2>2. i \in DOMAIN (q \o t) /\ (q \o t)[i] = q[i]
    BY <1>1
  <2> QED BY <2>1, <2>2 DEF Outs
<1>4. ASSUME NEW k \in Outs(t) PROVE k \in Outs(q \o t)
  <2>1. PICK i \in DOMAIN t : t[i].c = "out" /\ k = t[i].of
    BY <1>4 DEF Outs
  <2>2. Len(q) + i \in DOMAIN (q \o t) /\ (q \o t)[Len(q) + i] = t[i]
    BY <1>1
  <2> QED BY <2>1, <2>2 DEF Outs
<1> QED BY <1>2, <1>3, <1>4

LEMMA OutsOne == ASSUME NEW u PROVE Outs(<<u>>) = IF u.c = "out" THEN {u.of} ELSE {}
  BY DEF Outs

LEMMA NoOuts == ASSUME NEW q, \A i \in DOMAIN q : q[i].c # "out" PROVE Outs(q) = {}
  BY DEF Outs

LEMMA TextShown == ASSUME NEW q \in Seq(Text) PROVE q \in Seq(Shown)
  BY UnitTypes, SeqMonotonic

\* The shell has said t more.
LEMMA SaidMore ==
  ASSUME TypeInv, NEW s \in Shell, Shape(s), NEW t \in Seq(Text), said'[s] = said[s] \o t
  PROVE  /\ Stray(s) => Stray(s)'
         /\ (\E i \in DOMAIN t : t[i] = Unit("%", 0)) => Stray(s)'
         /\ Outs(said'[s]) = Outs(said[s]) \cup Outs(t)
         /\ Marks(said'[s]) = Marks(said[s]) + Marks(t)
         /\ Met(said'[s], seen[s]) = Met(said[s], seen[s])
         /\ seen[s] <= Len(said'[s])
<1>1. said[s] \in Seq(Text) /\ seen[s] \in Nat
  BY DEF TypeInv, TypeOK
<1>2. /\ DOMAIN (said[s] \o t) = 1 .. Len(said[s]) + Len(t)
      /\ Len(said[s] \o t) = Len(said[s]) + Len(t)
      /\ Len(said[s]) \in Nat /\ Len(t) \in Nat
      /\ DOMAIN said[s] = 1 .. Len(said[s]) /\ DOMAIN t = 1 .. Len(t)
      /\ \A i \in 1 .. Len(said[s]) + Len(t) :
           (said[s] \o t)[i] = IF i <= Len(said[s]) THEN said[s][i] ELSE t[i - Len(said[s])]
  BY <1>1, ConcatProperties, LenProperties
<1>3. ASSUME Stray(s) PROVE Stray(s)'
  <2>1. PICK i \in DOMAIN said[s] : said[s][i] = Unit("%", 0)
    BY <1>3 DEF Stray
  <2>2. i \in DOMAIN said'[s] /\ said'[s][i] = said[s][i]
    BY <1>2
  <2> QED BY <2>1, <2>2 DEF Stray
<1>4. ASSUME NEW i \in DOMAIN t, t[i] = Unit("%", 0) PROVE Stray(s)'
  <2>1. Len(said[s]) + i \in DOMAIN said'[s] /\ said'[s][Len(said[s]) + i] = t[i]
    BY <1>2
  <2> QED BY <1>4, <2>1 DEF Stray
<1>5. Outs(said'[s]) = Outs(said[s]) \cup Outs(t)
  BY <1>1, OutsOf, TextShown
<1>6. Marks(said'[s]) = Marks(said[s]) + Marks(t)
  BY <1>1, MarksConcat
<1>7. seen[s] \in 0 .. Len(said[s])
  BY <1>1, <1>2 DEF Shape
<1>8. Met(said'[s], seen[s]) = Met(said[s], seen[s])
  BY <1>1, <1>7, MetConcat
<1>9. seen[s] <= Len(said'[s])
  BY <1>2, <1>7
<1> QED BY <1>3, <1>4, <1>5, <1>6, <1>8, <1>9

\* The column shows t more.
LEMMA PageMore ==
  ASSUME TypeInv, NEW s \in Shell, NEW t \in Seq(Shown), page'[s] = page[s] \o t
  PROVE  /\ \A k : Cmd(s, k) => Cmd(s, k)'
         /\ \A k : (\E i \in DOMAIN t : t[i] = Unit("cmd", k)) => Cmd(s, k)'
         /\ \A k : Marked(s, k, page[s]) => Marked(s, k, page'[s])
         /\ \A k : Marked(s, k, t) => Marked(s, k, page'[s])
<1>1. page[s] \in Seq(Shown)
  BY DEF TypeInv, TypeOK
<1>2. /\ DOMAIN (page[s] \o t) = 1 .. Len(page[s]) + Len(t)
      /\ Len(page[s]) \in Nat /\ Len(t) \in Nat
      /\ DOMAIN page[s] = 1 .. Len(page[s]) /\ DOMAIN t = 1 .. Len(t)
      /\ \A i \in 1 .. Len(page[s]) + Len(t) :
           (page[s] \o t)[i] = IF i <= Len(page[s]) THEN page[s][i] ELSE t[i - Len(page[s])]
  BY <1>1, ConcatProperties, LenProperties
<1>3. \A i \in DOMAIN page[s] : i \in DOMAIN page'[s] /\ page'[s][i] = page[s][i]
  BY <1>2
<1>4. \A i \in DOMAIN t :
        Len(page[s]) + i \in DOMAIN page'[s] /\ page'[s][Len(page[s]) + i] = t[i]
  BY <1>2
<1> QED BY <1>3, <1>4 DEF Cmd, Marked

LEMMA BrowserSame ==
  ASSUME NEW o \in Shell, Browser(o), page'[o] = page[o], web' = web, typed'[o] = typed[o],
         program' = program, Hurried(o) => Hurried(o)'
  PROVE  Browser(o)'
<1>1. Shows(o)'
  BY DEF Browser, Shows
<1> QED BY <1>1 DEF Browser, Placed

-----------------------------------------------------------------------------
(* The shell speaks.                                                       *)

\* It says t, which is no output, and takes no line.
Talk(s, t) ==
  /\ t \in Seq(Text) /\ Outs(t) = {} /\ said'[s] = said[s] \o t /\ program' = program
  /\ UNCHANGED <<pc, ready, timer, data_, file, toShellMsg, page, web, seen, typed, taken>>
  /\ shell'[s] = "closed" <=> shell[s] = "closed"
  /\ pc[s] # "read" => shell'[s] = "none"
  /\ \/ Stray(s)'
     \/ Marks(t) + (IF shell[s] = "prompted" THEN 1 ELSE 0)
          = IF shell'[s] = "prompted" THEN 1 ELSE 0

LEMMA Talks ==
  ASSUME TypeInv, NEW s \in Shell, Local(s), Browser(s), NEW t, Talk(s, t)
  PROVE  Local(s)' /\ Browser(s)'
<1> USE DEF Talk
<1>1. /\ Shape(s) /\ Clean(s) /\ Paid(s) /\ Turns(s) /\ Stops(s) /\ (Hurried(s) \/ InStep(s))
  BY DEF Local
<1>2. /\ Stray(s) => Stray(s)'
      /\ Outs(said'[s]) = Outs(said[s])
      /\ Marks(said'[s]) = Marks(said[s]) + Marks(t)
      /\ Met(said'[s], seen[s]) = Met(said[s], seen[s])
      /\ seen[s] <= Len(said'[s])
  BY <1>1, SaidMore
<1>3. Hurried(s) => Hurried(s)'
  BY <1>2 DEF Hurried
<1>4. Armed(s)' = Armed(s) /\ Asked(s)' = Asked(s) /\ TakenLines(s)' = TakenLines(s)
  BY DEF Armed, Asked, TakenLines
<1>5. Shape(s)'
  BY <1>1, <1>2, <1>4 DEF Shape, Quiet, Cmd
<1>6. Clean(s)'
  BY <1>1, <1>3, <1>4 DEF Clean
<1>7. Paid(s)'
  BY <1>1, <1>2, <1>3, <1>4 DEF Paid, Excused
<1>8. Turns(s)'
  <2> SUFFICES ASSUME ~Stray(s)'
               PROVE  Marks(said'[s]) = TakenLines(s)' + IF shell'[s] = "prompted" THEN 1 ELSE 0
    BY DEF Turns
  <2>1. /\ Marks(said[s]) = TakenLines(s) + IF shell[s] = "prompted" THEN 1 ELSE 0
        /\ Marks(t) + (IF shell[s] = "prompted" THEN 1 ELSE 0)
             = IF shell'[s] = "prompted" THEN 1 ELSE 0
    BY <1>1, <1>2 DEF Turns
  <2>2. TakenLines(s) \in Nat /\ Marks(t) \in Nat
    BY <1>1, Numbers, MarksConcat
  <2> QED BY <1>2, <1>4, <2>1, <2>2
<1>9. Stops(s)'
  BY <1>1, <1>2 DEF Stops
<1>10. InStep(s) => InStep(s)'
  <2>1. Script(s) => Script(s)'
    BY <1>4 DEF Script
  <2>2. Took(s) => Took(s)'
    BY <1>2, <1>4 DEF Took
  <2>3. Echoed(s) => Echoed(s)'
    BY DEF Echoed, Cmd
  <2> QED BY <2>1, <2>2, <2>3 DEF InStep
<1>11. Browser(s)'
  BY <1>3, BrowserSame
<1> QED BY <1>1, <1>3, <1>5, <1>6, <1>7, <1>8, <1>9, <1>10, <1>11 DEF Local

LEMMA OthersSame ==
  ASSUME NEW o \in Shell, Local(o), Browser(o), Same(o), page'[o] = page[o], web' = web
  PROVE  Local(o)' /\ Browser(o)'
<1>1. Hurried(o) => Hurried(o)'
  BY Unchanging
<1>2. \A k : Cmd(o, k) => Cmd(o, k)'
  BY DEF Cmd
<1> QED BY <1>1, <1>2, LocalSame, BrowserSame DEF Same

LEMMA ShowPromptInv == ASSUME IInv, NEW s \in Shell, ShowPrompt(s) PROVE IInv'
<1>1. /\ TypeInv /\ TypeOK /\ shell[s] = "busy" /\ Says(s, Prompt)
      /\ shell' = [shell EXCEPT ![s] = "prompted"]
      /\ UNCHANGED <<program, up, client, browser, seen, typed, taken, chats, cut>>
      /\ \A o \in Shell : Local(o) /\ Browser(o)
  BY DEF ShowPrompt, IInv, TypeInv
<1>2. TypeInv'
  BY <1>1, ShowPromptType
<1>3. Prompt \in Seq(Text) /\ Marks(Prompt) = 1 /\ Outs(Prompt) = {}
  <2>1. \A i \in DOMAIN Prompt : Prompt[i].c # "out"
    BY DEF Prompt, Unit
  <2> QED BY <2>1, UnitTypes, MarksOfPrompt, NoOuts
<1>4. /\ said'[s] = said[s] \o Prompt
      /\ \A o \in Shell \ {s} : said'[o] = said[o]
  BY <1>1, <1>3, SaysType
<1>5. shell'[s] = "prompted" /\ \A o \in Shell \ {s} : shell'[o] = shell[o]
  BY <1>1 DEF TypeOK
<1>6. Local(s)' /\ Browser(s)'
  <2>1. pc[s] = "read"
    BY <1>1 DEF Local, Shape
  <2>2. UNCHANGED <<pc, ready, timer, data_, file, toShellMsg, page, web, seen, typed, taken>>
    BY <1>1 DEF client, browser
  <2>3. Talk(s, Prompt)
    BY <1>1, <1>3, <1>4, <1>5, <2>1, <2>2 DEF Talk
  <2> QED BY <1>1, <2>3, Talks
<1>7. ASSUME NEW o \in Shell \ {s} PROVE Local(o)' /\ Browser(o)'
  <2>1. Same(o) /\ page'[o] = page[o] /\ web' = web
    BY <1>1, <1>4, <1>5 DEF Same, client, browser
  <2> QED BY <1>1, <2>1, OthersSame
<1> QED BY <1>2, <1>6, <1>7 DEF IInv

LEMMA ChatInv == ASSUME IInv, NEW s \in Shell, Chat(s) PROVE IInv'
<1>1. /\ TypeInv /\ TypeOK /\ shell[s] \in {"busy", "prompted"}
      /\ UNCHANGED <<program, up, client, browser, shell, seen, typed, taken, cut>>
      /\ \A o \in Shell : Local(o) /\ Browser(o)
      /\ \E t \in Chats : Says(s, [i \in DOMAIN t |-> Unit(t[i], 0)])
  BY DEF Chat, IInv, TypeInv
<1>2. TypeInv'
  BY <1>1, ChatType
<1>3. PICK c \in Chats : Says(s, [i \in DOMAIN c |-> Unit(c[i], 0)])
  BY <1>1
<1> DEFINE t == [i \in DOMAIN c |-> Unit(c[i], 0)]
<1>4. t \in Seq(Text) /\ Says(s, t)
  BY <1>3, ChatText
<1>5. /\ said'[s] = said[s] \o t
      /\ \A o \in Shell \ {s} : said'[o] = said[o]
  <2> HIDE DEF t
  <2> QED BY <1>1, <1>4, SaysType
<1>6. \A i \in DOMAIN t : t[i] = Unit(c[i], 0) /\ c[i] # "out"
  <2> DEFINE Letters == {"text", "%", "sp"}
  <2>1. c \in Seq(Letters)
    BY ConsoleAssumption
  <2>2. \A i \in DOMAIN c : c[i] \in Letters
    BY <2>1, ElementOfSeq, LenProperties
  <2> QED BY <2>2
<1>7. Outs(t) = {}
  <2>1. \A i \in DOMAIN t : t[i].c # "out"
    BY <1>6 DEF Unit
  <2> HIDE DEF t
  <2> QED BY <2>1, NoOuts
<1>8. Stray(s)' \/ Marks(t) = 0
  <2>1. CASE \E i \in DOMAIN c : c[i] = "%"
    <3>1. \E i \in DOMAIN t : t[i] = Unit("%", 0)
      BY <2>1
    <3> HIDE DEF t
    <3> QED BY <1>1, <1>4, <1>5, <3>1, SaidMore DEF Local
  <2>2. CASE \A i \in DOMAIN c : c[i] # "%"
    <3>1. \A i \in DOMAIN t : t[i].c # "%"
      BY <1>6, <2>2 DEF Unit
    <3> HIDE DEF t
    <3> QED BY <1>4, <3>1, NoMarks
  <2> QED BY <2>1, <2>2
<1>9. Local(s)' /\ Browser(s)'
  <2>1. pc[s] = "read"
    BY <1>1 DEF Local, Shape
  <2>2. UNCHANGED <<pc, ready, timer, data_, file, toShellMsg, page, web, seen, typed, taken>>
    BY <1>1 DEF client, browser
  <2> HIDE DEF t
  <2>3. shell' = shell /\ program' = program
    BY <1>1
  <2>4. Talk(s, t)
    BY <1>1, <1>4, <1>5, <1>7, <1>8, <2>1, <2>2, <2>3 DEF Talk
  <2> QED BY <1>1, <2>4, Talks
<1>10. ASSUME NEW o \in Shell \ {s} PROVE Local(o)' /\ Browser(o)'
  <2>1. Same(o) /\ page'[o] = page[o] /\ web' = web
    BY <1>1, <1>5 DEF Same, client, browser
  <2> QED BY <1>1, <2>1, OthersSame
<1> QED BY <1>2, <1>9, <1>10 DEF IInv

LEMMA ConnectingInv == ASSUME IInv, NEW s \in Shell, Connecting(s) PROVE IInv'
<1>1. PICK to \in Phase : /\ pc' = [pc EXCEPT ![s] = to]
                          /\ \/ to # "read" /\ shell' = shell
                             \/ to = "read" /\ shell' = [shell EXCEPT ![s] = "busy"]
  BY ConnectingStep
<1>2. /\ UNCHANGED <<program, ready, timer, data_, file, toShellMsg, page, web,
                     said, taken, chats, seen, typed, cut>>
      /\ pc[s] # "read" /\ TypeInv /\ TypeInv' /\ TypeOK
      /\ \A o \in Shell : Local(o) /\ Browser(o)
  BY ConnectingStep, ConnectingType DEF IInv, TypeInv
<1>3. /\ shell[s] = "none" /\ shell'[s] \in {"none", "busy"} /\ pc'[s] = to
      /\ to # "read" => shell'[s] = "none"
      /\ \A o \in Shell \ {s} : pc'[o] = pc[o] /\ shell'[o] = shell[o]
  <2>1. shell[s] = "none"
    BY <1>2 DEF Local, Shape
  <2> QED BY <1>1, <1>2, <2>1 DEF TypeOK
<1>4. Local(s)'
  <2>1. /\ Shape(s) /\ Clean(s) /\ Paid(s) /\ Turns(s) /\ Stops(s) /\ (Hurried(s) \/ InStep(s))
    BY <1>2 DEF Local
  <2>2. /\ Armed(s)' = Armed(s) /\ Asked(s)' = Asked(s) /\ TakenLines(s)' = TakenLines(s)
        /\ Stray(s)' = Stray(s) /\ Hurried(s)' = Hurried(s)
    BY <1>2 DEF Armed, Asked, TakenLines, Stray, Hurried
  <2>3. Shape(s)'
    BY <1>2, <1>3, <2>1, <2>2 DEF Shape, Quiet, Cmd
  <2>4. Clean(s)' /\ Paid(s)' /\ Turns(s)' /\ Stops(s)'
    BY <1>2, <1>3, <2>1, <2>2 DEF Clean, Paid, Excused, Turns, Stops
  <2>5. InStep(s) => InStep(s)'
    <3>1. Script(s) => Script(s)'
      BY <1>2, <2>2 DEF Script
    <3>2. Took(s) => Took(s)'
      BY <1>2, <1>3, <2>2 DEF Took
    <3>3. Echoed(s) => Echoed(s)'
      BY <1>2 DEF Echoed, Cmd
    <3> QED BY <1>2, <3>1, <3>2, <3>3 DEF InStep
  <2> QED BY <2>1, <2>2, <2>3, <2>4, <2>5 DEF Local
<1>5. Browser(s)'
  <2>1. Hurried(s)' = Hurried(s)
    BY <1>2 DEF Hurried, Stray
  <2> QED BY <1>2, <2>1, BrowserSame
<1>6. ASSUME NEW o \in Shell \ {s} PROVE Local(o)' /\ Browser(o)'
  <2>1. Same(o) /\ page'[o] = page[o] /\ web' = web
    BY <1>2, <1>3 DEF Same
  <2> QED BY <1>2, <2>1, OthersSame
<1> QED BY <1>2, <1>4, <1>5, <1>6 DEF IInv

-----------------------------------------------------------------------------
(* The shell takes a line.                                                 *)

LEMMA LineSplit ==
  ASSUME TypeInv, NEW s \in Shell, HasLine(s)
  PROVE  LET line == SubSeq(typed[s], taken[s] + 1, EndOfLine(s) - 1)
         IN /\ line \in Seq(Int) /\ Len(line) = EndOfLine(s) - (taken[s] + 1)
            /\ \A i \in 1 .. Len(line) : line[i] = typed[s][taken[s] + i]
<1> DEFINE q == typed[s]
           m == taken[s] + 1
           n == EndOfLine(s) - 1
           line == SubSeq(q, m, n)
<1>1. /\ taken[s] \in Nat /\ m \in Nat /\ n \in Nat /\ m <= n + 1 /\ m > 0
      /\ n < Len(q) /\ Len(q) \in Nat /\ q \in Seq(Int)
  <2>1. /\ taken[s] \in Nat /\ EndOfLine(s) \in taken[s] + 1 .. Len(typed[s])
        /\ Len(typed[s]) \in Nat /\ typed[s] \in Seq(Int)
    BY FirstLine, LenProperties DEF TypeInv, TypeOK
  <2> QED BY <2>1
<1>2. EndOfLine(s) - (taken[s] + 1) = n - m + 1 /\ \A i \in Nat : taken[s] + i = m + i - 1
  <2>1. EndOfLine(s) \in Nat /\ taken[s] \in Nat
    BY <1>1, FirstLine DEF TypeInv
  <2> HIDE DEF q, line
  <2> QED BY <2>1
<1> HIDE DEF q, m, n
<1>3. \A i \in m .. n : q[i] \in Int
  BY <1>1, ElementOfSeq
<1>4. /\ line \in Seq(Int) /\ Len(line) = IF m <= n THEN n - m + 1 ELSE 0
      /\ \A i \in 1 .. n - m + 1 : line[i] = q[m + i - 1]
  <2>1. m \in Int /\ n \in Int
    BY <1>1
  <2> QED BY <1>3, <2>1, SubSeqProperties
<1> HIDE DEF line
<1>5. Len(line) = n - m + 1
  BY <1>1, <1>4
<1>6. ASSUME NEW i \in 1 .. Len(line) PROVE line[i] = q[taken[s] + i]
  <2>1. i \in 1 .. n - m + 1 /\ i \in Nat
    BY <1>1, <1>5
  <2>2. line[i] = q[m + i - 1]
    BY <1>4, <2>1
  <2>3. taken[s] + i = m + i - 1
    BY <1>2, <2>1
  <2> QED BY <2>2, <2>3, Zenon
<1> QED BY <1>2, <1>4, <1>5, <1>6 DEF line, q, m, n

\* Within the script it is the next line of it; past its end it holds no line.
NextLine(s, line) ==
  /\ TakenLines(s) < Lines[s] /\ taken[s] = 2 * TakenLines(s)
  /\ EndOfLine(s) = taken[s] + 2 /\ line = <<TakenLines(s) + 1>>
  /\ typed[s][taken[s] + 1] = TakenLines(s) + 1 /\ typed[s][taken[s] + 2] = NL
  /\ TakenLines(s) + 1 <= Exit[s]

Beyond(s, line) ==
  /\ taken[s] >= 2 * Lines[s] /\ \A i \in 1 .. Len(line) : line[i] <= 0
  /\ \A i \in taken[s] + 1 .. EndOfLine(s) : typed[s][i] <= 0

LEMMA LineTaken ==
  ASSUME TypeInv, NEW s \in Shell, HasLine(s), shell[s] = "prompted", Shape(s),
         Script(s), Took(s)
  PROVE  LET line == SubSeq(typed[s], taken[s] + 1, EndOfLine(s) - 1)
         IN NextLine(s, line) \/ Beyond(s, line)
<1> DEFINE line == SubSeq(typed[s], taken[s] + 1, EndOfLine(s) - 1)
           e == EndOfLine(s)
           t == taken[s]
<1>1. /\ line \in Seq(Int) /\ Len(line) = e - (t + 1)
      /\ \A i \in 1 .. Len(line) : line[i] = typed[s][t + i]
  BY LineSplit
<1>2. /\ e \in Nat /\ t \in Nat /\ t + 1 <= e /\ e <= Len(typed[s]) /\ typed[s][e] = NL
      /\ \A j \in t + 1 .. e - 1 : typed[s][j] # NL
      /\ DOMAIN typed[s] = 1 .. Len(typed[s]) /\ typed[s] \in Seq(Int) /\ Len(typed[s]) \in Nat
  BY FirstLine, LenProperties DEF TypeInv, TypeOK
<1>3. /\ Lines[s] \in Nat /\ Exit[s] \in Nat \ {0} /\ TakenLines(s) \in Nat
  BY Numbers
<1>4. /\ \A i \in 1 .. Len(typed[s]) : i <= 2 * Lines[s] =>
           typed[s][i] = IF i % 2 = 1 THEN (i + 1) \div 2 ELSE NL
      /\ \A i \in 1 .. Len(typed[s]) : i > 2 * Lines[s] => typed[s][i] <= 0
      /\ t <= 2 * Lines[s] => t = 2 * TakenLines(s)
      /\ \A i \in 1 .. t : typed[s][i] # Exit[s]
  BY <1>2 DEF Script, AsWritten, Took
<1> HIDE DEF line, e, t
<1>5. CASE t < 2 * Lines[s]
  <2>1. t = 2 * TakenLines(s) /\ TakenLines(s) < Lines[s] /\ t + 2 <= 2 * Lines[s]
    BY <1>2, <1>3, <1>4, <1>5
  <2>2. typed[s][t + 1] = TakenLines(s) + 1
    <3>1. t + 1 \in 1 .. Len(typed[s]) /\ t + 1 <= 2 * Lines[s]
      BY <1>2, <1>3, <2>1
    <3>2. (t + 1) % 2 = 1 /\ (t + 1 + 1) \div 2 = TakenLines(s) + 1
      BY <1>3, <2>1
    <3> QED BY <1>4, <3>1, <3>2
  <2>3. t + 2 <= e
    <3>1. TakenLines(s) + 1 # NL
      BY <1>3 DEF NL
    <3>2. e # t + 1
      BY <1>2, <2>2, <3>1
    <3> QED BY <1>2, <3>2
  <2>4. typed[s][t + 2] = NL
    <3>1. t + 2 \in 1 .. Len(typed[s]) /\ t + 2 <= 2 * Lines[s]
      BY <1>2, <2>1, <2>3
    <3>2. (t + 2) % 2 # 1
      BY <1>3, <2>1
    <3> QED BY <1>4, <3>1, <3>2
  <2>5. e = t + 2
    <3>1. ~(t + 2 \in t + 1 .. e - 1)
      BY <1>2, <2>4
    <3> QED BY <1>2, <2>3, <3>1
  <2>6. line = <<TakenLines(s) + 1>>
    <3>1. Len(line) = 1
      BY <1>1, <1>2, <2>5
    <3>2. 1 \in 1 .. Len(line)
      BY <3>1
    <3>3. line[1] = TakenLines(s) + 1
      BY <1>1, <2>2, <3>2
    <3>4. line \in Seq(Int)
      BY <1>1
    <3> QED BY <3>1, <3>3, <3>4
  <2>7. TakenLines(s) + 1 <= Exit[s]
    <3> SUFFICES ASSUME Exit[s] <= TakenLines(s) PROVE FALSE
      BY <1>3
    <3>1. /\ 2 * Exit[s] - 1 \in 1 .. t /\ 2 * Exit[s] - 1 \in 1 .. Len(typed[s])
          /\ 2 * Exit[s] - 1 <= 2 * Lines[s]
      <4>1. t <= Len(typed[s]) /\ t \in Nat /\ Len(typed[s]) \in Nat
        BY <1>2
      <4> QED BY <1>3, <2>1, <4>1
    <3>2. (2 * Exit[s] - 1) % 2 = 1 /\ (2 * Exit[s] - 1 + 1) \div 2 = Exit[s]
      BY <1>3
    <3> QED BY <1>4, <3>1, <3>2
  <2> QED BY <2>1, <2>2, <2>4, <2>5, <2>6, <2>7 DEF NextLine, line, e, t
<1>6. CASE t >= 2 * Lines[s]
  <2>1. \A i \in t + 1 .. e : typed[s][i] <= 0
    <3> SUFFICES ASSUME NEW i \in t + 1 .. e PROVE typed[s][i] <= 0
      OBVIOUS
    <3>1. i \in 1 .. Len(typed[s]) /\ i > 2 * Lines[s]
      <4>1. 2 * Lines[s] \in Nat
        BY <1>3
      <4> QED BY <1>2, <1>6, <4>1
    <3> QED BY <1>4, <3>1
  <2>2. \A i \in 1 .. Len(line) : line[i] <= 0
    <3> SUFFICES ASSUME NEW i \in 1 .. Len(line) PROVE line[i] <= 0
      OBVIOUS
    <3>1. t + i \in t + 1 .. e /\ line[i] = typed[s][t + i]
      BY <1>1, <1>2
    <3> QED BY <2>1, <3>1
  <2> QED BY <1>6, <2>1, <2>2 DEF Beyond, line, e, t
<1>7. 2 * Lines[s] \in Nat
  BY <1>3
<1> QED BY <1>2, <1>5, <1>6, <1>7 DEF t

\* One line more has been taken.
LEMMA LineCounted ==
  ASSUME TypeInv, NEW s \in Shell, HasLine(s), typed' = typed, taken'[s] = EndOfLine(s)
  PROVE  TakenLines(s)' = TakenLines(s) + 1
<1> DEFINE e == EndOfLine(s)
           t == taken[s]
           A == {i \in 1 .. t : typed[s][i] = NL}
           B == {i \in 1 .. e : typed[s][i] = NL}
<1>1. /\ e \in Nat /\ t \in Nat /\ t + 1 <= e /\ typed[s][e] = NL
      /\ \A j \in t + 1 .. e - 1 : typed[s][j] # NL
  <2>1. taken[s] \in Nat /\ Len(typed[s]) \in Nat
    BY LenProperties DEF TypeInv, TypeOK
  <2>2. /\ e \in t + 1 .. Len(typed[s]) /\ e \in Nat /\ typed[s][e] = NL
        /\ \A j \in t + 1 .. e - 1 : typed[s][j] # NL
    BY FirstLine DEF TypeInv
  <2> QED BY <2>1, <2>2
<1>2. TakenLines(s) = Cardinality(A) /\ TakenLines(s)' = Cardinality(B)
  BY DEF TakenLines
<1> HIDE DEF e, t
<1>3. B = A \cup {e} /\ e \notin A
  BY <1>1
<1>4. IsFiniteSet(A)
  <2>1. A \in SUBSET (1 .. t)
    OBVIOUS
  <2> HIDE DEF A
  <2> QED BY <1>1, <2>1, PartOfInterval
<1> HIDE DEF A, B
<1> QED BY <1>2, <1>3, <1>4, FS_AddElement

LEMMA TookMore ==
  ASSUME TypeInv, NEW s \in Shell, HasLine(s), shell[s] = "prompted", Shape(s),
         Script(s), Took(s), typed' = typed, taken'[s] = EndOfLine(s),
         NEW line \in Seq(Int), NextLine(s, line) \/ Beyond(s, line),
         line = <<Exit[s]>> => shell'[s] = "closed",
         line # <<Exit[s]>> => shell'[s] = "busy",
         NEW t, Outs(said'[s]) = Outs(said[s]) \cup Outs(t),
         \/ Outs(t) = {}
         \/ line # <<Exit[s]>> /\ Len(line) = 1 /\ line[1] > 0 /\ Outs(t) = {line[1]}
  PROVE  Took(s)'
<1> DEFINE e == EndOfLine(s)
           T == TakenLines(s)
<1>1. /\ Lines[s] \in Nat /\ Exit[s] \in Nat \ {0} /\ T \in Nat /\ taken[s] \in Nat
      /\ e \in Nat /\ taken[s] + 1 <= e
  BY Numbers, FirstLine DEF TypeInv
<1>2. TakenLines(s)' = T + 1 /\ taken'[s] = e
  BY LineCounted
<1>3. /\ taken[s] <= 2 * Lines[s] => taken[s] = 2 * T
      /\ \A i \in 1 .. taken[s] : typed[s][i] # Exit[s]
      /\ \A k \in Outs(said[s]) : k \in 1 .. Lines[s] /\ k < Exit[s] /\ 2 * k <= taken[s]
  BY DEF Took
<1>5. CASE NextLine(s, line)
  <2>1. /\ T < Lines[s] /\ taken[s] = 2 * T /\ e = taken[s] + 2 /\ line = <<T + 1>>
        /\ typed[s][taken[s] + 1] = T + 1 /\ typed[s][taken[s] + 2] = 0 /\ T + 1 <= Exit[s]
    BY <1>5 DEF NextLine, NL
  <2>2. line = <<Exit[s]>> <=> T + 1 = Exit[s]
    <3>1. \A a, b : <<a>> = <<b>> <=> a = b
      OBVIOUS
    <3> QED BY <2>1, <3>1, Zenon
  <2> HIDE DEF e, T
  <2>3. taken'[s] = 2 * (T + 1)
    BY <1>1, <1>2, <2>1
  <2>4. shell'[s] # "closed" => \A i \in 1 .. taken'[s] : typed'[s][i] # Exit[s]
    <3> SUFFICES ASSUME T + 1 # Exit[s], NEW i \in 1 .. e PROVE typed[s][i] # Exit[s]
      BY <1>2, <2>2
    <3>1. i \in 1 .. taken[s] \/ i = taken[s] + 1 \/ i = taken[s] + 2
      <4>1. \A a \in Nat : \A j \in 1 .. a + 2 : j \in 1 .. a \/ j = a + 1 \/ j = a + 2
        OBVIOUS
      <4>2. taken[s] \in Nat /\ i \in 1 .. taken[s] + 2
        BY <1>1, <2>1
      <4> QED BY <4>1, <4>2, Zenon
    <3> QED BY <1>1, <1>3, <2>1, <3>1
  <2>5. shell'[s] = "closed" => taken'[s] = 2 * Exit[s] /\ Exit[s] <= Lines[s]
    BY <1>1, <2>1, <2>2, <2>3
  <2>6. ASSUME NEW k \in Outs(said'[s])
        PROVE  k \in 1 .. Lines[s] /\ k < Exit[s] /\ 2 * k <= taken'[s]
    <3>1. CASE k \in Outs(said[s])
      <4>1. k \in 1 .. Lines[s] /\ k < Exit[s] /\ 2 * k <= taken[s]
        BY <1>3, <3>1
      <4> QED BY <1>1, <1>2, <4>1
    <3>2. CASE k \in Outs(t)
      <4>1. \A a : <<a>>[1] = a
        OBVIOUS
      <4>2. k = line[1] /\ T + 1 # Exit[s]
        BY <2>2, <3>2
      <4>3. k = T + 1 /\ T + 1 # Exit[s]
        BY <2>1, <4>1, <4>2, Zenon
      <4> QED BY <1>1, <2>1, <2>3, <4>3
    <3> QED BY <2>6, <3>1, <3>2
  <2> QED BY <1>2, <2>3, <2>4, <2>5, <2>6 DEF Took
<1>6. CASE Beyond(s, line)
  <2>1. /\ taken[s] >= 2 * Lines[s] /\ \A i \in 1 .. Len(line) : line[i] <= 0
        /\ \A i \in taken[s] + 1 .. e : typed[s][i] <= 0
    BY <1>6 DEF Beyond
  <2>2. line # <<Exit[s]>> /\ Outs(t) = {}
    <3>1. Len(<<Exit[s]>>) = 1 /\ <<Exit[s]>>[1] = Exit[s] /\ 1 \in 1 .. 1
      OBVIOUS
    <3>2. ~(Len(line) = 1 /\ line[1] > 0)
      <4> SUFFICES ASSUME Len(line) = 1, line[1] > 0 PROVE FALSE
        OBVIOUS
      <4>1. 1 \in 1 .. Len(line)
        OBVIOUS
      <4>2. line[1] <= 0
        BY <2>1, <4>1
      <4>3. line[1] \in Int
        BY <4>1, ElementOfSeq
      <4> QED BY <4>2, <4>3
    <3>3. Exit[s] > 0
      BY <1>1
    <3> QED BY <3>1, <3>2, <3>3
  <2> HIDE DEF e, T
  <2>3. taken'[s] > 2 * Lines[s] /\ shell'[s] = "busy"
    <3>1. 2 * Lines[s] \in Nat
      BY <1>1
    <3> QED BY <1>1, <1>2, <2>1, <2>2, <3>1
  <2>4. \A i \in 1 .. taken'[s] : typed'[s][i] # Exit[s]
    <3> SUFFICES ASSUME NEW i \in 1 .. e PROVE typed[s][i] # Exit[s]
      BY <1>2
    <3>1. i \in 1 .. taken[s] \/ i \in taken[s] + 1 .. e
      BY <1>1
    <3> QED BY <1>1, <1>3, <2>1, <3>1
  <2>5. ASSUME NEW k \in Outs(said'[s])
        PROVE  k \in 1 .. Lines[s] /\ k < Exit[s] /\ 2 * k <= taken'[s]
    <3>1. k \in Outs(said[s])
      BY <2>2
    <3>2. k \in 1 .. Lines[s] /\ k < Exit[s] /\ 2 * k <= taken[s]
      BY <1>3, <3>1
    <3> QED BY <1>1, <1>2, <3>2
  <2>6. ~(taken'[s] <= 2 * Lines[s])
    <3>1. 2 * Lines[s] \in Nat /\ taken'[s] \in Nat
      BY <1>1, <1>2
    <3> QED BY <2>3, <3>1
  <2> QED BY <2>3, <2>4, <2>5, <2>6 DEF Took
<1> QED BY <1>5, <1>6

LEMMA TakeLineInv == ASSUME IInv, NEW s \in Shell, TakeLine(s) PROVE IInv'
<1> DEFINE line == SubSeq(typed[s], taken[s] + 1, EndOfLine(s) - 1)
           HasOutput == /\ line # <<Exit[s]>> /\ Len(line) = 1 /\ line[1] > 0
<1>1. /\ TypeInv /\ TypeOK /\ shell[s] = "prompted" /\ HasLine(s)
      /\ taken' = [taken EXCEPT ![s] = EndOfLine(s)]
      /\ UNCHANGED <<program, up, client, browser, seen, typed, chats, cut>>
      /\ \A o \in Shell : Local(o) /\ Browser(o)
      /\ \/ line = <<Exit[s]>> /\ shell' = [shell EXCEPT ![s] = "closed"] /\ said' = said
         \/ /\ line # <<Exit[s]>> /\ shell' = [shell EXCEPT ![s] = "busy"]
            /\ \/ Len(line) = 1 /\ line[1] > 0 /\ Says(s, <<Unit("out", line[1])>>)
               \/ said' = said
  BY DEF TakeLine, IInv, TypeInv
<1>2. TypeInv'
  BY <1>1, TakeLineType
<1>3. line \in Seq(Int)
  BY <1>1, LineSplit
<1> HIDE DEF line
<1>4. /\ UNCHANGED <<program, pc, ready, timer, data_, file, toShellMsg, page, web, seen, typed>>
      /\ \A o \in Shell \ {s} : taken'[o] = taken[o] /\ shell'[o] = shell[o]
      /\ taken'[s] = EndOfLine(s)
      /\ line = <<Exit[s]>> => shell'[s] = "closed"
      /\ line # <<Exit[s]>> => shell'[s] = "busy"
  BY <1>1 DEF TypeOK, client, browser
<1>5. \E t \in Seq(Text) :
        /\ said'[s] = said[s] \o t /\ Marks(t) = 0
        /\ Outs(t) = {} \/ (HasOutput /\ Outs(t) = {line[1]})
        /\ \A o \in Shell \ {s} : said'[o] = said[o]
  <2>1. CASE said' = said
    <3>1. said[s] \in Seq(Text)
      BY <1>1 DEF TypeOK
    <3>2. <<>> \in Seq(Text) /\ said[s] = said[s] \o <<>>
      BY <3>1
    <3>3. Marks(<<>>) = 0 /\ Outs(<<>>) = {}
      <4>1. \A i \in DOMAIN <<>> : <<>>[i].c # "%" /\ <<>>[i].c # "out"
        OBVIOUS
      <4> QED BY <3>2, <4>1, NoMarks, NoOuts
    <3> QED BY <2>1, <3>2, <3>3
  <2>2. CASE HasOutput /\ Says(s, <<Unit("out", line[1])>>)
    <3> DEFINE u == Unit("out", line[1])
    <3>1. line[1] \in Nat
      <4>1. 1 \in 1 .. Len(line)
        BY <2>2
      <4>2. line[1] \in Int
        BY <1>3, <4>1, ElementOfSeq
      <4> QED BY <2>2, <4>2
    <3>2. u \in Text /\ u.c = "out" /\ u.of = line[1]
      BY <3>1, UnitTypes DEF Unit
    <3> HIDE DEF u
    <3>3. <<u>> \in Seq(Text)
      <4>1. \A x \in Text : <<x>> \in Seq(Text)
        OBVIOUS
      <4> QED BY <3>2, <4>1
    <3>4. Says(s, <<u>>)
      BY <2>2 DEF u
    <3>5. said'[s] = said[s] \o <<u>> /\ \A o \in Shell \ {s} : said'[o] = said[o]
      BY <1>1, <3>3, <3>4, SaysType
    <3>6. Marks(<<u>>) = 0
      BY <3>2, MarksOne
    <3>7. Outs(<<u>>) = {line[1]}
      BY <3>2, OutsOne
    <3> QED BY <2>2, <3>3, <3>5, <3>6, <3>7
  <2> QED BY <1>1, <2>1, <2>2
<1>6. PICK t \in Seq(Text) :
        /\ said'[s] = said[s] \o t /\ Marks(t) = 0
        /\ Outs(t) = {} \/ (HasOutput /\ Outs(t) = {line[1]})
        /\ \A o \in Shell \ {s} : said'[o] = said[o]
  BY <1>5
<1>7. /\ Shape(s) /\ Clean(s) /\ Paid(s) /\ Turns(s) /\ Stops(s) /\ (Hurried(s) \/ InStep(s))
  BY <1>1 DEF Local
<1>8. /\ Stray(s) => Stray(s)'
      /\ Outs(said'[s]) = Outs(said[s]) \cup Outs(t)
      /\ Marks(said'[s]) = Marks(said[s]) + Marks(t)
      /\ Met(said'[s], seen[s]) = Met(said[s], seen[s])
      /\ seen[s] <= Len(said'[s])
  BY <1>1, <1>6, <1>7, SaidMore
<1>9. Hurried(s) => Hurried(s)'
  BY <1>4, <1>8 DEF Hurried
<1>10. /\ Armed(s)' = Armed(s) /\ Asked(s)' = Asked(s)
       /\ TakenLines(s)' = TakenLines(s) + 1
  <2>1. TakenLines(s)' = TakenLines(s) + 1
    BY <1>1, <1>4, LineCounted
  <2> QED BY <1>4, <2>1 DEF Armed, Asked
<1>11. taken'[s] <= Len(typed'[s]) /\ taken[s] \in Nat /\ EndOfLine(s) \in Nat
       /\ taken[s] + 1 <= EndOfLine(s) /\ EndOfLine(s) <= Len(typed[s]) /\ Len(typed[s]) \in Nat
  <2>1. taken[s] \in Nat /\ Len(typed[s]) \in Nat
    BY <1>1, LenProperties DEF TypeOK
  <2>2. EndOfLine(s) \in taken[s] + 1 .. Len(typed[s]) /\ EndOfLine(s) \in Nat
    BY <1>1, FirstLine
  <2> QED BY <1>4, <2>1, <2>2
<1>12. shell'[s] \in {"busy", "closed"}
  BY <1>1, <1>4
<1>13. Shape(s)'
  <2>1. pc[s] = "read"
    BY <1>1, <1>7 DEF Shape
  <2>2. Quiet(s) => Quiet(s)'
    BY <1>4, <1>8 DEF Quiet, Cmd
  <2> QED BY <1>4, <1>7, <1>8, <1>10, <1>11, <2>1, <2>2 DEF Shape
<1>14. Clean(s)'
  BY <1>1, <1>4, <1>7, <1>9, <1>10 DEF Clean
<1>15. Paid(s)'
  BY <1>1, <1>4, <1>7, <1>8, <1>9, <1>10 DEF Paid, Excused
<1>16. Turns(s)'
  <2> SUFFICES ASSUME ~Stray(s)' PROVE Marks(said'[s]) = TakenLines(s)' + 0
    BY <1>12 DEF Turns
  <2>1. Marks(said[s]) = TakenLines(s) + 1 /\ Marks(said[s]) \in Nat
    BY <1>1, <1>7, <1>8, Numbers DEF Turns
  <2> QED BY <1>6, <1>8, <1>10, <2>1
<1>17. Stops(s)'
  BY <1>4, <1>7, <1>8 DEF Stops
<1>18. InStep(s) => InStep(s)'
  <2>1. Script(s) => Script(s)'
    BY <1>4, <1>10 DEF Script
  <2>2. Echoed(s) => Echoed(s)'
    BY <1>4 DEF Echoed, Cmd
  <2>3. ASSUME InStep(s) PROVE Took(s)'
    <3>1. Script(s) /\ Took(s)
      BY <2>3 DEF InStep
    <3>2. NextLine(s, line) \/ Beyond(s, line)
      BY <1>1, <1>7, <3>1, LineTaken DEF line
    <3> QED BY <1>1, <1>3, <1>4, <1>6, <1>7, <1>8, <3>1, <3>2, TookMore
  <2> QED BY <1>4, <2>1, <2>2, <2>3 DEF InStep
<1>19. Browser(s)'
  BY <1>1, <1>4, <1>9, BrowserSame
<1>20. ASSUME NEW o \in Shell \ {s} PROVE Local(o)' /\ Browser(o)'
  <2>1. Same(o) /\ page'[o] = page[o] /\ web' = web
    BY <1>4, <1>6 DEF Same
  <2> QED BY <1>1, <2>1, OthersSame
<1>21. Local(s)'
  BY <1>7, <1>9, <1>13, <1>14, <1>15, <1>16, <1>17, <1>18 DEF Local
<1> QED BY <1>2, <1>19, <1>20, <1>21 DEF IInv

-----------------------------------------------------------------------------
(* Operations complete: a handler joins the queue.                         *)

\* What holds of the lines does not depend on which handlers are ready, but on what is under way.
LEMMA JoinsQueue ==
  ASSUME NEW s \in Shell, Local(s), Shape(s)', Paid(s)',
         UNCHANGED <<program, file, toShellMsg, shell, said, typed, taken>>,
         \A k : Cmd(s, k) => Cmd(s, k)',
         Armed(s)' = Armed(s), Times(ready'[s], "wrote") = Times(ready[s], "wrote")
  PROVE  Local(s)'
<1>1. /\ Clean(s) /\ Turns(s) /\ Stops(s) /\ (Hurried(s) \/ InStep(s))
  BY DEF Local
<1>2. /\ Asked(s)' = Asked(s) /\ TakenLines(s)' = TakenLines(s)
      /\ Stray(s)' = Stray(s) /\ Hurried(s)' = Hurried(s)
  BY DEF Asked, TakenLines, Stray, Hurried
<1>3. Clean(s)'
  BY <1>1, <1>2 DEF Clean
<1>4. Turns(s)' /\ Stops(s)'
  BY <1>1, <1>2 DEF Turns, Stops
<1>5. InStep(s) => InStep(s)'
  <2>1. Script(s) => Script(s)'
    BY <1>2 DEF Script
  <2>2. Took(s) => Took(s)'
    BY <1>2 DEF Took
  <2>3. Echoed(s) => Echoed(s)'
    BY DEF Echoed
  <2> QED BY <2>1, <2>2, <2>3 DEF InStep
<1> QED BY <1>1, <1>2, <1>3, <1>4, <1>5 DEF Local

LEMMA ExpireInv == ASSUME IInv, NEW s \in Shell, Expire(s) PROVE IInv'
<1>1. /\ TypeInv /\ TypeOK /\ timer[s] /\ timer' = [timer EXCEPT ![s] = FALSE]
      /\ ready' = [ready EXCEPT ![s] = Append(@, "timer")]
      /\ UNCHANGED <<program, up, pc, data_, file, toShellMsg, page, web, shell, said, taken,
                     chats, seen, typed, cut>>
      /\ \A o \in Shell : Local(o) /\ Browser(o)
  BY DEF Expire, IInv, TypeInv, browser, remote
<1>2. TypeInv'
  BY ExpireType DEF IInv
<1>3. /\ ready'[s] = Append(ready[s], "timer") /\ ready[s] \in Seq(Handlers)
      /\ \A o \in Shell \ {s} : ready'[o] = ready[o]
  BY <1>1, AppendHandler DEF Handlers, TypeOK
<1>4. timer'[s] = FALSE /\ timer[s] = TRUE /\ \A o \in Shell \ {s} : timer'[o] = timer[o]
  BY <1>1 DEF TypeOK
<1>5. /\ Times(ready'[s], "timer") = Times(ready[s], "timer") + 1
      /\ Times(ready'[s], "read") = Times(ready[s], "read")
      /\ Times(ready'[s], "wrote") = Times(ready[s], "wrote")
      /\ Before(ready'[s]) => Before(ready[s])
  <2>1. /\ \A v : Times(ready'[s], v) = Times(ready[s], v) + IF "timer" = v THEN 1 ELSE 0
        /\ Before(ready'[s]) => Before(ready[s])
    BY <1>3, QueueAppend
  <2>2. /\ Times(ready[s], "timer") \in Nat /\ Times(ready[s], "read") \in Nat
        /\ Times(ready[s], "wrote") \in Nat
    BY <1>3, TimesType
  <2> QED BY <2>1, <2>2
<1>6. Armed(s)' = Armed(s)
  <2>1. Times(ready[s], "timer") \in Nat
    BY <1>3, TimesType
  <2> QED BY <1>4, <1>5, <2>1 DEF Armed
<1>7. Shape(s) /\ Paid(s)
  BY <1>1 DEF Local
<1>8. Shape(s)'
  <2>1. Quiet(s)' = Quiet(s)
    BY <1>1 DEF Quiet, Stray, Cmd
  <2> QED BY <1>1, <1>5, <1>6, <1>7, <2>1 DEF Shape
<1>9. Paid(s)'
  BY <1>1, <1>6, <1>7 DEF Paid, Excused, Asked, Hurried, Stray
<1>10. Local(s)' /\ Browser(s)'
  <2>1. Hurried(s)' = Hurried(s)
    BY <1>1 DEF Hurried, Stray
  <2>2. Local(s)'
    BY <1>1, <1>5, <1>6, <1>8, <1>9, JoinsQueue DEF Cmd
  <2> QED BY <1>1, <2>1, <2>2, BrowserSame
<1>11. ASSUME NEW o \in Shell \ {s} PROVE Local(o)' /\ Browser(o)'
  <2>1. Same(o) /\ page'[o] = page[o] /\ web' = web
    BY <1>1, <1>3, <1>4 DEF Same
  <2> QED BY <1>1, <2>1, OthersSame
<1> QED BY <1>2, <1>10, <1>11 DEF IInv

LEMMA ReceiveInv == ASSUME IInv, NEW s \in Shell, Receive(s) PROVE IInv'
<1>1. PICK n \in seen[s] + 1 .. Len(said[s]) :
        /\ data_' = [data_ EXCEPT ![s] = SubSeq(said[s], seen[s] + 1, n)]
        /\ seen' = [seen EXCEPT ![s] = n]
  BY DEF Receive
<1>2. /\ TypeInv /\ TypeOK /\ ready' = [ready EXCEPT ![s] = Append(@, "read")]
      /\ "read" \notin {ready[s][i] : i \in DOMAIN ready[s]}
      /\ UNCHANGED <<program, up, pc, timer, file, toShellMsg, page, web, shell, said, taken,
                     chats, typed>>
      /\ \A o \in Shell : Local(o) /\ Browser(o)
  BY DEF Receive, IInv, TypeInv, browser, remote
<1>3. TypeInv'
  BY ReceiveType DEF IInv
<1>4. /\ ready'[s] = Append(ready[s], "read") /\ ready[s] \in Seq(Handlers)
      /\ \A o \in Shell \ {s} : ready'[o] = ready[o]
  BY <1>2, AppendHandler DEF Handlers, TypeOK
<1>5. /\ said[s] \in Seq(Text) /\ seen[s] \in Nat /\ n \in Nat /\ Len(said[s]) \in Nat
      /\ seen[s] <= n /\ n <= Len(said[s])
      /\ seen'[s] = n /\ data_'[s] = SubSeq(said[s], seen[s] + 1, n)
      /\ \A o \in Shell \ {s} : data_'[o] = data_[o] /\ seen'[o] = seen[o]
  <2>1. said[s] \in Seq(Text) /\ seen[s] \in Nat /\ Len(said[s]) \in Nat
    BY <1>2, LenProperties DEF TypeOK
  <2>2. /\ seen'[s] = n /\ data_'[s] = SubSeq(said[s], seen[s] + 1, n)
        /\ \A o \in Shell \ {s} : data_'[o] = data_[o] /\ seen'[o] = seen[o]
    BY <1>1, <1>2 DEF TypeOK
  <2> QED BY <1>1, <2>1, <2>2
<1>6. /\ Times(ready[s], "read") = 0 /\ ~Before(ready'[s])
      /\ Times(ready'[s], "timer") = Times(ready[s], "timer")
      /\ Times(ready'[s], "read") = 1
      /\ Times(ready'[s], "wrote") = Times(ready[s], "wrote")
  <2>1. /\ \A v : Times(ready'[s], v) = Times(ready[s], v) + IF "read" = v THEN 1 ELSE 0
        /\ Before(ready'[s]) => Before(ready[s])
    BY <1>4, QueueAppend
  <2>2. /\ Times(ready[s], "timer") \in Nat /\ Times(ready[s], "read") \in Nat
        /\ Times(ready[s], "wrote") \in Nat
        /\ Times(ready[s], "read") = 0 <=> \A i \in DOMAIN ready[s] : ready[s][i] # "read"
    BY <1>4, TimesType
  <2>3. ~Before(ready[s])
    BY <1>2 DEF Before
  <2> QED BY <1>2, <2>1, <2>2, <2>3
<1>7. Armed(s)' = Armed(s)
  BY <1>2, <1>6 DEF Armed
<1>8. Shape(s) /\ Paid(s) /\ data_[s] = <<>>
  BY <1>2, <1>6 DEF Local, Shape
<1>9. Outs(data_'[s]) \subseteq Outs(said[s])
  <2>1. \A i \in seen[s] + 1 .. n : said[s][i] \in Text
    BY <1>5, ElementOfSeq
  <2> DEFINE m == seen[s] + 1
             d == SubSeq(said[s], m, n)
  <2>2. /\ d \in Seq(Text) /\ Len(d) = (IF m <= n THEN n - m + 1 ELSE 0)
        /\ \A i \in 1 .. n - m + 1 : d[i] = said[s][m + i - 1]
    <3>1. m \in Int /\ n \in Int
      BY <1>5
    <3>2. \A i \in m .. n : said[s][i] \in Text
      BY <2>1
    <3> HIDE DEF m
    <3> QED BY <3>1, <3>2, SubSeqProperties
  <2>3. data_'[s] = d /\ m \in Nat /\ m > 0 /\ m <= n + 1
    BY <1>5
  <2> HIDE DEF d, m
  <2>4. DOMAIN d = 1 .. n - m + 1 /\ DOMAIN said[s] = 1 .. Len(said[s])
    <3>1. Len(d) = n - m + 1
      BY <1>5, <2>2, <2>3
    <3> QED BY <1>5, <2>2, <3>1, LenProperties
  <2>5. ASSUME NEW k \in Outs(d) PROVE k \in Outs(said[s])
    <3>1. PICK i \in DOMAIN d : d[i].c = "out" /\ k = d[i].of
      BY <2>5 DEF Outs
    <3>2. m + i - 1 \in DOMAIN said[s] /\ d[i] = said[s][m + i - 1]
      <4>1. i \in 1 .. n - m + 1
        BY <2>4
      <4>2. m + i - 1 \in 1 .. Len(said[s])
        <5>1. n \in Nat /\ n <= Len(said[s]) /\ Len(said[s]) \in Nat /\ m \in Nat /\ m > 0
          BY <1>5, <2>3
        <5> QED BY <4>1, <5>1
      <4>3. d[i] = said[s][m + i - 1]
        BY <2>2, <4>1
      <4> QED BY <2>4, <4>2, <4>3
    <3> QED BY <3>1, <3>2 DEF Outs
  <2> QED BY <2>3, <2>5
<1>10. Shape(s)'
  BY <1>2, <1>5, <1>6, <1>7, <1>8, <1>9 DEF Shape
<1>11. Paid(s)'
  <2>1. Excused(s)' = Excused(s) /\ Asked(s)' = Asked(s)
    BY <1>2 DEF Excused, Hurried, Stray, Asked
  <2>2. ~HasPrompt(data_[s])
    BY <1>8 DEF HasPrompt, PromptEnds
  <2>3. Met(said[s], seen[s]) + (IF HasPrompt(data_'[s]) THEN 1 ELSE 0) <= Met(said[s], n)
    <3>1. seen[s] \in 0 .. Len(said[s]) /\ n \in seen[s] .. Len(said[s])
      BY <1>5
    <3> QED BY <1>5, <3>1, MetMore
  <2>4. /\ Asked(s) \in Nat /\ Armed(s) \in Nat /\ Met(said[s], seen[s]) \in Nat
        /\ Met(said[s], n) \in Nat
    <3>1. n \in 0 .. Len(said[s])
      BY <1>5
    <3> QED BY <1>2, <1>5, <1>8, <3>1, Numbers, EndsType
  <2>5. Excused(s) \/ Asked(s) + Armed(s) <= Met(said[s], seen[s])
    BY <1>8, <2>2, <2>4 DEF Paid
  <2>6. ASSUME ~Excused(s)
        PROVE  Asked(s) + Armed(s) + (IF HasPrompt(data_'[s]) THEN 1 ELSE 0) <= Met(said[s], n)
    BY <2>3, <2>4, <2>5, <2>6
  <2> QED BY <1>2, <1>5, <1>7, <2>1, <2>6 DEF Paid
<1>12. Local(s)' /\ Browser(s)'
  <2>1. Hurried(s)' = Hurried(s)
    BY <1>2 DEF Hurried, Stray
  <2>2. Local(s)'
    BY <1>2, <1>6, <1>7, <1>10, <1>11, JoinsQueue DEF Cmd
  <2> QED BY <1>2, <2>1, <2>2, BrowserSame
<1>13. ASSUME NEW o \in Shell \ {s} PROVE Local(o)' /\ Browser(o)'
  <2>1. Same(o) /\ page'[o] = page[o] /\ web' = web
    BY <1>2, <1>4, <1>5 DEF Same
  <2> QED BY <1>2, <2>1, OthersSame
<1> QED BY <1>3, <1>12, <1>13 DEF IInv

-----------------------------------------------------------------------------
(* A line is sent.                                                         *)

LEMMA TypedMore ==
  ASSUME TypeInv, NEW s \in Shell, Shape(s), NEW m \in Seq(Int),
         typed'[s] = typed[s] \o m, taken'[s] = taken[s]
  PROVE  /\ Len(typed'[s]) = Len(typed[s]) + Len(m) /\ Len(m) \in Nat
         /\ \A i \in 1 .. Len(typed[s]) : typed'[s][i] = typed[s][i]
         /\ \A i \in 1 .. Len(m) : typed'[s][Len(typed[s]) + i] = m[i]
         /\ Times(m, NL) \in Nat /\ Asked(s)' = Asked(s) + Times(m, NL)
         /\ TakenLines(s)' = TakenLines(s)
<1>1. typed[s] \in Seq(Int) /\ taken[s] \in Nat /\ taken[s] <= Len(typed[s])
  BY DEF TypeInv, TypeOK, Shape
<1>2. /\ Len(typed'[s]) = Len(typed[s]) + Len(m) /\ Len(m) \in Nat /\ Len(typed[s]) \in Nat
      /\ \A i \in 1 .. Len(typed[s]) + Len(m) :
           typed'[s][i] = IF i <= Len(typed[s]) THEN typed[s][i] ELSE m[i - Len(typed[s])]
  BY <1>1, ConcatProperties, LenProperties
<1>3. \A i \in 1 .. Len(typed[s]) : typed'[s][i] = typed[s][i]
  BY <1>2
<1>4. ASSUME NEW i \in 1 .. Len(m) PROVE typed'[s][Len(typed[s]) + i] = m[i]
  <2>1. /\ Len(typed[s]) + i \in 1 .. Len(typed[s]) + Len(m)
        /\ ~(Len(typed[s]) + i <= Len(typed[s])) /\ (Len(typed[s]) + i) - Len(typed[s]) = i
    BY <1>2
  <2> QED BY <1>2, <2>1
<1>5. Times(m, NL) \in Nat /\ Asked(s)' = Asked(s) + Times(m, NL)
  <2>1. Times(m, NL) \in Nat
    BY TimesType
  <2>2. Times(typed[s] \o m, NL) = Times(typed[s], NL) + Times(m, NL)
    BY <1>1, TimesConcat
  <2>3. Asked(s) = Times(typed[s], NL) /\ Asked(s)' = Times(typed'[s], NL)
    BY DEF Asked, Times, Positions
  <2> QED BY <2>1, <2>2, <2>3
<1>6. TakenLines(s)' = TakenLines(s)
  <2>1. \A i \in 1 .. taken[s] : typed'[s][i] = typed[s][i]
    BY <1>1, <1>2, <1>3
  <2> QED BY <2>1 DEF TakenLines
<1> QED BY <1>2, <1>3, <1>4, <1>5, <1>6

\* What the shell has taken stays what it was.
LEMMA TookSame ==
  ASSUME TypeInv, NEW s \in Shell, Shape(s), Took(s), NEW m \in Seq(Int),
         typed'[s] = typed[s] \o m, taken'[s] = taken[s], shell'[s] = shell[s], said'[s] = said[s]
  PROVE  Took(s)'
<1>1. /\ TakenLines(s)' = TakenLines(s)
      /\ \A i \in 1 .. Len(typed[s]) : typed'[s][i] = typed[s][i]
  BY TypedMore
<1>2. \A i \in 1 .. taken[s] : i \in 1 .. Len(typed[s])
  BY Numbers DEF Shape
<1> QED BY <1>1, <1>2 DEF Took

\* The line to send is the one after those that were sent, or there is none.
Due(s, f, m) ==
  /\ f <= Lines[s] => f \in Nat \ {0} /\ Len(typed[s]) = 2 * (f - 1) /\ m = <<f, NL>>
  /\ f > Lines[s] => Len(typed[s]) >= 2 * Lines[s] /\ \A i \in DOMAIN m : m[i] <= 0

LEMMA Sent ==
  ASSUME TypeInv, NEW s \in Shell, Shape(s), AsWritten(s, typed[s]), NEW m \in Seq(Int),
         typed'[s] = typed[s] \o m, taken'[s] = taken[s],
         NEW f \in Nat, Due(s, f, m)
  PROVE  /\ AsWritten(s, typed'[s])
         /\ f <= Lines[s] =>
              Len(typed'[s]) = 2 * f /\ Times(m, NL) = 1 /\ m[1] = f
         /\ f > Lines[s] => Len(typed'[s]) >= 2 * Lines[s]
<1> DEFINE n == Len(typed[s])
<1>1. /\ Len(typed'[s]) = n + Len(m) /\ Len(m) \in Nat
      /\ \A i \in 1 .. n : typed'[s][i] = typed[s][i]
      /\ \A i \in 1 .. Len(m) : typed'[s][n + i] = m[i]
  BY TypedMore
<1>2. /\ n \in Nat /\ DOMAIN typed[s] = 1 .. n /\ DOMAIN m = 1 .. Len(m)
      /\ DOMAIN typed'[s] = 1 .. n + Len(m) /\ Lines[s] \in Nat
  <2>1. typed[s] \in Seq(Int) /\ typed[s] \o m \in Seq(Int)
    BY DEF TypeInv, TypeOK
  <2>2. typed'[s] \in Seq(Int)
    BY <2>1
  <2> QED BY <1>1, <2>1, <2>2, LenProperties, ConsoleAssumption
<1>3. /\ f <= Lines[s] => f \in Nat \ {0} /\ n = 2 * (f - 1) /\ m = <<f, NL>>
      /\ f > Lines[s] => n >= 2 * Lines[s] /\ \A i \in 1 .. Len(m) : m[i] <= 0
  BY <1>2 DEF Due
<1>4. \A i \in 1 .. n : /\ i <= 2 * Lines[s] =>
                             typed[s][i] = IF i % 2 = 1 THEN (i + 1) \div 2 ELSE NL
                        /\ i > 2 * Lines[s] => typed[s][i] <= 0
  BY <1>2 DEF AsWritten
<1> HIDE DEF n
<1>5. CASE f <= Lines[s]
  <2>1. n = 2 * (f - 1) /\ f \in Nat \ {0}
    BY <1>3, <1>5
  <2>2. Len(m) = 2 /\ m[1] = f /\ m[2] = NL /\ Times(m, NL) = 1
    <3>1. m = <<f, NL>> /\ f # NL
      BY <1>3, <1>5 DEF NL
    <3>2. Len(m) = 2 /\ m[1] = f /\ m[2] = NL
      BY <3>1
    <3>3. Positions(m, NL) = {2}
      <4>1. DOMAIN m = 1 .. 2
        BY <1>2, <3>2
      <4> QED BY <3>1, <3>2, <4>1 DEF Positions
    <3> QED BY <3>2, <3>3, FS_Singleton DEF Times
  <2>3. typed'[s][2 * f - 1] = f /\ typed'[s][2 * f] = NL
    <3>1. n + 1 = 2 * f - 1 /\ n + 2 = 2 * f
      BY <2>1
    <3>2. typed'[s][n + 1] = m[1] /\ typed'[s][n + 2] = m[2]
      <4>1. 1 \in 1 .. Len(m) /\ 2 \in 1 .. Len(m)
        BY <2>2
      <4> QED BY <1>1, <4>1
    <3> QED BY <2>2, <3>1, <3>2
  <2>4. n + Len(m) = 2 * f
    BY <2>1, <2>2
  <2>5. ASSUME NEW i \in 1 .. 2 * f
        PROVE  /\ i <= 2 * Lines[s] =>
                    typed'[s][i] = IF i % 2 = 1 THEN (i + 1) \div 2 ELSE NL
               /\ i > 2 * Lines[s] => typed'[s][i] <= 0
    <3>1. CASE i \in 1 .. n
      BY <1>1, <1>4, <3>1
    <3>2. CASE i = 2 * f - 1
      <4>1. i % 2 = 1 /\ (i + 1) \div 2 = f /\ ~(i > 2 * Lines[s])
        BY <1>2, <1>5, <2>1, <3>2
      <4>2. typed'[s][i] = f
        BY <2>3, <3>2
      <4> QED BY <4>1, <4>2, Zenon
    <3>3. CASE i = 2 * f
      <4>1. i % 2 # 1 /\ ~(i > 2 * Lines[s])
        BY <1>2, <1>5, <2>1, <3>3
      <4>2. typed'[s][i] = NL
        BY <2>3, <3>3
      <4> QED BY <4>1, <4>2, Zenon
    <3>4. i \in 1 .. n \/ i = 2 * f - 1 \/ i = 2 * f
      BY <2>1, <2>5
    <3> QED BY <3>1, <3>2, <3>3, <3>4
  <2>6. AsWritten(s, typed'[s])
    BY <1>2, <2>4, <2>5, Zenon DEF AsWritten
  <2>7. Len(typed'[s]) = 2 * f /\ ~(f > Lines[s])
    BY <1>1, <1>2, <1>5, <2>1, <2>4
  <2> QED BY <2>2, <2>6, <2>7, Zenon
<1>6. CASE f > Lines[s]
  <2>1. n >= 2 * Lines[s] /\ \A i \in 1 .. Len(m) : m[i] <= 0
    BY <1>3, <1>6
  <2>2. ASSUME NEW i \in 1 .. n + Len(m)
        PROVE  /\ i <= 2 * Lines[s] =>
                    typed'[s][i] = IF i % 2 = 1 THEN (i + 1) \div 2 ELSE NL
               /\ i > 2 * Lines[s] => typed'[s][i] <= 0
    <3>1. CASE i \in 1 .. n
      BY <1>1, <1>4, <3>1
    <3>2. CASE i > n
      <4>1. i - n \in 1 .. Len(m) /\ n + (i - n) = i
        BY <1>1, <1>2, <3>2
      <4>2. typed'[s][i] <= 0
        BY <1>1, <2>1, <4>1
      <4>3. ~(i <= 2 * Lines[s])
        <5>1. 2 * Lines[s] \in Nat
          BY <1>2
        <5> QED BY <1>2, <2>1, <3>2, <5>1
      <4> QED BY <4>2, <4>3
    <3>3. i \in 1 .. n \/ i > n
      BY <1>1, <1>2
    <3> QED BY <3>1, <3>2, <3>3
  <2>3. Len(typed'[s]) >= 2 * Lines[s]
    <3>1. 2 * Lines[s] \in Nat
      BY <1>2
    <3> QED BY <1>1, <1>2, <2>1, <3>1
  <2>4. ~(f <= Lines[s])
    BY <1>2, <1>6
  <2> QED BY <1>2, <2>2, <2>3, <2>4 DEF AsWritten
<1> QED BY <1>2, <1>5, <1>6

\* A timer fires: the line that waited is sent.
LEMMA FireInv == ASSUME IInv, NEW s \in Shell, Fire(s) PROVE IInv'
<1> DEFINE m == toShellMsg[s]
<1>1. /\ TypeInv /\ TypeOK /\ ready[s] # <<>> /\ Head(ready[s]) = "timer" /\ do_write(s, m)
      /\ UNCHANGED <<program, up, pc, timer, data_, file, toShellMsg, page, web, shell, said,
                     taken, chats, seen, cut>>
      /\ \A o \in Shell : Local(o) /\ Browser(o)
  BY DEF Fire, IInv, TypeInv, browser, remote
<1>2. TypeInv'
  BY FireType DEF IInv
<1>3. m \in Seq(Int) /\ ready[s] \in Seq(Handlers)
  BY <1>1 DEF TypeOK, Handlers
<1> HIDE DEF m
<1>4. /\ typed'[s] = typed[s] \o m /\ ready'[s] = Tail(ready[s]) \o <<"wrote">>
      /\ \A o \in Shell \ {s} : typed'[o] = typed[o] /\ ready'[o] = ready[o]
  BY <1>1, <1>3, WriteType
<1>5. /\ Shape(s) /\ Clean(s) /\ Paid(s) /\ Turns(s) /\ Stops(s) /\ (Hurried(s) \/ InStep(s))
  BY <1>1 DEF Local
<1>6. /\ Times(ready[s], "timer") = Times(ready'[s], "timer") + 1
      /\ Times(ready[s], "read") = Times(ready'[s], "read")
      /\ Times(ready'[s], "wrote") > 0
      /\ Times(ready'[s], "timer") \in Nat
  <2>1. /\ \A h \in {"read", "timer"} :
              Times(ready[s], h) = Times(ready'[s], h) + IF Head(ready[s]) = h THEN 1 ELSE 0
        /\ <<"wrote">> # <<>> => Times(ready'[s], "wrote") > 0
    BY <1>1, <1>3, <1>4, QueueTail
  <2>2. <<"wrote">> # <<>>
    OBVIOUS
  <2>3. /\ ready'[s] \in Seq(Handlers)
    BY <1>2 DEF TypeInv, TypeOK, Handlers
  <2>4. /\ Times(ready'[s], "timer") \in Nat /\ Times(ready'[s], "read") \in Nat
    BY <2>3, TimesType
  <2> QED BY <1>1, <2>1, <2>2, <2>4
<1>7. Armed(s) = Armed(s)' + 1 /\ Armed(s)' \in Nat
  BY <1>1, <1>6 DEF Armed
<1>8. /\ program = "project3" /\ Hurried(s)' = Hurried(s) /\ Stray(s)' = Stray(s)
      /\ Excused(s)' = Excused(s)
  <2>1. Stray(s)' = Stray(s) /\ Hurried(s)' = Hurried(s)
    BY <1>1 DEF Hurried, Stray
  <2>2. program = "project3"
    BY <1>5, <1>7 DEF Shape
  <2> QED BY <1>1, <2>1, <2>2 DEF Excused
<1>9. /\ Len(typed'[s]) = Len(typed[s]) + Len(m) /\ Len(m) \in Nat
      /\ Times(m, NL) \in Nat /\ Asked(s)' = Asked(s) + Times(m, NL)
      /\ TakenLines(s)' = TakenLines(s)
  BY <1>1, <1>3, <1>4, <1>5, TypedMore
<1>10. /\ taken[s] <= Len(typed'[s]) /\ Asked(s) \in Nat /\ Lines[s] \in Nat /\ file[s] \in Nat
       /\ Len(typed[s]) \in Nat
  <2>1. /\ taken[s] \in Nat /\ Len(typed[s]) \in Nat /\ taken[s] <= Len(typed[s])
        /\ Asked(s) \in Nat /\ Lines[s] \in Nat /\ file[s] \in Nat
    BY <1>1, <1>5, Numbers DEF Shape
  <2> QED BY <1>9, <2>1
<1>11. ASSUME ~Stray(s)
       PROVE  /\ Times(ready[s], "wrote") = 0 /\ Armed(s)' = 0 /\ InStep(s)
              /\ Quiet(s)
  <2>1. InStep(s) /\ Script(s) /\ Took(s) /\ Echoed(s)
    BY <1>5, <1>8, <1>11 DEF Hurried, InStep
  <2>2. Times(ready[s], "wrote") = 0 /\ Armed(s)' = 0
    BY <1>7, <2>1 DEF Script
  <2>3. ~HasPrompt(data_[s])
    BY <1>1, <1>7, <1>8, <1>11, OneWaits
  <2>4. \A k \in Outs(data_[s]) : Cmd(s, k)
    <3> SUFFICES ASSUME NEW k \in Outs(data_[s]) PROVE Cmd(s, k)
      OBVIOUS
    <3>1. k \in Outs(said[s])
      BY <1>5 DEF Shape
    <3>2. k \in 1 .. Lines[s] /\ k < Exit[s] /\ 2 * k <= taken[s]
      BY <2>1, <3>1 DEF Took
    <3>3. taken[s] <= Len(typed[s]) /\ taken[s] \in Nat /\ Exit[s] \in Nat
      BY <1>1, <1>5, Numbers DEF Shape
    <3>4. 2 * k <= Len(typed[s]) /\ ~(k >= Exit[s])
      BY <1>10, <3>2, <3>3
    <3> QED BY <2>1, <2>2, <3>2, <3>4 DEF Echoed
  <2> QED BY <1>8, <2>1, <2>2, <2>3, <2>4 DEF Quiet
<1>12. Shape(s)'
  <2>1. Quiet(s)'
    <3>1. Quiet(s) \/ Stray(s)
      BY <1>11
    <3>2. Quiet(s) => Quiet(s)'
      BY <1>1, <1>8 DEF Quiet, Cmd
    <3> QED BY <1>1, <1>8, <3>1, <3>2 DEF Quiet
  <2> QED BY <1>1, <1>5, <1>6, <1>8, <1>10, <2>1 DEF Shape
<1>13. Clean(s)'
  BY <1>1, <1>5, <1>6, <1>8 DEF Clean
<1>14. Paid(s)'
  <2> SUFFICES ASSUME ~Excused(s)
               PROVE  Asked(s)' + Armed(s)' + (IF HasPrompt(data_[s]) THEN 1 ELSE 0)
                        <= Met(said[s], seen[s])
    BY <1>1, <1>8 DEF Paid
  <2>1. Times(m, NL) <= 1
    BY <1>5, <1>10 DEF Clean, Excused, m
  <2>2. Asked(s) + Armed(s) + (IF HasPrompt(data_[s]) THEN 1 ELSE 0) <= Met(said[s], seen[s])
    BY <1>5 DEF Paid
  <2>3. Met(said[s], seen[s]) \in Nat
    BY <1>1, <1>5, Numbers
  <2> QED BY <1>7, <1>9, <1>10, <2>1, <2>2, <2>3
<1>15. Turns(s)' /\ Stops(s)'
  BY <1>1, <1>5, <1>8, <1>9 DEF Turns, Stops
<1>16. ASSUME ~Stray(s) PROVE InStep(s)'
  <2>1. /\ Times(ready[s], "wrote") = 0 /\ Armed(s)' = 0 /\ Armed(s) = 1
        /\ Script(s) /\ Took(s) /\ Echoed(s)
    BY <1>7, <1>8, <1>11, <1>16 DEF InStep
  <2>2. Due(s, file[s], m)
    <3>1. ASSUME file[s] <= Lines[s]
          PROVE  /\ file[s] \in Nat \ {0} /\ Len(typed[s]) = 2 * (file[s] - 1)
                 /\ m = <<file[s], NL>> /\ Asked(s) = file[s] - 1
      <4>1. /\ Len(typed[s]) = 2 * (file[s] - Armed(s)) /\ Asked(s) = file[s] - Armed(s)
            /\ m = <<file[s], NL>>
        BY <2>1, <3>1 DEF Script, m
      <4>2. file[s] # 0
        BY <1>10, <2>1, <4>1
      <4> QED BY <1>10, <2>1, <4>1, <4>2
    <3>2. file[s] > Lines[s] => /\ Len(typed[s]) >= 2 * Lines[s]
                                /\ \A i \in DOMAIN m : m[i] <= 0
      BY <2>1 DEF Script, m
    <3> QED BY <3>1, <3>2 DEF Due
  <2>3. /\ AsWritten(s, typed'[s])
        /\ file[s] <= Lines[s] =>
             Len(typed'[s]) = 2 * file[s] /\ Times(m, NL) = 1 /\ m[1] = file[s]
        /\ file[s] > Lines[s] => Len(typed'[s]) >= 2 * Lines[s]
    <3>1. AsWritten(s, typed[s])
      BY <2>1 DEF Script
    <3> QED BY <1>1, <1>3, <1>4, <1>5, <1>10, <2>2, <3>1, Sent
  <2>4. Script(s)'
    <3>1. file[s] <= Lines[s] => Asked(s)' = file[s]
      <4>1. file[s] <= Lines[s] => Asked(s) = file[s] - 1
        BY <2>1 DEF Script
      <4> QED BY <1>9, <1>10, <2>3, <4>1
    <3>2. file[s] <= Lines[s] =>
            /\ Asked(s)' = file[s] - Armed(s)' /\ Len(typed'[s]) = 2 * (file[s] - Armed(s)')
            /\ toShellMsg[s][1] = file[s] /\ file[s] > 0
      BY <1>10, <2>1, <2>2, <2>3, <3>1 DEF m, Due
    <3>3. file[s] > Lines[s] => \A i \in DOMAIN toShellMsg[s] : toShellMsg[s][i] <= 0
      BY <2>1 DEF Script
    <3>4. Armed(s)' <= 1 /\ ~(Armed(s)' > 0)
      BY <2>1
    <3> QED BY <1>1, <2>3, <3>2, <3>3, <3>4 DEF Script
  <2>5. Took(s)'
    BY <1>1, <1>3, <1>4, <1>5, <2>1, TookSame
  <2>6. Echoed(s)'
    <3> SUFFICES ASSUME NEW k \in 1 .. Lines[s], 2 * k <= Len(typed'[s])
                 PROVE  k >= Exit[s] \/ Cmd(s, k)' \/ toShellMsg[s][1] = k
      BY <1>1, <1>6 DEF Echoed
    <3>1. CASE 2 * k <= Len(typed[s])
      BY <1>1, <2>1, <3>1 DEF Echoed, Cmd
    <3>2. CASE 2 * k > Len(typed[s])
      <4>1. file[s] <= Lines[s]
        <5> SUFFICES ASSUME file[s] > Lines[s] PROVE FALSE
          BY <1>10
        <5>1. Len(typed[s]) >= 2 * Lines[s]
          BY <2>1 DEF Script
        <5> QED BY <1>10, <3>2, <5>1
      <4>2. Len(typed[s]) = 2 * (file[s] - 1) /\ Len(typed'[s]) = 2 * file[s] /\ m[1] = file[s]
        BY <2>1, <2>3, <4>1 DEF Script
      <4>3. k = file[s]
        BY <1>10, <3>2, <4>2
      <4> QED BY <4>2, <4>3 DEF m
    <3> QED BY <1>10, <3>1, <3>2
  <2> QED BY <2>4, <2>5, <2>6 DEF InStep
<1>17. Local(s)'
  <2>1. Hurried(s)' \/ InStep(s)'
    BY <1>8, <1>16 DEF Hurried
  <2> QED BY <1>12, <1>13, <1>14, <1>15, <2>1 DEF Local
<1>18. Browser(s)'
  <2>1. web = <<>> /\ Shows(s)
    BY <1>1, <1>8 DEF Browser
  <2>2. Shows(s)'
    BY <1>1, <1>8, <2>1 DEF Shows
  <2> QED BY <1>1, <1>8, <2>1, <2>2 DEF Browser
<1>19. ASSUME NEW o \in Shell \ {s} PROVE Local(o)' /\ Browser(o)'
  <2>1. Same(o) /\ page'[o] = page[o] /\ web' = web
    BY <1>1, <1>4 DEF Same
  <2> QED BY <1>1, <2>1, OthersSame
<1> QED BY <1>2, <1>17, <1>18, <1>19 DEF IInv

-----------------------------------------------------------------------------
(* A line was sent.                                                        *)

\* The column may show what comes after the commands it shows.
LEMMA ShowsMore ==
  ASSUME TypeInv, NEW s \in Shell, Shows(s), NEW t \in Seq(Shown), page'[s] = page[s] \o t,
         Hurried(s) => Hurried(s)',
         \A k \in Outs(t) : Hurried(s)' \/ Marked(s, k, page[s])
  PROVE  Shows(s)'
<1> DEFINE n == Len(page[s])
<1>1. page[s] \in Seq(Shown)
  BY DEF TypeInv, TypeOK
<1>2. /\ n \in Nat /\ Len(t) \in Nat /\ DOMAIN page[s] = 1 .. n /\ DOMAIN t = 1 .. Len(t)
      /\ DOMAIN page'[s] = 1 .. n + Len(t)
      /\ \A i \in 1 .. n + Len(t) : page'[s][i] = IF i <= n THEN page[s][i] ELSE t[i - n]
  BY <1>1, ConcatProperties, LenProperties
<1> HIDE DEF n
<1>3. \A i \in 1 .. n : i \in 1 .. n + Len(t) /\ page'[s][i] = page[s][i]
  BY <1>2
<1> SUFFICES ASSUME NEW j \in 1 .. n + Len(t), page'[s][j].c = "out", ~Hurried(s)'
             PROVE  \E i \in 1 .. j - 1 : page'[s][i] \in {Unit("cmd", page'[s][j].of), Junk}
  BY <1>2 DEF Shows
<1>4. CASE j <= n
  <2>1. j \in 1 .. n /\ page'[s][j] = page[s][j]
    BY <1>2, <1>4
  <2>2. PICK i \in 1 .. j - 1 : page[s][i] \in {Unit("cmd", page[s][j].of), Junk}
    BY <1>2, <2>1 DEF Shows
  <2>3. page'[s][i] = page[s][i]
    BY <1>2, <1>3, <2>1
  <2> QED BY <2>1, <2>2, <2>3
<1>5. CASE j > n
  <2>1. j - n \in DOMAIN t /\ page'[s][j] = t[j - n]
    BY <1>2, <1>5
  <2>2. page'[s][j].of \in Outs(t)
    BY <2>1 DEF Outs
  <2>3. PICK i \in 1 .. n : page[s][i] \in {Unit("cmd", page'[s][j].of), Junk}
    BY <1>2, <2>2 DEF Marked
  <2>4. i \in 1 .. j - 1 /\ page'[s][i] = page[s][i]
    BY <1>2, <1>3, <1>5, <2>3
  <2> QED BY <2>3, <2>4
<1> QED BY <1>2, <1>4, <1>5

\* What escape leaves has no newline, and starts with the same line.
LEMMA Escaped ==
  ASSUME NEW m \in Seq(Int), m # <<>>
  PROVE  /\ Times(escape(m), NL) = 0
         /\ m[1] # NL => escape(m)[1] = m[1]
         /\ (\A i \in DOMAIN m : m[i] <= 0) => \A i \in DOMAIN escape(m) : escape(m)[i] <= 0
<1>1. /\ escape(m) \in Seq(Int) /\ DOMAIN escape(m) = DOMAIN m
      /\ \A i \in DOMAIN m : escape(m)[i] = IF m[i] = NL THEN ESC ELSE m[i]
  BY EscapeType
<1>2. 1 \in DOMAIN m /\ \A i \in DOMAIN m : m[i] \in Int
  BY ElementOfSeq, LenProperties
<1>3. Times(escape(m), NL) = 0
  <2>1. \A i \in DOMAIN escape(m) : escape(m)[i] # NL
    BY <1>1 DEF ESC, NL
  <2> QED BY <1>1, <2>1, TimesType
<1>4. ESC <= 0
  BY DEF ESC
<1> QED BY <1>1, <1>2, <1>3, <1>4

\* The write is done, and a console shows the command, unless the shell has gone.
LEMMA WroteInv == ASSUME IInv, NEW s \in Shell, Wrote(s) \/ WroteWeb(s) PROVE IInv'
<1> DEFINE m == toShellMsg[s]
           Showing == /\ program # "cgi" /\ page'[s] = page[s] \o Echo(m) /\ web' = web
                      /\ toShellMsg'[s] = escape(m)
           Silent == /\ program = "cgi" \/ shell[s] = "closed"
                     /\ UNCHANGED <<page, web, toShellMsg>>
<1>1. /\ TypeInv /\ TypeOK /\ ready[s] # <<>> /\ Head(ready[s]) = "wrote" /\ Runs(s, <<>>)
      /\ UNCHANGED <<program, up, pc, timer, data_, file, shell, said, taken, chats, seen,
                     typed, cut>>
      /\ \A o \in Shell : Local(o) /\ Browser(o)
  BY WroteStep DEF IInv, TypeInv
<1>2. TypeInv'
  BY WroteType DEF IInv
<1>3. /\ m \in Seq(Int) /\ m # <<>> /\ ready[s] \in Seq(Handlers) /\ m[1] \in Int
  <2>1. ready[s] \in Seq(Handlers) /\ m \in Seq(Int)
    BY <1>1 DEF TypeOK, Handlers
  <2>2. 1 \in DOMAIN ready[s] /\ ready[s][1] = "wrote"
    BY <1>1, <2>1
  <2>3. m # <<>>
    BY <1>1, <2>2 DEF TypeInv, MsgHeld, Has
  <2> QED BY <2>1, <2>3
<1>4. Echo(m) \in Seq(Shown) /\ Echo(m) = <<Unit("cmd", m[1])>> /\ Outs(Echo(m)) = {}
  <2>1. Unit("cmd", m[1]) \in Shown /\ Unit("cmd", m[1]).c # "out"
    BY <1>3, UnitTypes DEF Unit
  <2>2. \A u \in Shown : <<u>> \in Seq(Shown)
    OBVIOUS
  <2>3. Outs(<<Unit("cmd", m[1])>>) = {}
    BY <2>1, OutsOne
  <2> QED BY <2>1, <2>2, <2>3 DEF Echo
<1>5. /\ Showing \/ Silent
      /\ \A o \in Shell \ {s} : page'[o] = page[o] /\ toShellMsg'[o] = toShellMsg[o]
      /\ web' = web
  <2>1. CASE Silent
    BY <2>1
  <2>2. CASE /\ program # "cgi" /\ Output(s, Echo(toShellMsg[s]))
             /\ toShellMsg' = [toShellMsg EXCEPT ![s] = escape(@)]
    <3>1. page'[s] = page[s] \o Echo(m) /\ web' = web /\ \A o \in Shell \ {s} : page'[o] = page[o]
      BY <1>1, <1>4, <2>2, OutputType
    <3> QED BY <1>1, <2>2, <3>1 DEF TypeOK
  <2> QED BY <2>1, <2>2, WroteStep
<1> HIDE DEF m
<1>6. /\ ready'[s] = Tail(ready[s]) \o <<>>
      /\ \A o \in Shell \ {s} : ready'[o] = ready[o]
  <2>1. <<>> \in Seq(Handlers)
    OBVIOUS
  <2> QED BY <1>1, <2>1, RunsType
<1>7. /\ Times(ready'[s], "timer") = Times(ready[s], "timer")
      /\ Times(ready'[s], "read") = Times(ready[s], "read")
      /\ Times(ready[s], "wrote") > 0
      /\ Before(ready'[s]) => Before(ready[s])
  <2>1. /\ \A h \in {"read", "timer"} :
              Times(ready[s], h) = Times(ready'[s], h) + IF Head(ready[s]) = h THEN 1 ELSE 0
        /\ Times(ready[s], "wrote")
             = Times(ready'[s], "wrote") + IF Head(ready[s]) = "wrote" THEN 1 ELSE 0
        /\ Before(ready'[s]) => Before(ready[s])
    BY <1>1, <1>3, <1>6, QueueTail
  <2>2. ready'[s] \in Seq(Handlers)
    BY <1>2 DEF TypeInv, TypeOK, Handlers
  <2>3. /\ Times(ready'[s], "timer") \in Nat /\ Times(ready'[s], "read") \in Nat
        /\ Times(ready'[s], "wrote") \in Nat
    BY <2>2, TimesType
  <2> QED BY <1>1, <2>1, <2>3
<1>8. /\ Shape(s) /\ Clean(s) /\ Paid(s) /\ Turns(s) /\ Stops(s) /\ (Hurried(s) \/ InStep(s))
  BY <1>1 DEF Local
<1>9. /\ Armed(s)' = Armed(s) /\ Asked(s)' = Asked(s) /\ TakenLines(s)' = TakenLines(s)
      /\ Stray(s)' = Stray(s) /\ Hurried(s)' = Hurried(s) /\ Excused(s)' = Excused(s)
  BY <1>1, <1>7 DEF Armed, Asked, TakenLines, Stray, Hurried, Excused
<1>10. /\ \A k : Cmd(s, k) => Cmd(s, k)'
       /\ Showing => \A k : k = m[1] => Cmd(s, k)'
  <2>1. CASE Showing
    <3> DEFINE e == Echo(m)
    <3>1. \A k : k = m[1] => \E i \in DOMAIN e : e[i] = Unit("cmd", k)
      BY <1>4
    <3>2. e \in Seq(Shown) /\ page'[s] = page[s] \o e
      BY <1>4, <2>1
    <3> HIDE DEF e
    <3>3. /\ \A k : Cmd(s, k) => Cmd(s, k)'
          /\ \A k : (\E i \in DOMAIN e : e[i] = Unit("cmd", k)) => Cmd(s, k)'
      BY <1>1, <3>2, PageMore
    <3> QED BY <3>1, <3>3
  <2>2. CASE ~Showing /\ Silent
    BY <2>2 DEF Cmd
  <2> QED BY <1>5, <2>1, <2>2
<1>11. Shape(s)'
  <2>1. Quiet(s) => Quiet(s)'
    BY <1>1, <1>9, <1>10 DEF Quiet
  <2> QED BY <1>1, <1>7, <1>8, <1>9, <2>1 DEF Shape
<1>12. Clean(s)'
  <2>1. CASE Showing
    <3>1. Times(toShellMsg'[s], NL) = 0
      BY <1>3, <2>1, Escaped
    <3> QED BY <3>1 DEF Clean
  <2>2. CASE Silent
    BY <1>1, <1>8, <2>2 DEF Clean
  <2> QED BY <1>5, <2>1, <2>2
<1>13. Paid(s)' /\ Turns(s)' /\ Stops(s)'
  BY <1>1, <1>8, <1>9 DEF Paid, Turns, Stops
<1>14. ASSUME InStep(s) PROVE InStep(s)'
  <2>1. Script(s) /\ Took(s) /\ (program = "cgi" \/ Echoed(s))
    BY <1>14 DEF InStep
  <2>2. Armed(s) = 0
    <3>1. Armed(s) \in Nat
      BY <1>1, <1>8, Numbers
    <3> QED BY <1>7, <2>1, <3>1 DEF Script
  <2>3. /\ Lines[s] \in Nat /\ file[s] \in Nat /\ Len(typed[s]) \in Nat /\ Exit[s] \in Nat \ {0}
        /\ taken[s] <= Len(typed[s])
    BY <1>1, <1>8, Numbers DEF Shape
  <2>4. /\ file[s] <= Lines[s] => m[1] = file[s] /\ file[s] > 0 /\ Len(typed[s]) = 2 * file[s]
        /\ file[s] > Lines[s] => \A i \in DOMAIN m : m[i] <= 0
    BY <1>7, <2>1, <2>2, <2>3 DEF Script, m
  <2>5. /\ file[s] <= Lines[s] => toShellMsg'[s][1] = file[s]
        /\ file[s] > Lines[s] => \A i \in DOMAIN toShellMsg'[s] : toShellMsg'[s][i] <= 0
    <3>1. CASE Showing
      <4>1. /\ m[1] # NL => escape(m)[1] = m[1]
            /\ (\A i \in DOMAIN m : m[i] <= 0) => \A i \in DOMAIN escape(m) : escape(m)[i] <= 0
        BY <1>3, Escaped
      <4>2. file[s] > 0 => file[s] # NL
        BY DEF NL
      <4> QED BY <2>4, <3>1, <4>1, <4>2
    <3>2. CASE Silent
      BY <2>4, <3>2 DEF m
    <3> QED BY <1>5, <3>1, <3>2
  <2>6. Script(s)'
    <3>1. ~(Armed(s)' > 0) /\ Armed(s)' <= 1
      BY <1>9, <2>2
    <3> QED BY <1>1, <1>9, <2>1, <2>4, <2>5, <3>1 DEF Script
  <2>7. Took(s)'
    BY <1>1, <1>9, <2>1 DEF Took
  <2>8. program # "cgi" => Echoed(s)'
    <3> SUFFICES ASSUME program # "cgi", NEW k \in 1 .. Lines[s], 2 * k <= Len(typed[s])
                 PROVE  k >= Exit[s] \/ Cmd(s, k)'
      BY <1>1 DEF Echoed
    <3>1. k >= Exit[s] \/ Cmd(s, k) \/ m[1] = k
      BY <2>1 DEF Echoed, m
    <3>2. ASSUME m[1] = k PROVE k >= Exit[s] \/ Cmd(s, k)'
      <4>1. CASE Showing
        BY <1>10, <3>2, <4>1
      <4>2. CASE Silent
        <5>1. taken[s] = 2 * Exit[s]
          BY <2>1, <4>2 DEF Took
        <5>2. file[s] <= Lines[s]
          <6>1. 1 \in DOMAIN m
            BY <1>3
          <6>2. ~(m[1] <= 0)
            BY <3>2
          <6> QED BY <2>3, <2>4, <6>1, <6>2
        <5>3. k = file[s] /\ Len(typed[s]) = 2 * file[s]
          BY <2>4, <3>2, <5>2
        <5> QED BY <2>3, <5>1, <5>3
      <4> QED BY <1>5, <4>1, <4>2
    <3> QED BY <1>10, <3>1, <3>2
  <2> QED BY <1>1, <2>6, <2>7, <2>8 DEF InStep
<1>15. Local(s)'
  BY <1>8, <1>9, <1>11, <1>12, <1>13, <1>14 DEF Local
<1>16. Browser(s)'
  <2>1. CASE Showing
    <3>1. web = <<>> /\ Shows(s)
      BY <1>1, <2>1 DEF Browser
    <3>2. Shows(s)'
      BY <1>1, <1>4, <1>9, <2>1, <3>1, ShowsMore
    <3> QED BY <1>1, <2>1, <3>1, <3>2 DEF Browser
  <2>2. CASE Silent
    BY <1>1, <1>9, <2>2, BrowserSame
  <2> QED BY <1>5, <2>1, <2>2
<1>17. ASSUME NEW o \in Shell \ {s} PROVE Local(o)' /\ Browser(o)'
  <2>1. Same(o) /\ page'[o] = page[o] /\ web' = web
    BY <1>1, <1>5, <1>6 DEF Same
  <2> QED BY <1>1, <2>1, OthersSame
<1> QED BY <1>2, <1>15, <1>16, <1>17 DEF IInv

-----------------------------------------------------------------------------
(* A read is handled.                                                      *)

LEMMA AppendPair ==
  ASSUME NEW l \in Seq(Int), NEW a \in Int, NEW b \in Int, Len(l) = 1, l[1] = a
  PROVE  Append(l, b) = <<a, b>>
<1>1. ASSUME NEW k \in Seq(Int), NEW c \in Int
      PROVE  /\ Append(k, c) \in Seq(Int) /\ Len(Append(k, c)) = Len(k) + 1
             /\ Append(k, c)[Len(k) + 1] = c
             /\ \A i \in 1 .. Len(k) : Append(k, c)[i] = k[i]
  BY <1>1, AppendProperties
<1> DEFINE q == Append(l, b)
<1>2. /\ q \in Seq(Int) /\ Len(q) = Len(l) + 1 /\ q[Len(l) + 1] = b
      /\ \A i \in 1 .. Len(l) : q[i] = l[i]
  BY <1>1
<1>3. Len(l) = 1 /\ l[1] = a
  OBVIOUS
<1> HIDE DEF q
<1>4. Len(q) = 2 /\ q[1] = a /\ q[2] = b
  BY <1>2, <1>3
<1>5. q = <<a, b>>
  BY <1>2, <1>4
<1> QED BY <1>5 DEF q

\* The line that waits after getline: the next of the script, or none.
LEMMA LineRead ==
  ASSUME TypeInv, NEW s \in Shell, getline(s)
  PROVE  /\ toShellMsg'[s] \in Seq(Int) /\ file'[s] \in Nat
         /\ file[s] < Lines[s] =>
              file'[s] = file[s] + 1 /\ toShellMsg'[s] = <<file'[s], NL>>
         /\ file[s] >= Lines[s] => file'[s] = Lines[s] + 1
         /\ file[s] <= Lines[s] => Times(toShellMsg'[s], NL) = 1
         /\ file[s] > Lines[s] => Times(toShellMsg'[s], NL) = Times(toShellMsg[s], NL) + 1
         /\ file[s] = Lines[s] \/ (file[s] > Lines[s]
                                    /\ \A i \in DOMAIN toShellMsg[s] : toShellMsg[s][i] <= 0)
              => \A i \in DOMAIN toShellMsg'[s] : toShellMsg'[s][i] <= 0
<1> DEFINE m == toShellMsg[s]
           f == file[s]
           L == Lines[s]
           line == CASE f < L -> <<f + 1>> [] f = L -> <<>> [] OTHER -> m
<1>1. /\ L \in Nat /\ f \in Nat /\ f <= L + 1 /\ m \in Seq(Int)
      /\ file \in [Shell -> Nat] /\ toShellMsg \in [Shell -> Seq(Int)]
  BY ConsoleAssumption DEF TypeInv, TypeOK
<1>2. /\ file'[s] = IF f <= L THEN f + 1 ELSE f
      /\ toShellMsg'[s] = Append(line, NL)
  BY <1>1 DEF getline
<1>3. toShellMsg'[s] \in Seq(Int) /\ file'[s] \in Nat
  BY GetlineType DEF TypeInv
<1> HIDE DEF f, L, m
<1>4. CASE f < L
  <2>1. line = <<f + 1>> /\ file'[s] = f + 1
    BY <1>1, <1>2, <1>4
  <2> HIDE DEF line
  <2>2. toShellMsg'[s] = <<f + 1, NL>>
    <3>1. Append(line, NL) = <<f + 1, NL>>
      <4>1. line \in Seq(Int) /\ NL \in Int /\ Len(line) = 1 /\ line[1] = f + 1
        BY <1>1, <2>1 DEF NL
      <4>2. f + 1 \in Int
        BY <1>1
      <4> QED BY <4>1, <4>2, AppendPair
    <3> QED BY <1>2, <3>1
  <2>3. Positions(<<f + 1, NL>>, NL) = {2}
    <3>1. f + 1 # NL
      BY <1>1 DEF NL
    <3> QED BY <3>1 DEF Positions
  <2>4. Times(toShellMsg'[s], NL) = 1
    BY <2>2, <2>3, FS_Singleton DEF Times
  <2>5. ~(f >= L) /\ ~(f > L) /\ f # L
    BY <1>1, <1>4
  <2> QED BY <1>3, <2>1, <2>2, <2>4, <2>5 DEF f, L, m
<1>5. CASE f = L
  <2>1. line = <<>> /\ file'[s] = L + 1
    BY <1>1, <1>2, <1>5
  <2> HIDE DEF line
  <2>2. toShellMsg'[s] = <<NL>>
    <3>1. Append(<<>>, NL) = <<NL>>
      OBVIOUS
    <3> QED BY <1>2, <2>1, <3>1, Zenon
  <2>3. Times(toShellMsg'[s], NL) = 1
    BY <2>2, TimesOne
  <2>4. \A i \in DOMAIN toShellMsg'[s] : toShellMsg'[s][i] <= 0
    BY <2>2 DEF NL
  <2>5. ~(f > L) /\ ~(f < L)
    BY <1>1, <1>5
  <2> QED BY <1>3, <2>1, <2>3, <2>4, <2>5 DEF f, L, m
<1>6. CASE f > L
  <2>1. line = m /\ file'[s] = L + 1
    BY <1>1, <1>2, <1>6
  <2> HIDE DEF line
  <2>2. toShellMsg'[s] = Append(m, NL)
    BY <1>2, <2>1
  <2>3. NL \in Int /\ NL <= 0
    BY DEF NL
  <2>4. Times(toShellMsg'[s], NL) = Times(m, NL) + 1
    <3>1. Times(Append(m, NL), NL) = Times(m, NL) + IF NL = NL THEN 1 ELSE 0
      BY <1>1, <2>3, TimesAppend, Zenon
    <3> QED BY <2>2, <3>1
  <2>5. (\A i \in DOMAIN m : m[i] <= 0)
          => \A i \in DOMAIN toShellMsg'[s] : toShellMsg'[s][i] <= 0
    <3>1. /\ DOMAIN Append(m, NL) = 1 .. Len(m) + 1 /\ DOMAIN m = 1 .. Len(m) /\ Len(m) \in Nat
          /\ \A i \in 1 .. Len(m) : Append(m, NL)[i] = m[i]
          /\ Append(m, NL)[Len(m) + 1] = NL
      BY <1>1, <2>3, AppendProperties, LenProperties
    <3>2. \A i \in 1 .. Len(m) + 1 : i \in 1 .. Len(m) \/ i = Len(m) + 1
      BY <3>1
    <3> QED BY <2>2, <2>3, <3>1, <3>2
  <2>6. ~(f <= L) /\ ~(f < L) /\ f # L
    BY <1>1, <1>6
  <2> QED BY <1>3, <2>1, <2>4, <2>5, <2>6 DEF f, L, m
<1> QED BY <1>1, <1>4, <1>5, <1>6

\* Unless a user said one, a prompt is there before the shell has taken "exit".
LEMMA BeforeExit ==
  ASSUME TypeInv, NEW s \in Shell, Local(s), ~Stray(s), Exit[s] <= Lines[s],
         HasPrompt(data_[s])
  PROVE  file[s] + 1 <= Exit[s]
<1>1. Shape(s) /\ Stops(s) /\ Script(s) /\ Took(s)
  BY DEF Local, Hurried, InStep
<1>2. /\ Lines[s] \in Nat /\ Exit[s] \in Nat \ {0} /\ file[s] \in Nat /\ Armed(s) \in Nat
      /\ Asked(s) \in Nat /\ TakenLines(s) \in Nat /\ taken[s] \in Nat
      /\ Len(typed[s]) \in Nat /\ taken[s] <= Len(typed[s])
      /\ DOMAIN typed[s] = 1 .. Len(typed[s])
  <2>1. typed[s] \in Seq(Int)
    BY DEF TypeInv, TypeOK
  <2> QED BY <1>1, <2>1, Numbers, LenProperties DEF Shape
<1>3. file[s] <= Lines[s]
  BY <1>1, <1>2 DEF Stops
<1>4. ~Excused(s)
  BY <1>2, <1>3 DEF Excused
<1>5. Asked(s) + Armed(s) + 1 <= TakenLines(s) + IF shell[s] = "prompted" THEN 1 ELSE 0
  BY <1>4, InTurn
<1>6. Asked(s) = file[s] - Armed(s) /\ Len(typed[s]) = 2 * (file[s] - Armed(s))
  BY <1>1, <1>3 DEF Script
<1>7. taken[s] = 2 * TakenLines(s)
  <2>1. taken[s] <= 2 * Lines[s]
    BY <1>2, <1>3, <1>6
  <2> QED BY <1>1, <2>1 DEF Took
<1>8. CASE shell[s] = "closed"
  <2>1. taken[s] = 2 * Exit[s]
    BY <1>1, <1>8 DEF Took
  <2>2. TakenLines(s) = Exit[s]
    BY <1>2, <1>7, <2>1
  <2>3. Asked(s) + Armed(s) + 1 <= TakenLines(s)
    BY <1>2, <1>5, <1>8
  <2> QED BY <1>2, <1>6, <2>2, <2>3
<1>9. CASE shell[s] # "closed"
  <2>1. TakenLines(s) < Exit[s]
    <3> SUFFICES ASSUME Exit[s] <= TakenLines(s) PROVE FALSE
      BY <1>2
    <3> DEFINE i == 2 * Exit[s] - 1
    <3>1. i \in 1 .. taken[s] /\ i \in 1 .. Len(typed[s]) /\ i <= 2 * Lines[s]
      BY <1>2, <1>7
    <3>2. i % 2 = 1 /\ (i + 1) \div 2 = Exit[s]
      BY <1>2
    <3>3. typed[s][i] # Exit[s]
      BY <1>1, <1>9, <3>1 DEF Took
    <3> HIDE DEF i
    <3>4. typed[s][i] = Exit[s]
      BY <1>1, <1>2, <3>1, <3>2 DEF Script, AsWritten
    <3> QED BY <3>3, <3>4
  <2> QED BY <1>2, <1>5, <1>6, <2>1
<1> QED BY <1>8, <1>9

\* What a read that is handled leaves of the queue, and adds to the column.
Handled(s) ==
  /\ UNCHANGED <<program, pc, shell, said, taken, seen>>
  /\ data_'[s] = <<>> /\ ready'[s] \in Seq(Handlers)
  /\ Times(ready'[s], "read") = 0 /\ Times(ready'[s], "timer") = Times(ready[s], "timer")
  /\ Times(ready[s], "wrote") > 0 => Quiet(s)
  /\ \A k : Cmd(s, k) => Cmd(s, k)'

LEMMA HandledRead ==
  ASSUME TypeInv, NEW s \in Shell, Shape(s), do_read(s), TypeInv',
         NEW more \in {<<>>, <<"wrote">>}, Runs(s, more), \A k : Cmd(s, k) => Cmd(s, k)'
  PROVE  /\ Handled(s) /\ (more # <<>> => Times(ready'[s], "wrote") > 0)
         /\ (more = <<>> => Times(ready'[s], "wrote") = Times(ready[s], "wrote"))
         /\ \A o \in Shell \ {s} : data_'[o] = data_[o] /\ ready'[o] = ready[o]
<1>1. /\ TypeOK /\ ready[s] # <<>> /\ Head(ready[s]) = "read"
      /\ data_' = [data_ EXCEPT ![s] = <<>>]
      /\ UNCHANGED <<program, up, pc, shell, said, taken, chats, seen, cut>>
  BY ReadStep DEF TypeInv
<1>2. ready[s] \in Seq(Handlers) /\ ready'[s] \in Seq(Handlers)
  BY <1>1 DEF TypeInv, TypeOK, Handlers
<1>3. more \in Seq(Handlers)
  <2>1. <<>> \in Seq(Handlers) /\ <<"wrote">> \in Seq(Handlers)
    BY DEF Handlers
  <2> QED BY <2>1, Zenon
<1>4. /\ ready'[s] = Tail(ready[s]) \o more
      /\ \A o \in Shell \ {s} : ready'[o] = ready[o]
  BY <1>1, <1>3, RunsType
<1>5. /\ \A h \in {"read", "timer"} :
              Times(ready[s], h) = Times(ready'[s], h) + IF Head(ready[s]) = h THEN 1 ELSE 0
      /\ more = <<>> =>
           Times(ready[s], "wrote")
             = Times(ready'[s], "wrote") + IF Head(ready[s]) = "wrote" THEN 1 ELSE 0
      /\ more # <<>> => Times(ready'[s], "wrote") > 0
      /\ Head(ready[s]) = "read" /\ Times(ready[s], "wrote") > 0 => Before(ready[s])
  <2> DEFINE q == ready[s]
             r == ready'[s]
  <2>1. q \in Seq(Handlers) /\ q # <<>> /\ r = Tail(q) \o more
    BY <1>1, <1>2, <1>4
  <2> HIDE DEF q, r
  <2>2. /\ \A h \in {"read", "timer"} :
              Times(q, h) = Times(r, h) + IF Head(q) = h THEN 1 ELSE 0
        /\ more = <<>> =>
              Times(q, "wrote") = Times(r, "wrote") + IF Head(q) = "wrote" THEN 1 ELSE 0
        /\ more # <<>> => Times(r, "wrote") > 0
        /\ Head(q) = "read" /\ Times(q, "wrote") > 0 => Before(q)
    BY <2>1, QueueTail
  <2> QED BY <2>2 DEF q, r
<1>6. /\ Times(ready'[s], "read") \in Nat /\ Times(ready'[s], "timer") \in Nat
      /\ Times(ready'[s], "wrote") \in Nat
  BY <1>2, TimesType
<1>7. /\ Times(ready'[s], "read") = 0 /\ Times(ready'[s], "timer") = Times(ready[s], "timer")
      /\ (more = <<>> => Times(ready'[s], "wrote") = Times(ready[s], "wrote"))
      /\ (more # <<>> => Times(ready'[s], "wrote") > 0)
      /\ (Times(ready[s], "wrote") > 0 => Quiet(s))
  BY <1>1, <1>5, <1>6 DEF Shape
<1>8. data_'[s] = <<>> /\ \A o \in Shell \ {s} : data_'[o] = data_[o]
  BY <1>1 DEF TypeOK
<1> QED BY <1>1, <1>2, <1>4, <1>7, <1>8 DEF Handled

LEMMA HandledShape ==
  ASSUME TypeInv, NEW s \in Shell, Shape(s), Handled(s),
         program # "project3" => Armed(s)' = 0, taken[s] <= Len(typed'[s])
  PROVE  Shape(s)' /\ ~HasPrompt(data_'[s])
<1>1. ~Before(ready'[s])
  <2>1. \A i \in DOMAIN ready'[s] : ready'[s][i] # "read"
    BY TimesType DEF Handled
  <2> QED BY <2>1 DEF Before
<1>2. Outs(data_'[s]) = {}
  BY DEF Outs, Handled
<1>3. ~HasPrompt(data_'[s])
  BY DEF HasPrompt, PromptEnds, Handled
<1> QED BY <1>1, <1>2, <1>3 DEF Shape, Handled

\* A prompt is handled: no line waits, unless a user said one.
LEMMA NoneWaits ==
  ASSUME TypeInv, NEW s \in Shell, Local(s), Handled(s), HasPrompt(data_[s]), ~Hurried(s)
  PROVE  Times(ready[s], "wrote") = 0 /\ Armed(s) = 0
<1>1. Shape(s)
  BY DEF Local
<1>2. program = "project3" => Armed(s) = 0 /\ ~Stray(s)
  BY OneWaits DEF Hurried
<1>3. Armed(s) = 0
  BY <1>1, <1>2 DEF Shape
<1>4. ~(Times(ready[s], "wrote") > 0)
  BY <1>2 DEF Handled, Quiet
<1>5. Times(ready[s], "wrote") \in Nat
  <2>1. ready[s] \in Seq(Handlers)
    BY DEF TypeInv, TypeOK, Handlers
  <2> QED BY <2>1, TimesType
<1> QED BY <1>3, <1>4, <1>5

\* The line read for a prompt has one newline; what was shown before it has none.
LEMMA LineIsClean ==
  ASSUME TypeInv, NEW s \in Shell, Local(s), Handled(s), HasPrompt(data_[s]), getline(s),
         file'[s] <= Lines[s] \/ ~(program = "cgi" \/ Hurried(s) \/ shell[s] = "closed")
  PROVE  Times(toShellMsg'[s], NL) = 1
<1>1. /\ Lines[s] \in Nat /\ file[s] \in Nat
      /\ file[s] >= Lines[s] => file'[s] = Lines[s] + 1
      /\ file[s] <= Lines[s] => Times(toShellMsg'[s], NL) = 1
      /\ file[s] > Lines[s] => Times(toShellMsg'[s], NL) = Times(toShellMsg[s], NL) + 1
  BY LineRead, ConsoleAssumption DEF TypeInv, TypeOK
<1>2. CASE file[s] > Lines[s]
  <2>1. ~(file'[s] <= Lines[s])
    BY <1>1, <1>2
  <2>2. ~(program = "cgi" \/ Hurried(s) \/ shell[s] = "closed")
    BY <2>1
  <2>3. Times(ready[s], "wrote") = 0 /\ Armed(s) = 0
    BY <2>2, NoneWaits
  <2>4. Times(toShellMsg[s], NL) = 0
    BY <2>2, <2>3 DEF Local, Clean
  <2> QED BY <1>1, <1>2, <2>4
<1> QED BY <1>1, <1>2

LEMMA PromptClean ==
  ASSUME TypeInv, NEW s \in Shell, Local(s), Handled(s), HasPrompt(data_[s]), getline(s),
         Times(ready'[s], "wrote") > 0 \/ Armed(s)' > 0
  PROVE  Clean(s)'
<1>1. Hurried(s)' = Hurried(s)
  BY DEF Handled, Hurried, Stray
<1>2. file'[s] <= Lines[s] => Times(toShellMsg'[s], NL) = 1
  BY LineIsClean
<1>3. program = "cgi" \/ Hurried(s) \/ shell[s] = "closed" \/ Times(toShellMsg'[s], NL) = 1
  BY LineIsClean
<1> QED BY <1>1, <1>2, <1>3 DEF Clean, Handled

LEMMA PromptStops ==
  ASSUME TypeInv, NEW s \in Shell, Local(s), Handled(s), HasPrompt(data_[s]), getline(s)
  PROVE  Stops(s)' /\ (Excused(s) => Excused(s)')
<1>1. Stray(s)' = Stray(s) /\ Hurried(s)' = Hurried(s)
  BY DEF Handled, Hurried, Stray
<1>2. /\ Lines[s] \in Nat /\ Exit[s] \in Nat /\ file[s] \in Nat
      /\ file[s] < Lines[s] => file'[s] = file[s] + 1
      /\ file[s] >= Lines[s] => file'[s] = Lines[s] + 1
  BY LineRead, ConsoleAssumption DEF TypeInv, TypeOK
<1>3. ASSUME ~Stray(s), Exit[s] <= Lines[s] PROVE file'[s] <= Exit[s]
  <2>1. file[s] + 1 <= Exit[s]
    BY <1>3, BeforeExit
  <2> QED BY <1>2, <1>3, <2>1
<1>4. Stops(s)'
  BY <1>1, <1>2, <1>3 DEF Stops
<1>5. file[s] > Lines[s] => file'[s] > Lines[s]
  BY <1>2
<1> QED BY <1>1, <1>4, <1>5 DEF Excused, Handled

\* With a timer, the line waits.
LEMMA TimerSet ==
  ASSUME TypeInv, NEW s \in Shell, Local(s), Handled(s), HasPrompt(data_[s]), getline(s),
         program = "project3", typed' = typed, timer'[s] = TRUE,
         Times(ready'[s], "wrote") = Times(ready[s], "wrote")
  PROVE  Local(s)'
<1>1. /\ Shape(s) /\ Clean(s) /\ Paid(s) /\ Turns(s) /\ (Hurried(s) \/ InStep(s))
  BY DEF Local
<1>2. /\ Asked(s)' = Asked(s) /\ TakenLines(s)' = TakenLines(s)
      /\ Stray(s)' = Stray(s) /\ Hurried(s)' = Hurried(s)
  BY DEF Handled, Asked, TakenLines, Stray, Hurried
<1>3. Times(ready[s], "timer") \in Nat
  <2>1. ready[s] \in Seq(Handlers)
    BY DEF TypeInv, TypeOK, Handlers
  <2> QED BY <2>1, TimesType
<1>4. Armed(s)' = Times(ready[s], "timer") + 1
  BY DEF Armed, Handled
<1>5. Armed(s)' > 0 /\ Armed(s)' \in Nat /\ Armed(s)' <= Armed(s) + 1 /\ Armed(s) \in Nat
  BY <1>3, <1>4 DEF Armed
<1>6. Shape(s)' /\ ~HasPrompt(data_'[s])
  BY <1>1, HandledShape DEF Shape
<1>7. Clean(s)'
  BY <1>5, PromptClean
<1>8. Stops(s)' /\ (Excused(s) => Excused(s)')
  BY PromptStops
<1>9. Paid(s)'
  <2> SUFFICES ASSUME ~Excused(s)
               PROVE  Asked(s)' + Armed(s)' + 0 <= Met(said[s], seen[s])
    BY <1>6, <1>8 DEF Paid, Handled
  <2>1. Asked(s) + Armed(s) + 1 <= Met(said[s], seen[s])
    BY <1>1 DEF Paid
  <2>2. Asked(s) \in Nat /\ Met(said[s], seen[s]) \in Nat
    BY <1>1, Numbers
  <2> QED BY <1>2, <1>5, <2>1, <2>2
<1>10. Turns(s)'
  BY <1>1, <1>2 DEF Turns, Handled
<1>11. ASSUME ~Hurried(s) PROVE InStep(s)'
  <2>1. Script(s) /\ Took(s) /\ Echoed(s)
    BY <1>1, <1>11 DEF InStep
  <2>2. Times(ready[s], "wrote") = 0 /\ Armed(s) = 0
    BY <1>11, NoneWaits
  <2>3. Armed(s)' = 1 /\ Times(ready'[s], "wrote") = 0
    BY <1>5, <2>2
  <2>4. /\ Lines[s] \in Nat /\ file[s] \in Nat /\ Asked(s) \in Nat /\ Len(typed[s]) \in Nat
        /\ file[s] < Lines[s] =>
              file'[s] = file[s] + 1 /\ toShellMsg'[s] = <<file'[s], NL>>
        /\ file[s] >= Lines[s] => file'[s] = Lines[s] + 1
        /\ file[s] = Lines[s] \/ (file[s] > Lines[s]
                                   /\ \A i \in DOMAIN toShellMsg[s] : toShellMsg[s][i] <= 0)
             => \A i \in DOMAIN toShellMsg'[s] : toShellMsg'[s][i] <= 0
    BY <1>1, LineRead, Numbers
  <2>5. Script(s)'
    <3>1. ASSUME file'[s] <= Lines[s]
          PROVE  /\ Asked(s)' = file'[s] - Armed(s)'
                 /\ Len(typed'[s]) = 2 * (file'[s] - Armed(s)')
                 /\ toShellMsg'[s] = <<file'[s], NL>>
      <4>1. file[s] < Lines[s]
        BY <2>4, <3>1
      <4>2. Asked(s) = file[s] - 0 /\ Len(typed[s]) = 2 * (file[s] - 0)
        BY <2>1, <2>2, <2>4, <4>1 DEF Script
      <4>3. file'[s] - Armed(s)' = file[s] - 0
        BY <2>3, <2>4, <4>1
      <4> QED BY <1>2, <2>4, <4>1, <4>2, <4>3
    <3>2. ASSUME file'[s] > Lines[s]
          PROVE  /\ Len(typed'[s]) >= 2 * Lines[s]
                 /\ \A i \in DOMAIN toShellMsg'[s] : toShellMsg'[s][i] <= 0
      <4>1. ~(file[s] < Lines[s])
        BY <2>4, <3>2
      <4>2. CASE file[s] = Lines[s]
        <5>1. Len(typed[s]) = 2 * (file[s] - 0)
          BY <2>1, <2>2, <2>4, <4>2 DEF Script
        <5> QED BY <2>4, <4>2, <5>1
      <4>3. CASE file[s] > Lines[s]
        BY <2>1, <2>4, <4>3 DEF Script
      <4> QED BY <2>4, <4>1, <4>2, <4>3
    <3> QED BY <2>1, <2>3, <3>1, <3>2 DEF Script
  <2>6. Took(s)'
    BY <1>2, <2>1 DEF Took, Handled
  <2>7. Echoed(s)'
    BY <2>1, <2>2 DEF Echoed, Handled
  <2> QED BY <2>5, <2>6, <2>7 DEF InStep
<1> QED BY <1>2, <1>6, <1>7, <1>8, <1>9, <1>10, <1>11 DEF Local

\* Without one, it is sent at once.
LEMMA SentAtOnce ==
  ASSUME TypeInv, NEW s \in Shell, Local(s), Handled(s), HasPrompt(data_[s]), getline(s),
         program # "project3", typed'[s] = typed[s] \o toShellMsg'[s], timer'[s] = timer[s],
         Times(ready'[s], "wrote") > 0
  PROVE  Local(s)' /\ (file'[s] <= Lines[s] => Len(typed'[s]) = 2 * file'[s])
         /\ \A k \in 1 .. Lines[s] : 2 * k <= Len(typed'[s]) =>
              2 * k <= Len(typed[s]) \/ toShellMsg'[s][1] = k
<1> DEFINE m == toShellMsg'[s]
           f == file'[s]
<1>1. /\ Shape(s) /\ Clean(s) /\ Paid(s) /\ Turns(s) /\ ~Hurried(s) /\ InStep(s)
  BY DEF Local, Hurried
<1>2. /\ Script(s) /\ Took(s) /\ (program = "cgi" \/ Echoed(s)) /\ AsWritten(s, typed[s])
  BY <1>1 DEF InStep, Script
<1>3. /\ Lines[s] \in Nat /\ file[s] \in Nat /\ Asked(s) \in Nat /\ Len(typed[s]) \in Nat
      /\ taken[s] \in Nat /\ taken[s] <= Len(typed[s]) /\ Met(said[s], seen[s]) \in Nat
  BY <1>1, Numbers DEF Shape
<1>4. /\ m \in Seq(Int) /\ f \in Nat
      /\ file[s] < Lines[s] => f = file[s] + 1 /\ m = <<f, NL>>
      /\ file[s] >= Lines[s] => f = Lines[s] + 1
      /\ file[s] = Lines[s] \/ (file[s] > Lines[s]
                                 /\ \A i \in DOMAIN toShellMsg[s] : toShellMsg[s][i] <= 0)
           => \A i \in DOMAIN m : m[i] <= 0
  BY LineRead
<1>5. typed'[s] = typed[s] \o m
  OBVIOUS
<1> HIDE DEF m, f
<1>6. Times(ready[s], "wrote") = 0 /\ Armed(s) = 0 /\ Armed(s)' = 0
  <2>1. Times(ready[s], "wrote") = 0 /\ Armed(s) = 0
    BY <1>1, NoneWaits
  <2> QED BY <2>1 DEF Armed, Handled
<1>7. /\ Stray(s)' = Stray(s) /\ Hurried(s)' = Hurried(s)
  BY DEF Handled, Stray, Hurried
<1>8. /\ Len(typed'[s]) = Len(typed[s]) + Len(m) /\ Len(m) \in Nat
      /\ Times(m, NL) \in Nat /\ Asked(s)' = Asked(s) + Times(m, NL)
      /\ TakenLines(s)' = TakenLines(s)
  BY <1>1, <1>4, <1>5, TypedMore DEF Handled
<1>9. /\ file[s] <= Lines[s] =>
           Asked(s) = file[s] /\ Len(typed[s]) = 2 * file[s]
      /\ file[s] > Lines[s] => /\ Len(typed[s]) >= 2 * Lines[s]
                               /\ \A i \in DOMAIN toShellMsg[s] : toShellMsg[s][i] <= 0
  <2>1. file[s] - 0 = file[s]
    BY <1>3
  <2> QED BY <1>2, <1>6, <2>1 DEF Script
<1>10. f <= Lines[s] => file[s] < Lines[s] /\ f = file[s] + 1 /\ m = <<f, NL>>
  BY <1>3, <1>4
<1>11. f > Lines[s] => \A i \in DOMAIN m : m[i] <= 0
  <2> SUFFICES ASSUME f > Lines[s] PROVE \A i \in DOMAIN m : m[i] <= 0
    OBVIOUS
  <2>1. ~(file[s] < Lines[s])
    BY <1>3, <1>4
  <2>2. file[s] = Lines[s] \/ file[s] > Lines[s]
    BY <1>3, <2>1
  <2> QED BY <1>4, <1>9, <2>2
<1>12. Due(s, f, m)
  <2>1. ASSUME f <= Lines[s]
        PROVE  f \in Nat \ {0} /\ Len(typed[s]) = 2 * (f - 1) /\ m = <<f, NL>>
    BY <1>3, <1>9, <1>10, <2>1
  <2>2. ASSUME f > Lines[s] PROVE Len(typed[s]) >= 2 * Lines[s]
    <3>1. CASE file[s] <= Lines[s]
      <4>1. file[s] = Lines[s]
        BY <1>3, <1>4, <2>2, <3>1
      <4> QED BY <1>3, <1>9, <4>1
    <3>2. CASE file[s] > Lines[s]
      BY <1>9, <3>2
    <3> QED BY <1>3, <3>1, <3>2
  <2> QED BY <1>11, <2>1, <2>2 DEF Due
<1>13. /\ AsWritten(s, typed'[s])
       /\ f <= Lines[s] => Len(typed'[s]) = 2 * f /\ Times(m, NL) = 1 /\ m[1] = f
       /\ f > Lines[s] => Len(typed'[s]) >= 2 * Lines[s]
  BY <1>1, <1>2, <1>4, <1>5, <1>12, Sent DEF Handled
<1>14. Shape(s)' /\ ~HasPrompt(data_'[s])
  <2>1. taken[s] <= Len(typed'[s])
    BY <1>3, <1>8
  <2> QED BY <1>1, <1>6, <2>1, HandledShape
<1>15. Clean(s)'
  BY PromptClean
<1>16. Stops(s)' /\ (Excused(s) => Excused(s)')
  BY PromptStops
<1>17. Paid(s)'
  <2> SUFFICES ASSUME ~Excused(s)'
               PROVE  Asked(s)' + Armed(s)' + 0 <= Met(said[s], seen[s])
    BY <1>14 DEF Paid, Handled
  <2>1. Asked(s) + Armed(s) + 1 <= Met(said[s], seen[s])
    BY <1>1, <1>16 DEF Paid
  <2>2. Times(m, NL) = 1
    <3>1. f <= Lines[s] \/ ~(program = "cgi" \/ Hurried(s) \/ shell[s] = "closed")
      <4>1. ~(f > Lines[s] /\ (program = "cgi" \/ Hurried(s) \/ shell[s] = "closed"))
        BY <1>7 DEF Excused, Handled, f
      <4> QED BY <1>3, <1>4, <4>1
    <3> QED BY <3>1, LineIsClean DEF m, f
  <2> QED BY <1>3, <1>6, <1>8, <2>1, <2>2
<1>18. Turns(s)'
  BY <1>1, <1>7, <1>8 DEF Turns, Handled
<1>19. Script(s)'
  <2>1. ASSUME f <= Lines[s]
        PROVE  /\ Asked(s)' = f - Armed(s)' /\ Len(typed'[s]) = 2 * (f - Armed(s)')
               /\ m[1] = f /\ f > 0
    <3>1. Asked(s) = file[s] /\ f = file[s] + 1
      BY <1>3, <1>9, <1>10, <2>1
    <3> QED BY <1>3, <1>6, <1>8, <1>13, <2>1, <3>1
  <2>2. ~(Armed(s)' > 0) /\ Armed(s)' <= 1
    BY <1>6
  <2> QED BY <1>11, <1>13, <2>1, <2>2 DEF Script, m, f
<1>20. Took(s)'
  BY <1>1, <1>2, <1>4, <1>5, TookSame DEF Handled
<1>21. ASSUME NEW k \in 1 .. Lines[s], 2 * k <= Len(typed'[s])
       PROVE  2 * k <= Len(typed[s]) \/ m[1] = k
  <2>1. CASE f <= Lines[s]
    <3>1. Len(typed'[s]) = 2 * f /\ Len(typed[s]) = 2 * file[s] /\ f = file[s] + 1 /\ m[1] = f
      <4>1. file[s] < Lines[s] /\ f = file[s] + 1
        BY <1>10, <2>1
      <4>2. file[s] <= Lines[s]
        BY <1>3, <4>1
      <4> QED BY <1>9, <1>13, <2>1, <4>1, <4>2
    <3> QED BY <1>3, <1>21, <3>1
  <2>2. CASE f > Lines[s]
    <3>1. Len(typed[s]) >= 2 * Lines[s]
      BY <1>12, <2>2 DEF Due
    <3> QED BY <1>3, <3>1
  <2> QED BY <1>3, <1>4, <2>1, <2>2
<1>22. program # "cgi" => Echoed(s)'
  <2> SUFFICES ASSUME program # "cgi", NEW k \in 1 .. Lines[s], 2 * k <= Len(typed'[s])
               PROVE  k >= Exit[s] \/ Cmd(s, k)' \/ m[1] = k
    BY DEF Echoed, m
  <2>1. CASE 2 * k <= Len(typed[s])
    <3>1. k >= Exit[s] \/ Cmd(s, k)
      BY <1>2, <1>6, <2>1 DEF Echoed
    <3> QED BY <3>1 DEF Handled
  <2>2. CASE m[1] = k
    BY <2>2
  <2> QED BY <1>21, <2>1, <2>2
<1>23. Local(s)'
  BY <1>14, <1>15, <1>16, <1>17, <1>18, <1>19, <1>20, <1>22 DEF Local, InStep, Handled
<1> QED BY <1>13, <1>21, <1>23 DEF m, f

\* What was no prompt leaves the lines alone.
LEMMA NoPromptRead ==
  ASSUME TypeInv, NEW s \in Shell, Local(s), Handled(s), ~HasPrompt(data_[s]),
         UNCHANGED <<file, toShellMsg, typed>>, timer'[s] = timer[s],
         Times(ready'[s], "wrote") = Times(ready[s], "wrote")
  PROVE  Local(s)'
<1>1. Shape(s) /\ Paid(s)
  BY DEF Local
<1>2. Armed(s)' = Armed(s)
  BY DEF Armed, Handled
<1>3. Asked(s)' = Asked(s) /\ Excused(s)' = Excused(s)
  BY DEF Asked, Excused, Hurried, Stray, Handled
<1>4. Shape(s)' /\ ~HasPrompt(data_'[s])
  BY <1>1, <1>2, HandledShape DEF Shape
<1>5. Paid(s)'
  BY <1>1, <1>2, <1>3, <1>4 DEF Paid, Handled
<1> QED BY <1>2, <1>4, <1>5, JoinsQueue DEF Handled

-----------------------------------------------------------------------------
(* Writes to the browser of an asynchronous page.                          *)

\* More of the column, and more writes that wait.
LEMMA PlacedMore ==
  ASSUME TypeInv, NEW o \in Shell, NEW w \in Seq(WebItem), web' = web \o w,
         \A k : Marked(o, k, page[o]) => Marked(o, k, page'[o])
  PROVE  /\ \A k : \A n \in 0 .. Len(web) : Placed(o, k, n) => Placed(o, k, n)'
         /\ \A k : \A n \in 0 .. Len(web) :
              Placed(o, k, n) => \A n2 \in n .. Len(web') : Placed(o, k, n2)'
         /\ \A k : \A i \in 1 .. Len(w) :
              w[i].to = o /\ Marked(o, k, w[i].text) => Placed(o, k, Len(web))'
         /\ DOMAIN web' = 1 .. Len(web) + Len(w) /\ Len(web) \in Nat /\ Len(w) \in Nat
         /\ Len(web') = Len(web) + Len(w)
         /\ \A i \in 1 .. Len(web) : web'[i] = web[i]
         /\ \A i \in 1 .. Len(w) : web'[Len(web) + i] = w[i]
<1>1. web \in Seq(WebItem)
  BY DEF TypeInv, TypeOK, WebItem
<1> DEFINE l == Len(web)
<1>2. /\ DOMAIN web' = 1 .. l + Len(w) /\ l \in Nat /\ Len(w) \in Nat
      /\ Len(web') = l + Len(w)
      /\ \A i \in 1 .. l + Len(w) : web'[i] = IF i <= l THEN web[i] ELSE w[i - l]
  BY <1>1, ConcatProperties, LenProperties
<1> HIDE DEF l
<1>3. \A i \in 1 .. l : web'[i] = web[i]
  BY <1>2
<1>4. ASSUME NEW i \in 1 .. Len(w) PROVE web'[l + i] = w[i]
  <2>1. l + i \in 1 .. l + Len(w) /\ ~(l + i <= l) /\ (l + i) - l = i
    BY <1>2
  <2> QED BY <1>2, <2>1
<1>5. ASSUME NEW k, NEW n \in 0 .. l, Placed(o, k, n), NEW n2 \in n .. Len(web')
      PROVE  Placed(o, k, n2)'
  <2>1. CASE Marked(o, k, page[o])
    BY <2>1 DEF Placed
  <2>2. CASE \E i \in 1 .. n : web[i].to = o /\ Marked(o, k, web[i].text)
    <3>1. PICK i \in 1 .. n : web[i].to = o /\ Marked(o, k, web[i].text)
      BY <2>2
    <3>2. i \in 1 .. n2 /\ web'[i] = web[i]
      BY <1>2, <1>3
    <3> QED BY <3>1, <3>2 DEF Placed, Marked
  <2> QED BY <1>5, <2>1, <2>2 DEF Placed
<1>6. \A n \in 0 .. l : n \in n .. Len(web')
  BY <1>2
<1>7. ASSUME NEW k, NEW i \in 1 .. Len(w), w[i].to = o, Marked(o, k, w[i].text)
      PROVE  Placed(o, k, Len(web))'
  <2>1. l + i \in 1 .. Len(web') /\ web'[l + i] = w[i]
    BY <1>2, <1>4
  <2> QED BY <1>7, <2>1 DEF Placed, Marked
<1> QED BY <1>2, <1>3, <1>4, <1>5, <1>6, <1>7 DEF l

\* How a page on an asynchronous socket grows: what is shown at once, and what waits.
Growth(s, d, e, t, w) ==
  /\ t \in Seq(Shown) /\ w \in Seq(WebItem)
  /\ page'[s] = page[s] \o t /\ web' = web \o w
  /\ Outs(t) \subseteq Outs(d) /\ (t = <<>> \/ web = <<>>)
  /\ \A i \in 1 .. Len(w) : w[i].to = s /\ Outs(w[i].text) \subseteq Outs(d)
  /\ \A k : Marked(s, k, e) => \/ Marked(s, k, t)
                               \/ \E i \in 1 .. Len(w) : Marked(s, k, w[i].text)
  /\ \A o \in Shell \ {s} : page'[o] = page[o]

LEMMA OneItem ==
  ASSUME NEW s \in Shell, NEW d \in Seq(Shown)
  PROVE  /\ Waits(s, d) \in Seq(WebItem) /\ Len(Waits(s, d)) = 1
         /\ Waits(s, d)[1].to = s /\ Waits(s, d)[1].text = d
  BY DEF Waits, WebItem

LEMMA WebGrows ==
  ASSUME TypeInv, NEW s \in Shell, NEW d \in Seq(Shown), NEW e \in Seq(Shown), Outs(e) = {},
         do_write_web(s, d, e)
  PROVE  \E t, w : Growth(s, d, e, t, w)
<1>1. TypeOK /\ page \in [Shell -> Seq(Shown)] /\ web \in Seq(WebItem) /\ page[s] \in Seq(Shown)
  BY DEF TypeInv, TypeOK, WebItem
<1>2. /\ <<>> \in Seq(Shown) /\ <<>> \in Seq(WebItem) /\ Len(<<>>) = 0
      /\ web = web \o <<>> /\ page[s] = page[s] \o <<>>
  BY <1>1
<1>3. Outs(<<>>) = {}
  <2>1. \A i \in DOMAIN <<>> : <<>>[i].c # "out"
    OBVIOUS
  <2> QED BY <2>1, NoOuts
<1>4. CASE web = <<>> /\ Output(s, d \o e)
  <2> DEFINE t == d \o e
  <2>1. t \in Seq(Shown) /\ Outs(t) = Outs(d) \cup Outs(e)
    <3>1. d \o e \in Seq(Shown)
      OBVIOUS
    <3>2. Outs(d \o e) = Outs(d) \cup Outs(e)
      BY OutsOf
    <3> QED BY <3>1, <3>2
  <2>2. \A k : Marked(s, k, e) => Marked(s, k, t)
    <3>1. /\ DOMAIN t = 1 .. Len(d) + Len(e) /\ DOMAIN e = 1 .. Len(e)
          /\ Len(d) \in Nat /\ Len(e) \in Nat
          /\ \A i \in 1 .. Len(d) + Len(e) : t[i] = IF i <= Len(d) THEN d[i] ELSE e[i - Len(d)]
      BY ConcatProperties, LenProperties
    <3> HIDE DEF t
    <3>2. \A i \in DOMAIN e : Len(d) + i \in DOMAIN t /\ t[Len(d) + i] = e[i]
      BY <3>1
    <3> QED BY <3>2 DEF Marked
  <2> HIDE DEF t
  <2>3. /\ page'[s] = page[s] \o t /\ web' = web
        /\ \A o \in Shell \ {s} : page'[o] = page[o]
    BY <1>1, <1>4, <2>1, OutputType DEF t
  <2> DEFINE w == <<>>
  <2>4. w \in Seq(WebItem) /\ Len(w) = 0 /\ web' = web \o w
    BY <1>2, <2>3
  <2> HIDE DEF w
  <2>5. Growth(s, d, e, t, w)
    BY <1>4, <2>1, <2>2, <2>3, <2>4 DEF Growth
  <2> QED BY <2>5
<1>5. CASE web = <<>> /\ web' = Waits(s, e) /\ page' = [page EXCEPT ![s] = @ \o d]
  <2> DEFINE w == Waits(s, e)
  <2>1. w \in Seq(WebItem) /\ Len(w) = 1 /\ w[1].to = s /\ w[1].text = e
    BY OneItem
  <2> HIDE DEF w
  <2>2. web' = web \o w
    BY <1>5, <2>1 DEF w
  <2>3. page'[s] = page[s] \o d /\ \A o \in Shell \ {s} : page'[o] = page[o]
    BY <1>1, <1>5
  <2>4. \A i \in 1 .. Len(w) : w[i].to = s /\ w[i].text = e
    BY <2>1
  <2>5. 1 \in 1 .. Len(w)
    BY <2>1
  <2>6. Growth(s, d, e, d, w)
    BY <1>5, <2>1, <2>2, <2>3, <2>4, <2>5 DEF Growth
  <2> QED BY <2>6
<1>6. CASE e = <<>> /\ page' = page /\ web' = web \o Waits(s, d)
  <2> DEFINE w == Waits(s, d)
             t == <<>>
  <2>1. w \in Seq(WebItem) /\ Len(w) = 1 /\ w[1].to = s /\ w[1].text = d
    BY OneItem
  <2>2. /\ t \in Seq(Shown) /\ page[s] = page[s] \o t /\ Outs(t) = {} /\ web' = web \o w
        /\ \A k : ~Marked(s, k, e)
    BY <1>2, <1>3, <1>6 DEF Marked
  <2>3. t = <<>>
    OBVIOUS
  <2> HIDE DEF w, t
  <2>4. \A i \in 1 .. Len(w) : w[i].to = s /\ w[i].text = d
    BY <2>1
  <2>5. Growth(s, d, e, t, w)
    BY <1>6, <2>1, <2>2, <2>3, <2>4 DEF Growth
  <2> QED BY <2>5
<1>7. CASE page' = page /\ web' = web \o Waits(s, d) \o Waits(s, e)
  <2> DEFINE v == Waits(s, d)
             u == Waits(s, e)
             w == v \o u
             t == <<>>
  <2>1. /\ v \in Seq(WebItem) /\ Len(v) = 1 /\ v[1].to = s /\ v[1].text = d
        /\ u \in Seq(WebItem) /\ Len(u) = 1 /\ u[1].to = s /\ u[1].text = e
    BY OneItem
  <2>2. /\ t \in Seq(Shown) /\ page[s] = page[s] \o t /\ Outs(t) = {} /\ t = <<>>
    BY <1>2, <1>3
  <2>3. web' = web \o v \o u
    BY <1>7
  <2> HIDE DEF v, u, t
  <2>4. /\ w \in Seq(WebItem) /\ Len(w) = 2
        /\ \A i \in 1 .. 2 : w[i] = IF i <= 1 THEN v[i] ELSE u[i - 1]
    <3>1. /\ v \o u \in Seq(WebItem) /\ Len(v \o u) = Len(v) + Len(u)
          /\ \A i \in 1 .. Len(v) + Len(u) :
               (v \o u)[i] = IF i <= Len(v) THEN v[i] ELSE u[i - Len(v)]
      BY <2>1, ConcatProperties
    <3> QED BY <2>1, <3>1
  <2>5. web' = web \o w
    <3>1. (web \o v) \o u = web \o (v \o u)
      BY <1>1, <2>1
    <3> QED BY <2>3, <3>1
  <2> HIDE DEF w
  <2>6. w[1] = v[1] /\ w[2] = u[1]
    BY <2>4
  <2>7. \A i \in 1 .. Len(w) : w[i].to = s /\ (w[i].text = d \/ w[i].text = e)
    BY <2>1, <2>4, <2>6
  <2>8. 2 \in 1 .. Len(w) /\ w[2].text = e
    BY <2>1, <2>4, <2>6
  <2>9. Growth(s, d, e, t, w)
    BY <1>7, <2>2, <2>4, <2>5, <2>7, <2>8 DEF Growth
  <2> QED BY <2>9
<1> QED
  <2>1. CASE web = <<>> /\ Output(s, d \o e)
    BY <1>4, <2>1
  <2>2. CASE web = <<>> /\ e # <<>> /\ web' = Waits(s, e) /\ page' = [page EXCEPT ![s] = @ \o d]
    BY <1>5, <2>2
  <2>3. CASE /\ web' = web \o Waits(s, d) \o IF e = <<>> THEN <<>> ELSE Waits(s, e)
             /\ page' = page
    <3>1. CASE e = <<>>
      <4>1. \A q \in Seq(WebItem) : q \o <<>> = q
        OBVIOUS
      <4>2. web \o Waits(s, d) \in Seq(WebItem)
        BY <1>1, OneItem, ConcatProperties
      <4>3. web' = web \o Waits(s, d)
        <5>1. web' = web \o Waits(s, d) \o <<>>
          BY <2>3, <3>1
        <5> QED BY <4>1, <4>2, <5>1
      <4> QED BY <1>6, <2>3, <3>1, <4>3
    <3>2. CASE e # <<>>
      BY <1>7, <2>3, <3>2
    <3> QED BY <3>1, <3>2
  <2> QED BY <2>1, <2>2, <2>3 DEF do_write_web

LEMMA BrowserGrows ==
  ASSUME TypeInv, NEW s \in Shell, Browser(s), program = "cgi", program' = program,
         Hurried(s) => Hurried(s)', NEW d, NEW e, NEW t, NEW w, Growth(s, d, e, t, w),
         \A k \in Outs(d) : Placed(s, k, Len(web)),
         \A k \in 1 .. Lines[s] : 2 * k <= Len(typed'[s]) =>
           2 * k <= Len(typed[s]) \/ Marked(s, k, e)
  PROVE  Browser(s)'
<1>1. /\ t \in Seq(Shown) /\ w \in Seq(WebItem)
      /\ page'[s] = page[s] \o t /\ web' = web \o w
      /\ Outs(t) \subseteq Outs(d) /\ (t = <<>> \/ web = <<>>)
      /\ \A i \in 1 .. Len(w) : w[i].to = s /\ Outs(w[i].text) \subseteq Outs(d)
      /\ \A k : Marked(s, k, e) => \/ Marked(s, k, t)
                                   \/ \E i \in 1 .. Len(w) : Marked(s, k, w[i].text)
  BY DEF Growth
<1>2. /\ \A k : Marked(s, k, page[s]) => Marked(s, k, page'[s])
      /\ \A k : Marked(s, k, t) => Marked(s, k, page'[s])
  BY <1>1, PageMore
<1>3. /\ \A k : \A n \in 0 .. Len(web) : Placed(s, k, n) => Placed(s, k, n)'
      /\ \A k : \A n \in 0 .. Len(web) :
           Placed(s, k, n) => \A n2 \in n .. Len(web') : Placed(s, k, n2)'
      /\ \A k : \A i \in 1 .. Len(w) :
           w[i].to = s /\ Marked(s, k, w[i].text) => Placed(s, k, Len(web))'
      /\ DOMAIN web' = 1 .. Len(web) + Len(w) /\ Len(web) \in Nat /\ Len(w) \in Nat
      /\ Len(web') = Len(web) + Len(w)
      /\ \A i \in 1 .. Len(web) : web'[i] = web[i]
      /\ \A i \in 1 .. Len(w) : web'[Len(web) + i] = w[i]
  BY <1>1, <1>2, PlacedMore
<1>4. Shows(s)'
  <2>1. \A k \in Outs(t) : Marked(s, k, page[s])
    <3> SUFFICES ASSUME NEW k \in Outs(t) PROVE Marked(s, k, page[s])
      OBVIOUS
    <3>1. t # <<>>
      BY DEF Outs
    <3>2. web = <<>>
      BY <1>1, <3>1
    <3>3. Placed(s, k, Len(web)) /\ Len(web) = 0
      BY <1>1, <3>2
    <3> QED BY <3>3 DEF Placed
  <2>2. Shows(s)
    BY DEF Browser
  <2> QED BY <1>1, <2>1, <2>2, ShowsMore
<1>5. ASSUME NEW k \in 1 .. Lines[s], 2 * k <= Len(typed'[s])
      PROVE  Placed(s, k, Len(web))'
  <2>1. CASE 2 * k <= Len(typed[s])
    <3>1. Placed(s, k, Len(web))
      BY <2>1 DEF Browser
    <3>2. Len(web) \in 0 .. Len(web) /\ Len(web') \in Len(web) .. Len(web')
      BY <1>3
    <3>3. \A n2 \in Len(web) .. Len(web') : Placed(s, k, n2)'
      BY <1>3, <3>1, <3>2
    <3> QED BY <3>2, <3>3
  <2>2. CASE Marked(s, k, t)
    BY <1>2, <2>2 DEF Placed
  <2>3. CASE \E i \in 1 .. Len(w) : Marked(s, k, w[i].text)
    BY <1>1, <1>3, <2>3
  <2> QED BY <1>1, <1>5, <2>1, <2>2, <2>3
<1>6. ASSUME NEW i \in DOMAIN web', web'[i].to = s, NEW k \in Outs(web'[i].text)
      PROVE  Placed(s, k, i - 1)'
  <2>1. CASE i \in 1 .. Len(web)
    <3>1. web'[i] = web[i] /\ i \in DOMAIN web /\ i - 1 \in 0 .. Len(web)
      <4>1. web \in Seq(WebItem)
        BY DEF TypeInv, TypeOK, WebItem
      <4> QED BY <1>3, <2>1, <4>1, LenProperties
    <3>2. Placed(s, k, i - 1)
      BY <1>6, <3>1 DEF Browser
    <3> QED BY <1>3, <3>1, <3>2
  <2>2. CASE i > Len(web)
    <3>1. i - Len(web) \in 1 .. Len(w) /\ Len(web) + (i - Len(web)) = i
      BY <1>3, <2>2
    <3>2. web'[i] = w[i - Len(web)]
      BY <1>3, <3>1
    <3>3. k \in Outs(d)
      BY <1>1, <1>6, <3>1, <3>2
    <3>4. Placed(s, k, Len(web)) /\ Len(web) \in 0 .. Len(web) /\ i - 1 \in Len(web) .. Len(web')
      BY <1>3, <2>2, <3>3
    <3> QED BY <1>3, <3>4
  <2>3. i \in 1 .. Len(web) \/ i > Len(web)
    BY <1>3
  <2> QED BY <2>1, <2>2, <2>3
<1> QED BY <1>4, <1>5, <1>6 DEF Browser

\* Other columns do not notice.
LEMMA BrowserOther ==
  ASSUME TypeInv, NEW o \in Shell, Browser(o), program = "cgi", program' = program,
         Hurried(o) => Hurried(o)', page'[o] = page[o], typed'[o] = typed[o],
         NEW w \in Seq(WebItem), web' = web \o w, \A i \in 1 .. Len(w) : w[i].to # o
  PROVE  Browser(o)'
<1>1. /\ \A k : \A n \in 0 .. Len(web) : Placed(o, k, n) => Placed(o, k, n)'
      /\ \A k : \A n \in 0 .. Len(web) :
           Placed(o, k, n) => \A n2 \in n .. Len(web') : Placed(o, k, n2)'
      /\ DOMAIN web' = 1 .. Len(web) + Len(w) /\ Len(web) \in Nat /\ Len(w) \in Nat
      /\ Len(web') = Len(web) + Len(w)
      /\ \A i \in 1 .. Len(web) : web'[i] = web[i]
      /\ \A i \in 1 .. Len(w) : web'[Len(web) + i] = w[i]
  BY PlacedMore
<1>2. Shows(o)'
  BY DEF Browser, Shows
<1>3. ASSUME NEW k \in 1 .. Lines[o], 2 * k <= Len(typed'[o])
      PROVE  Placed(o, k, Len(web))'
  <2>1. Placed(o, k, Len(web))
    BY <1>3 DEF Browser
  <2>2. Len(web) \in 0 .. Len(web) /\ Len(web') \in Len(web) .. Len(web')
    BY <1>1
  <2> QED BY <1>1, <2>1, <2>2
<1>4. ASSUME NEW i \in DOMAIN web', web'[i].to = o, NEW k \in Outs(web'[i].text)
      PROVE  Placed(o, k, i - 1)'
  <2>1. i \in 1 .. Len(web)
    <3> SUFFICES ASSUME i > Len(web) PROVE FALSE
      BY <1>1
    <3>1. i - Len(web) \in 1 .. Len(w) /\ Len(web) + (i - Len(web)) = i
      BY <1>1
    <3> QED BY <1>1, <1>4, <3>1
  <2>2. web'[i] = web[i] /\ i \in DOMAIN web /\ i - 1 \in 0 .. Len(web)
    <3>1. web \in Seq(WebItem)
      BY DEF TypeInv, TypeOK, WebItem
    <3> QED BY <1>1, <2>1, <3>1, LenProperties
  <2>3. Placed(o, k, i - 1)
    BY <1>4, <2>2 DEF Browser
  <2> QED BY <1>1, <2>2, <2>3
<1> QED BY <1>2, <1>3, <1>4 DEF Browser

-----------------------------------------------------------------------------
(* A read is handled.                                                      *)

\* The output that was read comes after its command.
LEMMA OutputDue ==
  ASSUME TypeInv, NEW s \in Shell, Local(s), Browser(s), Handled(s), ~Hurried(s),
         NEW k \in Outs(data_[s])
  PROVE  Placed(s, k, Len(web)) /\ (program # "cgi" => Marked(s, k, page[s]))
<1>1. Shape(s) /\ Script(s) /\ Took(s) /\ (program = "cgi" \/ Echoed(s))
  BY DEF Local, InStep
<1>2. Exit[s] \in Nat /\ Lines[s] \in Nat /\ taken[s] \in Nat /\ Len(typed[s]) \in Nat
  <2>1. typed[s] \in Seq(Int) /\ taken[s] \in Nat
    BY DEF TypeInv, TypeOK
  <2> QED BY <2>1, ConsoleAssumption
<1>3. k \in 1 .. Lines[s] /\ k < Exit[s] /\ 2 * k <= Len(typed[s])
  <2>1. k \in Outs(said[s])
    BY <1>1 DEF Shape
  <2>2. k \in 1 .. Lines[s] /\ k < Exit[s] /\ 2 * k <= taken[s]
    BY <1>1, <2>1 DEF Took
  <2>3. taken[s] <= Len(typed[s])
    BY <1>1 DEF Shape
  <2> QED BY <1>2, <2>2, <2>3
<1>4. ~(k >= Exit[s])
  BY <1>2, <1>3
<1>5. CASE program # "cgi"
  <2>1. Cmd(s, k) \/ Times(ready[s], "wrote") > 0
    BY <1>1, <1>3, <1>4, <1>5 DEF Echoed
  <2>2. Times(ready[s], "wrote") > 0 => Cmd(s, k)
    BY DEF Handled, Quiet, Hurried
  <2>3. Cmd(s, k)
    BY <2>1, <2>2
  <2>4. Marked(s, k, page[s])
    BY <2>3 DEF Cmd, Marked
  <2> QED BY <2>4 DEF Placed
<1>6. CASE program = "cgi"
  BY <1>3, <1>6 DEF Browser
<1> QED BY <1>5, <1>6

\* What a read does to its client, however the page shows the text.
LEMMA ReadLocal ==
  ASSUME TypeInv, TypeInv', NEW s \in Shell, Local(s), do_read(s),
         \A k : Cmd(s, k) => Cmd(s, k)'
  PROVE  /\ Handled(s) /\ Local(s)' /\ \A o \in Shell \ {s} : Same(o)
         /\ \A k \in 1 .. Lines[s] : 2 * k <= Len(typed'[s]) =>
              2 * k <= Len(typed[s]) \/ (HasPrompt(data_[s]) /\ toShellMsg'[s][1] = k)
<1>1. /\ TypeOK /\ ready[s] # <<>> /\ Shape(s)
      /\ UNCHANGED <<program, up, pc, shell, said, taken, chats, seen, cut>>
  BY ReadStep DEF TypeInv, Local
<1>2. typed \in [Shell -> Seq(Int)] /\ timer \in [Shell -> BOOLEAN]
  BY <1>1 DEF TypeOK
<1>3. ASSUME NEW more \in {<<>>, <<"wrote">>}, Runs(s, more)
      PROVE  /\ Handled(s) /\ (more # <<>> => Times(ready'[s], "wrote") > 0)
             /\ (more = <<>> => Times(ready'[s], "wrote") = Times(ready[s], "wrote"))
             /\ \A o \in Shell \ {s} : data_'[o] = data_[o] /\ ready'[o] = ready[o]
  BY <1>1, <1>3, HandledRead
<1>4. CASE /\ program = "project3" /\ HasPrompt(data_[s]) /\ getline(s)
           /\ timer' = [timer EXCEPT ![s] = TRUE] /\ typed' = typed /\ Runs(s, <<>>)
  <2>1. /\ Handled(s) /\ Times(ready'[s], "wrote") = Times(ready[s], "wrote")
        /\ \A o \in Shell \ {s} : data_'[o] = data_[o] /\ ready'[o] = ready[o]
    BY <1>3, <1>4
  <2>2. timer'[s] = TRUE /\ \A o \in Shell \ {s} : timer'[o] = timer[o]
    BY <1>2, <1>4
  <2>3. Local(s)'
    BY <1>4, <2>1, <2>2, TimerSet
  <2>4. \A o \in Shell \ {s} : toShellMsg'[o] = toShellMsg[o] /\ file'[o] = file[o]
    BY <1>1, <1>4, GetlineType
  <2>5. \A o \in Shell \ {s} : Same(o)
    BY <1>1, <1>4, <2>1, <2>2, <2>4 DEF Same
  <2> QED BY <1>4, <2>1, <2>3, <2>5
<1>5. CASE /\ program # "project3" /\ HasPrompt(data_[s]) /\ getline(s) /\ timer' = timer
           /\ do_write(s, toShellMsg'[s])
  <2>1. toShellMsg'[s] \in Seq(Int) /\ Runs(s, <<"wrote">>)
    BY <1>1, <1>5, GetlineType DEF do_write
  <2>2. /\ Handled(s) /\ Times(ready'[s], "wrote") > 0
        /\ \A o \in Shell \ {s} : data_'[o] = data_[o] /\ ready'[o] = ready[o]
    BY <1>3, <2>1
  <2>3. typed'[s] = typed[s] \o toShellMsg'[s] /\ \A o \in Shell \ {s} : typed'[o] = typed[o]
    BY <1>1, <1>5, <2>1, WriteType
  <2>4. timer'[s] = timer[s]
    BY <1>5
  <2>5. /\ Local(s)'
        /\ \A k \in 1 .. Lines[s] : 2 * k <= Len(typed'[s]) =>
              2 * k <= Len(typed[s]) \/ toShellMsg'[s][1] = k
    BY <1>5, <2>2, <2>3, <2>4, SentAtOnce
  <2>6. \A o \in Shell \ {s} : toShellMsg'[o] = toShellMsg[o] /\ file'[o] = file[o]
    BY <1>1, <1>5, GetlineType
  <2>7. \A o \in Shell \ {s} : Same(o)
    BY <1>1, <1>5, <2>2, <2>3, <2>6 DEF Same
  <2> QED BY <1>5, <2>2, <2>5, <2>7
<1>6. CASE /\ ~HasPrompt(data_[s]) /\ UNCHANGED <<file, toShellMsg, timer, typed>>
           /\ Runs(s, <<>>)
  <2>1. /\ Handled(s) /\ Times(ready'[s], "wrote") = Times(ready[s], "wrote")
        /\ \A o \in Shell \ {s} : data_'[o] = data_[o] /\ ready'[o] = ready[o]
    BY <1>3, <1>6
  <2>2. Local(s)'
    BY <1>6, <2>1, NoPromptRead
  <2>3. \A o \in Shell \ {s} : Same(o)
    BY <1>1, <1>6, <2>1 DEF Same
  <2> QED BY <1>6, <2>1, <2>2, <2>3
<1> QED BY <1>4, <1>5, <1>6, ReadStep

\* On a console, the column shows it at once.
LEMMA ReadShown ==
  ASSUME IInv, TypeInv', NEW s \in Shell, do_read(s), Output(s, data_[s]), program # "cgi"
  PROVE  IInv'
<1>1. TypeInv /\ TypeOK /\ Local(s) /\ Browser(s) /\ program' = program /\ said' = said
  BY ReadStep DEF IInv, TypeInv
<1>2. data_[s] \in Seq(Text)
  BY <1>1 DEF TypeOK
<1>3. data_[s] \in Seq(Shown)
  BY <1>2, TextShown
<1>4. /\ page'[s] = page[s] \o data_[s] /\ web' = web
      /\ \A o \in Shell \ {s} : page'[o] = page[o]
  BY <1>1, <1>3, OutputType
<1>5. \A k : Cmd(s, k) => Cmd(s, k)'
  BY <1>1, <1>3, <1>4, PageMore
<1>6. Handled(s) /\ Local(s)' /\ \A o \in Shell \ {s} : Same(o)
  BY <1>1, <1>5, ReadLocal
<1>7. Hurried(s)' = Hurried(s)
  BY <1>1 DEF Hurried, Stray
<1>8. Browser(s)'
  <2>1. \A k \in Outs(data_[s]) : Hurried(s)' \/ Marked(s, k, page[s])
    BY <1>1, <1>6, <1>7, OutputDue
  <2>2. Shows(s)
    BY <1>1 DEF Browser
  <2>3. Shows(s)'
    BY <1>1, <1>3, <1>4, <1>7, <2>1, <2>2, ShowsMore
  <2> QED BY <1>1, <1>4, <2>3 DEF Browser
<1>9. ASSUME NEW o \in Shell \ {s} PROVE Local(o)' /\ Browser(o)'
  BY <1>4, <1>6, OthersSame DEF IInv
<1> QED BY <1>6, <1>8, <1>9 DEF IInv

\* On a page of cgi_server, it may have to wait, and a command with it.
LEMMA ReadWritten ==
  ASSUME IInv, TypeInv', NEW s \in Shell, do_read(s), program = "cgi",
         NEW e \in Seq(Shown), Outs(e) = {}, do_write_web(s, data_[s], e),
         HasPrompt(data_[s]) => e = Echo(toShellMsg'[s])
  PROVE  IInv'
<1>1. TypeInv /\ TypeOK /\ Local(s) /\ Browser(s) /\ program' = program /\ said' = said
  BY ReadStep DEF IInv, TypeInv
<1>2. data_[s] \in Seq(Text)
  BY <1>1 DEF TypeOK
<1>3. data_[s] \in Seq(Shown)
  BY <1>2, TextShown
<1>4. PICK t, w : Growth(s, data_[s], e, t, w)
  BY <1>1, <1>3, WebGrows
<1>5. /\ t \in Seq(Shown) /\ page'[s] = page[s] \o t /\ w \in Seq(WebItem) /\ web' = web \o w
      /\ \A i \in 1 .. Len(w) : w[i].to = s
      /\ \A o \in Shell \ {s} : page'[o] = page[o]
  BY <1>4 DEF Growth
<1>6. \A k : Cmd(s, k) => Cmd(s, k)'
  BY <1>1, <1>5, PageMore
<1>7. /\ Handled(s) /\ Local(s)' /\ \A o \in Shell \ {s} : Same(o)
      /\ \A k \in 1 .. Lines[s] : 2 * k <= Len(typed'[s]) =>
           2 * k <= Len(typed[s]) \/ (HasPrompt(data_[s]) /\ toShellMsg'[s][1] = k)
  BY <1>1, <1>6, ReadLocal
<1>8. \A o \in Shell : Hurried(o)' = Hurried(o)
  BY <1>1 DEF Hurried, Stray
<1>9. Browser(s)'
  <2>1. \A k \in Outs(data_[s]) : Placed(s, k, Len(web))
    <3>1. ~Hurried(s)
      BY DEF Hurried
    <3> QED BY <1>1, <1>7, <3>1, OutputDue
  <2>2. ASSUME NEW k \in 1 .. Lines[s], 2 * k <= Len(typed'[s])
        PROVE  2 * k <= Len(typed[s]) \/ Marked(s, k, e)
    <3>1. CASE HasPrompt(data_[s]) /\ toShellMsg'[s][1] = k
      <4>1. e = <<Unit("cmd", k)>>
        BY <3>1 DEF Echo
      <4>2. 1 \in DOMAIN e /\ e[1] = Unit("cmd", k)
        BY <4>1
      <4> QED BY <4>2 DEF Marked
    <3> QED BY <1>7, <2>2, <3>1
  <2> QED BY <1>1, <1>4, <1>8, <2>1, <2>2, BrowserGrows
<1>10. ASSUME NEW o \in Shell \ {s} PROVE Local(o)' /\ Browser(o)'
  <2>1. Local(o) /\ Browser(o) /\ Same(o) /\ page'[o] = page[o]
    BY <1>5, <1>7 DEF IInv
  <2>2. \A k : Cmd(o, k) => Cmd(o, k)'
    BY <2>1 DEF Cmd
  <2>3. Local(o)'
    BY <2>1, <2>2, LocalSame
  <2>4. typed'[o] = typed[o] /\ \A i \in 1 .. Len(w) : w[i].to # o
    BY <1>5, <2>1 DEF Same
  <2>5. Browser(o)'
    BY <1>1, <1>5, <1>8, <2>1, <2>4, BrowserOther
  <2> QED BY <2>3, <2>5
<1> QED BY <1>7, <1>9, <1>10 DEF IInv

LEMMA ReadInv == ASSUME IInv, NEW s \in Shell, do_read(s) PROVE IInv'
<1>1. TypeInv /\ TypeInv' /\ TypeOK
  BY ReadType DEF IInv, TypeInv
<1>2. CASE program # "cgi" /\ Output(s, data_[s])
  BY <1>1, <1>2, ReadShown
<1>3. CASE program = "cgi" /\ ~HasPrompt(data_[s]) /\ do_write_web(s, data_[s], <<>>)
  <2>1. <<>> \in Seq(Shown) /\ Outs(<<>>) = {}
    <3>1. \A i \in DOMAIN <<>> : <<>>[i].c # "out"
      OBVIOUS
    <3> QED BY <3>1, NoOuts
  <2> QED BY <1>1, <1>3, <2>1, ReadWritten
<1>4. CASE /\ program = "cgi" /\ getline(s)
           /\ do_write_web(s, data_[s], Echo(toShellMsg'[s]))
  <2> DEFINE u == Unit("cmd", toShellMsg'[s][1])
             e == <<u>>
  <2>1. u \in Shown /\ u.c = "cmd"
    <3>1. toShellMsg'[s][1] \in Int
      BY <1>1, <1>4, GetlineType
    <3> QED BY <3>1, UnitTypes DEF Unit
  <2> HIDE DEF u
  <2>2. e \in Seq(Shown)
    <3>1. \A x \in Shown : <<x>> \in Seq(Shown)
      OBVIOUS
    <3> QED BY <2>1, <3>1
  <2>3. Outs(e) = {}
    BY <2>1, OutsOne
  <2>4. e = Echo(toShellMsg'[s])
    BY DEF Echo, u
  <2> HIDE DEF e
  <2>5. do_write_web(s, data_[s], e)
    BY <1>4, <2>4
  <2> QED BY <1>1, <1>4, <2>2, <2>3, <2>4, <2>5, ReadWritten
<1> QED BY <1>2, <1>3, <1>4, ReadStep

-----------------------------------------------------------------------------
(* A write to the browser ends.                                            *)

\* What was placed before a write is still, now that the first one has left.
LEMMA PlacedOn ==
  ASSUME TypeInv, NEW o \in Shell, NEW k, NEW n \in 1 .. Len(web), web # <<>>, web' = Tail(web),
         Placed(o, k, n), \A j : Marked(o, j, page[o]) => Marked(o, j, page'[o]),
         web[1].to = o /\ Marked(o, k, web[1].text) => Marked(o, k, page'[o])
  PROVE  Placed(o, k, n - 1)'
<1>1. web \in Seq(WebItem)
  BY DEF TypeInv, TypeOK, WebItem
<1>2. Len(web) \in Nat /\ \A i \in 1 .. Len(web) - 1 : web'[i] = web[i + 1]
  BY <1>1
<1>3. CASE Marked(o, k, page[o])
  BY <1>3 DEF Placed
<1>4. CASE \E i \in 1 .. n : web[i].to = o /\ Marked(o, k, web[i].text)
  <2>1. PICK i \in 1 .. n : web[i].to = o /\ Marked(o, k, web[i].text)
    BY <1>4
  <2>2. CASE i = 1
    BY <2>1, <2>2 DEF Placed
  <2>3. CASE i # 1
    <3>1. i - 1 \in 1 .. n - 1 /\ i - 1 \in 1 .. Len(web) - 1 /\ (i - 1) + 1 = i
      BY <1>2, <2>3
    <3>2. web'[i - 1] = web[i]
      BY <1>2, <3>1
    <3>3. web'[i - 1].to = o /\ Marked(o, k, web'[i - 1].text)
      BY <2>1, <3>2
    <3> QED BY <3>1, <3>3 DEF Placed, Marked
  <2> QED BY <2>2, <2>3
<1> QED BY <1>3, <1>4 DEF Placed

LEMMA WebWrittenInv == ASSUME IInv, WebWritten PROVE IInv'
<1>1. /\ TypeInv /\ TypeInv' /\ web \in Seq(WebItem) /\ web # <<>> /\ web' = Tail(web)
      /\ UNCHANGED <<program, pc, ready, timer, data_, file, toShellMsg, shell, said, taken,
                     chats, seen, typed>>
      /\ page \in [Shell -> Seq(Shown)]
  BY WebWrittenType DEF IInv, TypeInv, TypeOK, WebItem, WebWritten, client, remote
<1>2. /\ Len(web) \in Nat /\ 1 \in DOMAIN web /\ DOMAIN web = 1 .. Len(web) /\ Head(web) = web[1]
      /\ web[1] \in WebItem /\ Len(web') = Len(web) - 1 /\ DOMAIN web' = 1 .. Len(web) - 1
      /\ \A i \in 1 .. Len(web) - 1 : web'[i] = web[i + 1]
  BY <1>1
<1>3. web[1].text \in Seq(Shown) /\ \E x \in Shell : x = web[1].to
  BY <1>2 DEF WebItem
<1> PICK x \in Shell : x = web[1].to
  BY <1>3
<1>4. PICK t \in {web[1].text, <<Junk>>} : page' = [page EXCEPT ![x] = page[x] \o t]
  BY <1>2 DEF WebWritten
<1>5. Junk \in Shown /\ Junk.c = "junk"
  BY UnitTypes DEF Junk, Unit
<1>6. t \in Seq(Shown) /\ Outs(t) \subseteq Outs(web[1].text)
  <2>1. CASE t = <<Junk>>
    <3>1. \A u \in Shown : <<u>> \in Seq(Shown)
      OBVIOUS
    <3>2. Outs(<<Junk>>) = {}
      BY <1>5, OutsOne
    <3> QED BY <1>5, <2>1, <3>1, <3>2
  <2> QED BY <1>3, <1>4, <2>1
<1>7. \A k : Marked(x, k, web[1].text) => Marked(x, k, t)
  <2>1. CASE t = <<Junk>>
    <3>1. 1 \in DOMAIN t /\ t[1] = Junk
      BY <2>1
    <3> QED BY <3>1 DEF Marked
  <2> QED BY <1>4, <2>1
<1>8. page'[x] = page[x] \o t /\ \A o \in Shell \ {x} : page'[o] = page[o]
  BY <1>1, <1>3, <1>4
<1>9. /\ \A k : Cmd(x, k) => Cmd(x, k)'
      /\ \A k : Marked(x, k, page[x]) => Marked(x, k, page'[x])
      /\ \A k : Marked(x, k, t) => Marked(x, k, page'[x])
  BY <1>1, <1>3, <1>6, <1>8, PageMore
<1> SUFFICES ASSUME NEW o \in Shell PROVE Local(o)' /\ Browser(o)'
  BY <1>1 DEF IInv
<1>10. /\ Local(o) /\ Browser(o) /\ program = "cgi"
  <2>1. Local(o) /\ Browser(o)
    BY DEF IInv
  <2> QED BY <1>1, <2>1 DEF Browser
<1>11. /\ \A k : Cmd(o, k) => Cmd(o, k)'
       /\ \A k : Marked(o, k, page[o]) => Marked(o, k, page'[o])
  BY <1>8, <1>9 DEF Cmd
<1>12. Same(o) /\ Hurried(o)' = Hurried(o)
  BY <1>1 DEF Same, Hurried, Stray
<1>13. Local(o)'
  BY <1>10, <1>11, <1>12, LocalSame
<1>14. ASSUME NEW k, NEW n \in 1 .. Len(web), Placed(o, k, n)
       PROVE  Placed(o, k, n - 1)'
  <2>1. web[1].to = o /\ Marked(o, k, web[1].text) => Marked(o, k, page'[o])
    BY <1>7, <1>9
  <2> QED BY <1>1, <1>11, <1>14, <2>1, PlacedOn
<1>15. Shows(o)'
  <2>1. CASE o = x
    <3>1. ASSUME NEW k \in Outs(t) PROVE Marked(o, k, page[o])
      <4>1. Placed(o, k, 1 - 1)
        BY <1>2, <1>6, <1>10, <2>1 DEF Browser
      <4> QED BY <4>1 DEF Placed
    <3> QED BY <1>1, <1>6, <1>8, <1>10, <1>12, <2>1, <3>1, ShowsMore DEF Browser
  <2>2. CASE o # x
    <3>1. page'[o] = page[o]
      BY <1>8, <2>2
    <3> QED BY <1>10, <1>12, <3>1 DEF Browser, Shows
  <2> QED BY <2>1, <2>2
<1>16. ASSUME NEW k \in 1 .. Lines[o], 2 * k <= Len(typed'[o])
       PROVE  Placed(o, k, Len(web))'
  <2>1. Placed(o, k, Len(web)) /\ Len(web) \in 1 .. Len(web)
    BY <1>1, <1>2, <1>10, <1>16 DEF Browser
  <2>2. PICK n \in 1 .. Len(web) : n = Len(web)
    BY <2>1
  <2>3. Placed(o, k, n - 1)'
    BY <1>14, <2>1, <2>2
  <2>4. Len(web') = n - 1
    BY <1>2, <2>2
  <2> QED BY <2>3, <2>4 DEF Placed
<1>17. ASSUME NEW i \in DOMAIN web', web'[i].to = o, NEW k \in Outs(web'[i].text)
       PROVE  Placed(o, k, i - 1)'
  <2>1. i + 1 \in DOMAIN web /\ web'[i] = web[i + 1] /\ i \in 1 .. Len(web) /\ (i + 1) - 1 = i
    BY <1>2
  <2>2. Placed(o, k, i)
    BY <1>10, <1>17, <2>1 DEF Browser
  <2> QED BY <1>14, <2>1, <2>2
<1>18. Browser(o)'
  BY <1>1, <1>10, <1>15, <1>16, <1>17 DEF Browser
<1> QED BY <1>13, <1>18

-----------------------------------------------------------------------------
(* Every step keeps the invariant.                                         *)

\* When the process ends, and when nothing happens.
LEMMA NothingInv ==
  ASSUME IInv, TypeInv', UNCHANGED <<program, client, browser, remote, seen, typed>>
  PROVE  IInv'
<1> SUFFICES ASSUME NEW s \in Shell PROVE Local(s)' /\ Browser(s)'
  BY DEF IInv
<1>1. Same(s) /\ page'[s] = page[s] /\ web' = web
  BY DEF Same, client, browser, remote
<1> QED BY <1>1, OthersSame DEF IInv

LEMMA InitInv == Init => IInv
<1> SUFFICES ASSUME Init, NEW s \in Shell PROVE Local(s) /\ Browser(s)
  BY InitType DEF IInv
<1>1. /\ pc[s] = "resolve" /\ ready[s] = <<>> /\ timer[s] = FALSE /\ data_[s] = <<>>
      /\ file[s] = 0 /\ toShellMsg[s] = <<>> /\ page[s] = <<>> /\ web = <<>>
      /\ shell[s] = "none" /\ said[s] = <<>> /\ seen[s] = 0 /\ typed[s] = <<>>
      /\ taken[s] = 0
  BY DEF Init
<1>2. Lines[s] \in Nat /\ Exit[s] \in Nat /\ Exit[s] > 0
  BY ConsoleAssumption
<1>3. /\ \A v : Times(<<>>, v) = 0
      /\ Marks(<<>>) = 0 /\ Met(<<>>, 0) = 0 /\ Outs(<<>>) = {} /\ ~Before(<<>>)
      /\ ~HasPrompt(<<>>)
  <2>1. \A v : Positions(<<>>, v) = {}
    BY DEF Positions
  <2>2. MarkPositions(<<>>) = {} /\ Ends(<<>>, 0) = {} /\ PromptEnds(<<>>) = {}
    BY DEF MarkPositions, Ends, PromptEnds
  <2>3. Cardinality({}) = 0
    BY FS_EmptySet
  <2>4. /\ \A v : Times(<<>>, v) = 0
        /\ Marks(<<>>) = 0 /\ Met(<<>>, 0) = 0 /\ ~HasPrompt(<<>>)
    BY <2>1, <2>2, <2>3, Zenon DEF Times, Marks, Met, HasPrompt
  <2>5. \A i \in DOMAIN <<>> : FALSE
    OBVIOUS
  <2>6. ~Before(<<>>)
    BY <2>5, Zenon DEF Before
  <2>7. Outs(<<>>) = {}
    BY <2>5, NoOuts, Zenon
  <2> QED BY <2>4, <2>6, <2>7
<1>4. Armed(s) = 0 /\ Asked(s) = 0 /\ TakenLines(s) = 0
  <2>1. {i \in DOMAIN typed[s] : typed[s][i] = NL} = {} /\ 1 .. taken[s] = {}
    BY <1>1
  <2>2. Asked(s) = 0 /\ TakenLines(s) = 0
    BY <2>1, FS_EmptySet DEF Asked, TakenLines
  <2> QED BY <1>1, <1>3, <2>2 DEF Armed
<1>5. Shape(s)
  BY <1>1, <1>3, <1>4 DEF Shape
<1>6. Clean(s) /\ Paid(s) /\ Turns(s) /\ Stops(s)
  BY <1>1, <1>2, <1>3, <1>4 DEF Clean, Paid, Turns, Stops
<1>7. InStep(s)
  BY <1>1, <1>2, <1>3, <1>4 DEF InStep, Script, AsWritten, Took, Echoed
<1>8. Browser(s)
  BY <1>1, <1>2, <1>3 DEF Browser, Shows
<1> QED BY <1>5, <1>6, <1>7, <1>8 DEF Local

LEMMA NextInv == IInv /\ [Next]_vars => IInv'
<1> SUFFICES ASSUME IInv, [Next]_vars PROVE IInv'
  OBVIOUS
<1>1. TypeInv'
  BY NextType DEF IInv
<1>2. CASE UNCHANGED vars
  BY <1>1, <1>2, NothingInv DEF vars
<1>3. CASE up' = FALSE /\ UNCHANGED <<program, client, browser, remote, seen, typed, cut>>
  BY <1>1, <1>3, NothingInv
<1>4. CASE Next
  BY <1>3, <1>4, Steps, WebWrittenInv, ConnectingInv, ReadInv, FireInv, WroteInv, ReceiveInv,
     ExpireInv, ShowPromptInv, TakeLineInv, ChatInv
<1> QED BY <1>2, <1>4

LEMMA Invariance == Spec => []IInv
  BY InitInv, NextInv, PTL DEF Spec

(* What a shell is sent is its script, from the first line on, in order,   *)
(* each line once and nothing between, and nothing follows "exit", unless  *)
(* a user made the shell say something like a prompt: for every number of  *)
(* shells, every script and whatever the users say.                        *)
THEOREM ScriptInOrder == Spec => []LinesInOrder
<1>1. ASSUME IInv PROVE LinesInOrder
  <2> SUFFICES ASSUME NEW s \in Shell
               PROVE  /\ Hurried(s) \/ \A i \in DOMAIN typed[s] : i <= 2 * Lines[s] =>
                           typed[s][i] = IF i % 2 = 1 THEN (i + 1) \div 2 ELSE NL
                      /\ Stray(s) \/ Exit[s] > Lines[s] \/ Len(typed[s]) <= 2 * Exit[s]
    BY DEF LinesInOrder
  <2>1. Shape(s) /\ Stops(s) /\ (Hurried(s) \/ Script(s))
    BY <1>1 DEF IInv, Local, InStep
  <2>2. Hurried(s) \/ \A i \in DOMAIN typed[s] : i <= 2 * Lines[s] =>
          typed[s][i] = IF i % 2 = 1 THEN (i + 1) \div 2 ELSE NL
    BY <2>1 DEF Script, AsWritten
  <2>3. ASSUME ~Stray(s), Exit[s] <= Lines[s] PROVE Len(typed[s]) <= 2 * Exit[s]
    <3>1. /\ Lines[s] \in Nat /\ Exit[s] \in Nat /\ file[s] \in Nat /\ Armed(s) \in Nat
          /\ Len(typed[s]) \in Nat
      BY <1>1, <2>1, Numbers, ConsoleAssumption DEF IInv, TypeInv, TypeOK
    <3>2. Script(s) /\ file[s] <= Exit[s]
      BY <2>1, <2>3, <3>1 DEF Hurried, Stops
    <3>3. Len(typed[s]) = 2 * (file[s] - Armed(s))
      BY <2>3, <3>1, <3>2 DEF Script
    <3> QED BY <3>1, <3>2, <3>3
  <2>4. Exit[s] > Lines[s] \/ Exit[s] <= Lines[s]
    BY ConsoleAssumption
  <2> QED BY <2>2, <2>3, <2>4
<1> QED BY <1>1, Invariance, PTL

(* A shell is never sent more lines than it has shown prompts, except past *)
(* the end of the script where the property says so.                       *)
THEOREM OneLineEach == Spec => []OneLinePerPrompt
<1>1. ASSUME IInv PROVE OneLinePerPrompt
  <2> SUFFICES ASSUME NEW s \in Shell, ~Excused(s)
               PROVE  Asked(s) <= Prompts(SubSeq(said[s], 1, seen[s]))
    BY DEF OneLinePerPrompt, Excused
  <2>1. TypeInv /\ Shape(s) /\ Paid(s)
    BY <1>1 DEF IInv, Local
  <2>2. said[s] \in Seq(Text) /\ seen[s] \in Nat /\ seen[s] <= Len(said[s])
    BY <2>1 DEF TypeInv, TypeOK, Shape
  <2>3. Prompts(SubSeq(said[s], 1, seen[s])) = Met(said[s], seen[s])
    BY <2>2, EndsType
  <2>4. /\ Asked(s) \in Nat /\ Armed(s) \in Nat
        /\ Asked(s) + Armed(s) + (IF HasPrompt(data_[s]) THEN 1 ELSE 0) <= Met(said[s], seen[s])
    BY <2>1, Numbers DEF Paid
  <2>5. Met(said[s], seen[s]) \in Nat
    BY <2>1, <2>2, EndsType
  <2> QED BY <2>3, <2>4, <2>5
<1> QED BY <1>1, Invariance, PTL

(* In its column a command comes before its output, unless the page was    *)
(* garbled on its way or a user made the shell hurry a timer: the echo is  *)
(* in front of the result for every order in which the handlers run.       *)
THEOREM EchoFirst == Spec => []EchoBeforeResult
<1>1. IInv => EchoBeforeResult
  BY DEF IInv, Browser, Shows, EchoBeforeResult
<1> QED BY <1>1, Invariance, PTL
=============================================================================
