------------------------------- MODULE Console -------------------------------
(***************************************************************************)
(* class client, which shows a remote shell in a column of a web page and  *)
(* types a script into it, as the three programs that have it run it:      *)
(*   "project3"  src/311552007_np_project3/console.cpp, a timer before     *)
(*               each line;                                                *)
(*   "project4"  src/311552007_np_project4/console.cpp, through a SOCKS    *)
(*               proxy;                                                    *)
(*   "cgi"       src/311552007_np_project3/cgi_server.cpp, the page on an  *)
(*               asynchronous socket.                                      *)
(* One thread runs the handlers; those of one client that are ready run in *)
(* the order in which their operations completed.  A command fits the      *)
(* shell's socket, so async_write has sent it when it returns.             *)
(***************************************************************************)
EXTENDS Integers, Sequences, FiniteSets

CONSTANTS
  Shell,    \* the shells of one page
  Lines,    \* shell -> lines of its script, the last one ended by a newline
  Exit,     \* shell -> which of them is "exit", Lines[s] + 1 if none is
  Chats,    \* what other users may make a shell say: sequences of "text", "%", "sp" (a space)
  MaxChat,  \* bound: shell -> how often they do
  MaxTyped, \* bound: shell -> lines it takes
  MaxWeb    \* bound: writes that wait for a slow browser

ASSUME ConsoleAssumption ==
  /\ Lines \in [Shell -> Nat] /\ Exit \in [Shell -> Nat \ {0}]
  /\ Chats \subseteq Seq({"text", "%", "sp"})
  /\ MaxChat \in [Shell -> Nat] /\ MaxTyped \in [Shell -> Nat] /\ MaxWeb \in Nat

VARIABLES
  program,  \* which of the three runs
  up,       \* is its process?
  pc,       \* shell -> "resolve", "connect", "request", "reply", "read"; or how it ended:
            \* "failed", "unknown" (its name, at the proxy), "refused"
  ready,    \* shell -> handlers to run: "read", "wrote", "timer"
  timer,    \* shell -> is it armed?
  data_,    \* shell -> what the last read brought, until it is handled
  file,     \* shell -> lines read, Lines[s] + 1 after the end
  toShellMsg, \* shell -> line numbers, NL and ESC
  page,     \* shell -> what its column shows
  web,      \* writes to the browser that have not left
  shell,    \* shell -> "none" (not met), "busy", "prompted", "closed"
  said, seen,  \* shell -> units it has said, how many of them were read
  typed, taken,\* shell -> what it was sent, how much of that it took
  chats,    \* shell -> how often others made it speak
  cut       \* ghost: shell -> did a read end within a prompt, or bring two?

client == <<pc, ready, timer, data_, file, toShellMsg>>
browser == <<page, web>>
remote == <<shell, said, taken, chats>>
vars == <<program, up, client, browser, remote, seen, typed, cut>>

NL == 0
ESC == -1  \* "&NewLine;"
Unit(c, n) == [c |-> c, of |-> n]
Prompt == <<Unit("%", 1), Unit("sp", 1)>>
Junk == Unit("junk", 0)

-----------------------------------------------------------------------------
(* The shells (np_single_proc and its like).                               *)

Says(s, t) == said' = [said EXCEPT ![s] = @ \o t]

\* The end of the first line that it has not taken.
EndOfLine(s) == CHOOSE i \in taken[s] + 1 .. Len(typed[s]) :
                  typed[s][i] = NL /\ \A j \in taken[s] + 1 .. i - 1 : typed[s][j] # NL
HasLine(s) == \E i \in taken[s] + 1 .. Len(typed[s]) : typed[s][i] = NL
TakenLines(s) == Cardinality({i \in 1 .. taken[s] : typed[s][i] = NL})

ShowPrompt(s) ==
  /\ shell[s] = "busy" /\ Says(s, Prompt) /\ shell' = [shell EXCEPT ![s] = "prompted"]
  /\ UNCHANGED <<program, up, client, browser, seen, typed, taken, chats, cut>>

\* It runs a line, which may have output, or leaves at "exit".
TakeLine(s) ==
  /\ shell[s] = "prompted" /\ HasLine(s) /\ TakenLines(s) < MaxTyped[s]
  /\ taken' = [taken EXCEPT ![s] = EndOfLine(s)]
  /\ LET line == SubSeq(typed[s], taken[s] + 1, EndOfLine(s) - 1) IN
     \/ line = <<Exit[s]>> /\ shell' = [shell EXCEPT ![s] = "closed"] /\ said' = said
     \/ /\ line # <<Exit[s]>> /\ shell' = [shell EXCEPT ![s] = "busy"]
        /\ \/ Len(line) = 1 /\ line[1] > 0 /\ Says(s, <<Unit("out", line[1])>>)
           \/ said' = said
  /\ UNCHANGED <<program, up, client, browser, seen, typed, chats, cut>>

Chat(s) ==
  /\ shell[s] \in {"busy", "prompted"} /\ chats[s] < MaxChat[s]
  /\ \E t \in Chats : Says(s, [i \in DOMAIN t |-> Unit(t[i], 0)])
  /\ chats' = [chats EXCEPT ![s] = @ + 1]
  /\ UNCHANGED <<program, up, client, browser, shell, seen, typed, taken, cut>>

-----------------------------------------------------------------------------
(* From the resolver to the first read.                                    *)

Moves(s, to) ==
  pc' = [pc EXCEPT ![s] = to] /\ UNCHANGED <<ready, timer, data_, file, toShellMsg>>

\* An error ends this client, and nobody is told.
do_resolve(s) ==
  /\ up /\ pc[s] = "resolve" /\ \E to \in {"connect", "failed"} : Moves(s, to)
  /\ UNCHANGED <<program, up, browser, remote, seen, typed, cut>>

Answers(s) == shell' = [shell EXCEPT ![s] = "busy"] /\ UNCHANGED <<said, taken, chats>>

do_connect(s) ==
  /\ up /\ pc[s] = "connect" /\ program # "project4"
  /\ \/ Moves(s, "failed") /\ UNCHANGED remote
     \/ Moves(s, "read") /\ Answers(s)
  /\ UNCHANGED <<program, up, browser, seen, typed, cut>>

\* The second resolver call is synchronous: it throws, and main ends.
do_connectProxy(s) ==
  /\ up /\ pc[s] = "connect" /\ program = "project4"
  /\ \E to \in {"failed", "request", "unknown"} : Moves(s, to) /\ up' = (to # "unknown")
  /\ UNCHANGED <<program, browser, remote, seen, typed, cut>>

do_request(s) ==
  /\ up /\ pc[s] = "request" /\ \E to \in {"failed", "reply"} : Moves(s, to)
  /\ UNCHANGED <<program, up, browser, remote, seen, typed, cut>>

\* Anything but 90 ends the process, for every shell.
do_recv_reply(s) ==
  /\ up /\ pc[s] = "reply"
  /\ \/ Moves(s, "failed") /\ UNCHANGED <<up, remote>>
     \/ Moves(s, "read") /\ Answers(s) /\ up' = up
     \/ Moves(s, "refused") /\ up' = FALSE /\ UNCHANGED remote
  /\ UNCHANGED <<program, browser, seen, typed, cut>>

-----------------------------------------------------------------------------
(* Operations that complete.                                               *)

PromptEnds(d) == {i \in 2 .. Len(d) : d[i - 1].c = "%" /\ d[i].c = "sp"}
Prompts(d) == Cardinality(PromptEnds(d))
Splits(d, n) == n + 1 \in PromptEnds(d)

\* A read takes what has arrived, however much of it; at end of file it comes back at once,
\* again and again, and changes nothing.
Receive(s) ==
  /\ up /\ pc[s] = "read" /\ "read" \notin {ready[s][i] : i \in DOMAIN ready[s]}
  /\ \E n \in seen[s] + 1 .. Len(said[s]) :
       data_' = [data_ EXCEPT ![s] = SubSeq(said[s], seen[s] + 1, n)]
         /\ seen' = [seen EXCEPT ![s] = n]
  /\ ready' = [ready EXCEPT ![s] = Append(@, "read")]
  /\ cut' = [cut EXCEPT ![s] = @ \/ Prompts(data_'[s]) > 1 \/ Splits(said[s], seen'[s])]
  /\ UNCHANGED <<program, up, pc, timer, file, toShellMsg, browser, remote, typed>>

\* One second has passed.
Expire(s) ==
  /\ up /\ timer[s] /\ timer' = [timer EXCEPT ![s] = FALSE]
  /\ ready' = [ready EXCEPT ![s] = Append(@, "timer")]
  /\ UNCHANGED <<program, up, pc, data_, file, toShellMsg, browser, remote, seen, typed, cut>>

(* A write to the browser that had to wait: its text was a local variable  *)
(* of a function that has returned.                                        *)
WebWritten ==
  /\ up /\ web # <<>> /\ web' = Tail(web)
  /\ \E t \in {Head(web).text, <<Junk>>} :
       page' = [page EXCEPT ![Head(web).to] = @ \o t]
  /\ UNCHANGED <<program, up, client, remote, seen, typed, cut>>

-----------------------------------------------------------------------------
(* Handlers.                                                               *)

\* Mutants: one character of the prompt will do; nothing but a prompt will.
HasEither(d) == \E i \in DOMAIN d : d[i].c \in {"%", "sp"}
IsPrompt(d) == Len(d) = 2 /\ PromptEnds(d) # {}

HasPrompt(d) == PromptEnds(d) # {}

\* cout waits for the browser; a write to the socket leaves at once or waits its turn.
Output(s, text) == page' = [page EXCEPT ![s] = @ \o text] /\ web' = web

Waits(s, text) == <<[to |-> s, text |-> text]>>
do_write_web(s, text, then) ==
  /\ \/ web = <<>> /\ Output(s, text \o then)
     \/ /\ web = <<>> /\ then # <<>> /\ web' = Waits(s, then)
        /\ page' = [page EXCEPT ![s] = @ \o text]
     \/ /\ web' = web \o Waits(s, text) \o IF then = <<>> THEN <<>> ELSE Waits(s, then)
        /\ page' = page
  /\ Len(web') <= MaxWeb

Echo(msg) == <<Unit("cmd", msg[1])>>

\* Mutants: the line is appended to the last one; the file is read past its end.
getlineAppends(s) ==
  LET line == IF file[s] < Lines[s] THEN toShellMsg[s] \o <<file[s] + 1>> ELSE toShellMsg[s]
  IN /\ toShellMsg' = [toShellMsg EXCEPT ![s] = Append(line, NL)]
     /\ file' = [file EXCEPT ![s] = IF @ <= Lines[s] THEN @ + 1 ELSE @]
getlineOn(s) ==
  LET line == IF file[s] < Lines[s] THEN <<file[s] + 1>> ELSE <<>>
  IN /\ toShellMsg' = [toShellMsg EXCEPT ![s] = Append(line, NL)]
     /\ file' = [file EXCEPT ![s] = @ + 1]

(* getline, then += "\n": past the end it leaves what the string holds,    *)
(* which output_command has escaped where it takes it by reference.        *)
getline(s) ==
  LET line == CASE file[s] < Lines[s] -> <<file[s] + 1>>
                [] file[s] = Lines[s] -> <<>>
                [] OTHER -> toShellMsg[s]
  IN /\ toShellMsg' = [toShellMsg EXCEPT ![s] = Append(line, NL)]
     /\ file' = [file EXCEPT ![s] = IF @ <= Lines[s] THEN @ + 1 ELSE @]

escape(msg) == [i \in DOMAIN msg |-> IF msg[i] = NL THEN ESC ELSE msg[i]]

\* The rest of the handlers that are ready, and what the one that runs adds to them.
Runs(s, more) == ready' = [ready EXCEPT ![s] = Tail(@) \o more]

do_write(s, msg) == typed' = [typed EXCEPT ![s] = @ \o msg] /\ Runs(s, <<"wrote">>)

do_printTimer(s) ==
  /\ program = "project3" /\ Output(s, data_[s]) /\ Runs(s, <<>>) /\ typed' = typed
  /\ IF HasPrompt(data_[s])
     THEN getline(s) /\ timer' = [timer EXCEPT ![s] = TRUE]
     ELSE UNCHANGED <<file, toShellMsg, timer>>

do_printProxy(s) ==
  /\ program = "project4" /\ Output(s, data_[s]) /\ timer' = timer
  /\ IF HasPrompt(data_[s])
     THEN getline(s) /\ do_write(s, toShellMsg'[s])
     ELSE Runs(s, <<>>) /\ UNCHANGED <<file, toShellMsg, typed>>

do_printWeb(s) ==
  /\ program = "cgi" /\ timer' = timer
  /\ IF HasPrompt(data_[s])
     THEN /\ getline(s) /\ do_write(s, toShellMsg'[s])
          /\ do_write_web(s, data_[s], Echo(toShellMsg'[s]))
     ELSE /\ do_write_web(s, data_[s], <<>>) /\ Runs(s, <<>>)
          /\ UNCHANGED <<file, toShellMsg, typed>>

\* The next read starts when do_print is done.
do_read(s) ==
  /\ up /\ ready[s] # <<>> /\ Head(ready[s]) = "read"
  /\ do_printTimer(s) \/ do_printProxy(s) \/ do_printWeb(s)
  /\ data_' = [data_ EXCEPT ![s] = <<>>] /\ UNCHANGED <<program, up, pc, remote, seen, cut>>

Fire(s) ==
  /\ up /\ ready[s] # <<>> /\ Head(ready[s]) = "timer" /\ do_write(s, toShellMsg[s])
  /\ UNCHANGED <<program, up, pc, timer, data_, file, toShellMsg, browser, remote, seen, cut>>

\* Mutant: the command is not shown.
WroteSilent(s) ==
  /\ program # "cgi"
  /\ up /\ ready[s] # <<>> /\ Head(ready[s]) = "wrote" /\ Runs(s, <<>>)
  /\ UNCHANGED <<program, up, pc, timer, data_, file, toShellMsg, browser, remote, seen, typed,
                 cut>>

\* A console's handler shows the command it has written, unless the shell has gone.
Wrote(s) ==
  /\ program # "cgi"
  /\ up /\ ready[s] # <<>> /\ Head(ready[s]) = "wrote" /\ Runs(s, <<>>)
  /\ \/ /\ Output(s, Echo(toShellMsg[s]))
        /\ toShellMsg' = [toShellMsg EXCEPT ![s] = escape(@)]
     \/ shell[s] = "closed" /\ UNCHANGED <<browser, toShellMsg>>
  /\ UNCHANGED <<program, up, pc, timer, data_, file, remote, seen, typed, cut>>

\* cgi_server's does nothing.
WroteWeb(s) ==
  /\ program = "cgi"
  /\ up /\ ready[s] # <<>> /\ Head(ready[s]) = "wrote" /\ Runs(s, <<>>)
  /\ UNCHANGED <<program, up, pc, timer, data_, file, toShellMsg, browser, remote, seen, typed,
                 cut>>

-----------------------------------------------------------------------------
Init ==
  /\ program \in {"project3", "project4", "cgi"} /\ up = TRUE
  /\ pc = [s \in Shell |-> "resolve"] /\ ready = [s \in Shell |-> <<>>]
  /\ timer = [s \in Shell |-> FALSE] /\ data_ = [s \in Shell |-> <<>>]
  /\ file = [s \in Shell |-> 0] /\ toShellMsg = [s \in Shell |-> <<>>]
  /\ page = [s \in Shell |-> <<>>] /\ web = <<>>
  /\ shell = [s \in Shell |-> "none"] /\ said = [s \in Shell |-> <<>>]
  /\ seen = [s \in Shell |-> 0] /\ typed = [s \in Shell |-> <<>>]
  /\ taken = [s \in Shell |-> 0] /\ chats = [s \in Shell |-> 0]
  /\ cut = [s \in Shell |-> FALSE]

\* A console's run returns when no client has anything under way.
Done == up /\ program # "cgi" /\ (\A s \in Shell : pc[s] = "failed") /\ up' = FALSE
        /\ UNCHANGED <<program, client, browser, remote, seen, typed, cut>>

Handler(s) == do_resolve(s) \/ do_connect(s) \/ do_connectProxy(s) \/ do_request(s)
              \/ do_recv_reply(s) \/ do_read(s) \/ Fire(s) \/ Wrote(s)
              \/ WroteWeb(s)
Completes(s) == Receive(s) \/ Expire(s)
Speaks(s) == ShowPrompt(s) \/ TakeLine(s)

Next ==
  \/ Done \/ WebWritten
  \/ \E s \in Shell : Handler(s) \/ Completes(s) \/ Speaks(s) \/ Chat(s)

(* The thread runs what is ready, operations complete, a browser reads, a  *)
(* shell runs what it is given.  Nobody needs to chat.                     *)
Fairness ==
  /\ WF_vars(WebWritten)
  /\ \A s \in Shell : WF_vars(Handler(s)) /\ WF_vars(Completes(s)) /\ WF_vars(Speaks(s))

Spec == Init /\ [][Next]_vars
FairSpec == Spec /\ Fairness

-----------------------------------------------------------------------------
(* Properties.                                                             *)

Text == [c : {"%", "sp", "text", "out"}, of : Nat]
Shown == Text \cup {Junk} \cup [c : {"cmd"}, of : Int]

\* Every variable has its type (a client, the browser's side, the shell's).
TypeOK ==
  /\ program \in {"project3", "project4", "cgi"} /\ up \in BOOLEAN
  /\ pc \in [Shell -> {"resolve", "connect", "request", "reply", "read",
                       "failed", "unknown", "refused"}]
  /\ ready \in [Shell -> Seq({"read", "wrote", "timer"})] /\ timer \in [Shell -> BOOLEAN]
  /\ data_ \in [Shell -> Seq(Text)]
  /\ file \in [Shell -> Nat] /\ \A s \in Shell : file[s] <= Lines[s] + 1
  /\ toShellMsg \in [Shell -> Seq(Int)] /\ page \in [Shell -> Seq(Shown)]
  /\ web \in Seq([to : Shell, text : Seq(Shown)])
  /\ shell \in [Shell -> {"none", "busy", "prompted", "closed"}]
  /\ said \in [Shell -> Seq(Text)] /\ seen \in [Shell -> Nat]
  /\ typed \in [Shell -> Seq(Int)] /\ taken \in [Shell -> Nat] /\ chats \in [Shell -> Nat]
  /\ cut \in [Shell -> BOOLEAN]

\* Somebody made the shell say "%".
Stray(s) == \E i \in DOMAIN said[s] : said[s][i] = Unit("%", 0)

\* With a timer, such a prompt may come while a line waits for it.
Hurried(s) == program = "project3" /\ Stray(s)

(* What a shell is sent is its script, from the first line on, in order,   *)
(* each line once and nothing between; and nothing follows "exit", unless  *)
(* a user made the shell say something like a prompt.                      *)
LinesInOrder ==
  \A s \in Shell :
    /\ Hurried(s) \/ \A i \in DOMAIN typed[s] : i <= 2 * Lines[s] =>
         typed[s][i] = IF i % 2 = 1 THEN (i + 1) \div 2 ELSE NL
    /\ Stray(s) \/ Exit[s] > Lines[s] \/ Len(typed[s]) <= 2 * Exit[s]

Asked(s) == Cardinality({i \in DOMAIN typed[s] : typed[s][i] = NL})

(* "Send one line whenever you receive a shell prompt": a shell is never   *)
(* sent more lines than it has shown prompts.  Past the end of the script  *)
(* cgi_server sends one newline more each time, a timer may send two, and  *)
(* so may a write to a shell that has gone, which was not escaped.         *)
OneLinePerPrompt ==
  \A s \in Shell :
    \/ Asked(s) <= Prompts(SubSeq(said[s], 1, seen[s]))
    \/ file[s] > Lines[s] /\ (program = "cgi" \/ Hurried(s) \/ shell[s] = "closed")

(* "Commands are displayed right after the shell prompt, but before the    *)
(* execution result": in its column a command comes before its output,     *)
(* unless the page was garbled on its way to a slow browser.               *)
EchoBeforeResult ==
  \A s \in Shell : \A j \in DOMAIN page[s] :
    page[s][j].c = "out" =>
      \/ Hurried(s)
      \/ \E i \in 1 .. j - 1 : page[s][i] \in {Unit("cmd", page[s][j].of), Junk}

(* Once its shell answers, a script is sent to its end or to "exit",       *)
(* unless a prompt came in two reads or with another, or another shell was *)
(* refused or unknown, which ends all.                                     *)
ScriptSent ==
  \A s \in Shell :
    pc[s] = "read" ~> \/ Asked(s) >= Lines[s] \/ Asked(s) >= Exit[s]
                      \/ cut[s] \/ Hurried(s)
                      \/ \E o \in Shell : pc[o] \in {"unknown", "refused"}
=============================================================================
