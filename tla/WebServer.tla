------------------------------ MODULE WebServer ------------------------------
(***************************************************************************)
(* The two web servers of project 3, whose session classes are one text    *)
(* but for do_request:                                                     *)
(*   "http"  http_server.cpp, which forks and executes a CGI program;      *)
(*   "cgi"   cgi_server.cpp, which does the program's work itself.         *)
(* A browser's connection is closed when nobody holds it any more: a CGI   *)
(* program has, besides its own, copies of all connections that the server *)
(* had at the fork, and of the listening socket.  What a console does on   *)
(* its page is Console's subject; here it is a program that need not end.  *)
(***************************************************************************)
EXTENDS Naturals, FiniteSets

CONSTANTS
  Conn,   \* connections of browsers
  Kind,   \* what each asks for: "panel", "console", "other" (a program that ends)
  Long,   \* those whose request exceeds max_length, the size of one read
  Size    \* units of an answer

ASSUME WebAssumption ==
  /\ "server" \notin Conn /\ Kind \in [Conn -> {"panel", "console", "other"}]
  /\ Long \subseteq Conn /\ Size \in Nat \ {0}

VARIABLES
  program, \* "http" or "cgi"
  up,      \* is the server?
  conn,    \* "none", "queued" at the acceptor, "reading", "handled"
  asked,   \* has the browser sent its request?
  gone,    \* has it left, resetting the connection?
  cgi,     \* what answers: "none", "running", "ended"
  holds,   \* who holds the connection: "server", and the CGI programs by their own
  wrote, got, \* units of the answer written and received
  end      \* what the browser saw: "none", "eof", "reset"

browser == <<asked, gone, got, end>>
vars == <<program, up, conn, asked, gone, cgi, holds, wrote, got, end>>

-----------------------------------------------------------------------------
(* Browsers.                                                               *)

Listening == up \/ \E d \in Conn : program = "http" /\ cgi[d] = "running"

\* Often some time before there is anything to ask.
Connect(c) ==
  /\ Listening /\ conn[c] = "none" /\ conn' = [conn EXCEPT ![c] = "queued"]
  /\ UNCHANGED <<program, up, browser, cgi, holds, wrote>>

Present(c) == conn[c] # "none" /\ ~gone[c] /\ end[c] = "none"

Ask(c) ==
  /\ Present(c) /\ ~asked[c] /\ asked' = [asked EXCEPT ![c] = TRUE]
  /\ UNCHANGED <<program, up, conn, gone, got, end, cgi, holds, wrote>>

Leave(c) ==
  /\ Present(c) /\ gone' = [gone EXCEPT ![c] = TRUE]
  /\ UNCHANGED <<program, up, conn, asked, got, end, cgi, holds, wrote>>

Receive(c) ==
  /\ Present(c) /\ got[c] < wrote[c] /\ got' = [got EXCEPT ![c] = @ + 1]
  /\ UNCHANGED <<program, up, conn, asked, gone, end, cgi, holds, wrote>>

\* Closing a connection with something unread resets it; what is under way may be lost.
Unread(c) == asked[c] /\ (conn[c] # "handled" \/ c \in Long)

SeesEnd(c) ==
  /\ Present(c) /\ holds[c] = {} /\ (conn[c] = "queued" => ~Listening)
  /\ \/ (Unread(c) \/ conn[c] = "queued") /\ end' = [end EXCEPT ![c] = "reset"]
     \/ ~Unread(c) /\ conn[c] # "queued" /\ got[c] = wrote[c] /\ end' = [end EXCEPT ![c] = "eof"]
  /\ UNCHANGED <<program, up, conn, asked, gone, got, cgi, holds, wrote>>

-----------------------------------------------------------------------------
(* The server: one thread, one handler after another.                      *)

do_accept(c) ==
  /\ up /\ conn[c] = "queued" /\ conn' = [conn EXCEPT ![c] = "reading"]
  /\ holds' = [holds EXCEPT ![c] = {"server"}]
  /\ UNCHANGED <<program, up, browser, cgi, wrote>>

Drops(c) == holds' = [holds EXCEPT ![c] = @ \ {"server"}]

\* The read fails, and nobody refers to the session any more.
Error(c) == gone[c] /\ ~asked[c] /\ Drops(c) /\ UNCHANGED <<up, cgi, wrote>>

(* What a browser sent is read even if it has reset the connection since,  *)
(* but remote_endpoint then throws; nothing catches that before main, and  *)
(* the server ends.                                                        *)
ParseRequest(c) ==
  /\ asked[c] /\ gone[c] /\ up' = FALSE /\ UNCHANGED wrote
  /\ holds' = [d \in Conn |-> holds[d] \ {"server"}]
  /\ cgi' = [d \in Conn |-> IF program = "cgi" /\ cgi[d] = "running" THEN "ended" ELSE cgi[d]]

\* What the child of a fork has is what the server has.
Copied(c) == [d \in Conn |-> IF "server" \in holds[d] THEN holds[d] \cup {c} ELSE holds[d]]

\* Mutant: the server forgets to close its copy when there is a child.
ForkKeeps(c) ==
  /\ program = "http" /\ UNCHANGED <<up, wrote>>
  /\ \/ cgi' = [cgi EXCEPT ![c] = "running"] /\ holds' = Copied(c)
     \/ Drops(c) /\ cgi' = cgi

\* The server closes its copy of this connection only, also when there is no child.
Fork(c) ==
  /\ program = "http" /\ UNCHANGED <<up, wrote>>
  /\ \/ /\ cgi' = [cgi EXCEPT ![c] = "running"]
        /\ holds' = [Copied(c) EXCEPT ![c] = @ \ {"server"}]
     \/ Drops(c) /\ cgi' = cgi

(* In one process: a page, for which a socket's buffer has room, and then  *)
(* the clients of a console; or nothing, and the session is over.          *)
Serve(c) ==
  /\ program = "cgi" /\ UNCHANGED up
  /\ \/ /\ Kind[c] # "other" /\ holds' = holds
        /\ cgi' = [cgi EXCEPT ![c] = "running"] /\ wrote' = [wrote EXCEPT ![c] = Size]
     \/ Kind[c] = "other" /\ Drops(c) /\ UNCHANGED <<cgi, wrote>>

do_request(c) == asked[c] /\ ~gone[c] /\ (Fork(c) \/ Serve(c))

do_read(c) ==
  /\ up /\ conn[c] = "reading" /\ (Error(c) \/ ParseRequest(c) \/ do_request(c))
  /\ conn' = [conn EXCEPT ![c] = "handled"]
  /\ UNCHANGED <<program, browser>>

-----------------------------------------------------------------------------
(* What answers: a program, or in cgi_server the session or the clients    *)
(* that share its socket.                                                  *)

\* Mutant: a program writes past the end of its answer.
WritePast(c) ==
  /\ cgi[c] = "running" /\ ~gone[c] /\ wrote' = [wrote EXCEPT ![c] = @ + 1]
  /\ UNCHANGED <<program, up, conn, browser, cgi, holds>>

Write(c) ==
  /\ cgi[c] = "running" /\ ~gone[c] /\ wrote[c] < Size /\ wrote' = [wrote EXCEPT ![c] = @ + 1]
  /\ UNCHANGED <<program, up, conn, browser, cgi, holds>>

\* Mutant: the answer is abandoned half way.
FinishesEarly(c) ==
  /\ cgi[c] = "running" /\ cgi' = [cgi EXCEPT ![c] = "ended"]
  /\ holds' = [d \in Conn |-> holds[d] \ {IF program = "http" \/ c # d THEN c ELSE "server"}]
  /\ UNCHANGED <<program, up, conn, browser, wrote>>

(* A page that is written; a console of which no shell is left; a program  *)
(* that writes to a browser which has left.                                *)
Finishes(c) ==
  /\ cgi[c] = "running" /\ (wrote[c] = Size \/ gone[c])
  /\ cgi' = [cgi EXCEPT ![c] = "ended"]
  /\ holds' = [d \in Conn |-> holds[d] \ {IF program = "http" \/ c # d THEN c ELSE "server"}]
  /\ UNCHANGED <<program, up, conn, browser, wrote>>

-----------------------------------------------------------------------------
Init ==
  /\ program \in {"http", "cgi"} /\ up = TRUE
  /\ conn = [c \in Conn |-> "none"] /\ asked = [c \in Conn |-> FALSE]
  /\ gone = [c \in Conn |-> FALSE] /\ cgi = [c \in Conn |-> "none"]
  /\ holds = [c \in Conn |-> {}] /\ wrote = [c \in Conn |-> 0]
  /\ got = [c \in Conn |-> 0] /\ end = [c \in Conn |-> "none"]

Next ==
  \E c \in Conn :
    \/ Connect(c) \/ Ask(c) \/ Leave(c) \/ Receive(c) \/ SeesEnd(c)
    \/ do_accept(c) \/ do_read(c) \/ Write(c) \/ Finishes(c)

(* The server runs its handlers, programs run and those that are no        *)
(* consoles end, and browsers read.  Nobody has to ask.                    *)
Fairness ==
  \A c \in Conn :
    /\ WF_vars(do_accept(c)) /\ WF_vars(do_read(c)) /\ WF_vars(Write(c))
    /\ WF_vars(Kind[c] # "console" /\ Finishes(c))
    /\ WF_vars(Receive(c)) /\ WF_vars(SeesEnd(c))

Spec == Init /\ [][Next]_vars
FairSpec == Spec /\ Fairness

-----------------------------------------------------------------------------
TypeOK ==
  /\ program \in {"http", "cgi"} /\ up \in BOOLEAN
  /\ conn \in [Conn -> {"none", "queued", "reading", "handled"}]
  /\ asked \in [Conn -> BOOLEAN] /\ gone \in [Conn -> BOOLEAN]
  /\ cgi \in [Conn -> {"none", "running", "ended"}]
  /\ holds \in [Conn -> SUBSET (Conn \cup {"server"})]
  /\ wrote \in [Conn -> 0..Size] /\ got \in [Conn -> 0..Size]
  /\ end \in [Conn -> {"none", "eof", "reset"}]

(* A browser that sees its connection closed has the whole answer or, when *)
(* the fork fails or cgi_server does not know the name, none of it.  It is *)
(* cut off only when its request is longer than the one read, or because   *)
(* the server has ended.                                                   *)
WholeAnswer ==
  \A c \in Conn :
    /\ end[c] = "eof" => got[c] \in {0, Size}
    /\ end[c] = "reset" => c \in Long \/ ~up

(* Two programs never hold each other's connections open, so that those    *)
(* which wait for others' ends do not wait for ever unless a console does: *)
(* the server closes its copy before the next fork.                        *)
NoMutualHold ==
  \A c, d \in Conn : c # d => ~(c \in holds[d] /\ d \in holds[c])

\* Some console, perhaps another browser's, has the connection or, the server gone, its queue.
Kept(c) ==
  \E d \in Conn :
    /\ Kind[d] = "console" /\ cgi[d] = "running"
    /\ d \in holds[c] \/ (program = "cgi" /\ d = c) \/ (conn[c] = "queued" /\ ~up)

(* A browser that has asked sees its answer end, unless a console keeps    *)
(* the connection for ever: any console that was started between its       *)
(* connecting and its asking does.                                         *)
PageEnds ==
  \A c \in Conn :
    <>[]Kept(c) \/ (asked[c] ~> (end[c] # "none" \/ gone[c]))
=============================================================================
