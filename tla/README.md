# A formal model of the network programming projects

Four programs of increasing reach live in `src/`: a shell (`npshell`), three
servers that give the shell to network users (`np_simple`, `np_single_proc`,
`np_multi_proc`), a web console that drives such shells from a browser
(`http_server` with `console.cgi`, and `cgi_server` for Windows), and a SOCKS 4
proxy with a console that goes through it (`socks_server`, `console.cgi`).
This directory holds TLA+ models of them, checked by TLC on small instances and
proved by TLAPS for every instance where that is possible.

## The system

| component | state it keeps | operations | interacts through |
|---|---|---|---|
| `npshell.cpp` | `lineIdx`, `pipes` (numbered, by line), `ordinary_pipes`, `lastWaitChild` | read and parse a line, built-ins, fork and wire each command, wait, SIGCHLD handler | pipes and `fork` with its children, SIGCHLD |
| `np_simple.cpp` | the same, per session process; the parent keeps nothing | accept, fork a session, reap it, then the shell on the socket | SIGCHLD in parent and session |
| `np_single_proc.cpp` | `clients` (name, environment, numbered and user pipes, counter), `tickets`, `fd_table`, `afds` | select, accept and log in, one line of one user, exit | the sockets of all users, user pipes, the process environment |
| `np_multi_proc.cpp` | shared memory rows (pid, name, message, FIFO flags); each session its shell tables and `recvFds` | accept and fork, log in, a line, tell/yell by SIGUSR1, FIFOs by SIGUSR2, log out, kill | shared memory without a lock, signals, FIFOs |
| `console.cpp` (3, 4) | per remote shell: the script, a line buffer, a timer | resolve, connect (4: SOCKS request and reply), read to a prompt, send a line | asio callbacks on one thread |
| `http_server.cpp` | per connection a buffer; a child per request | accept, read, fork, exec of the CGI program | `fork`, asio |
| `cgi_server.cpp` | as `http_server` and `console` in one process | the same without fork | asio callbacks |
| `socks_server.cpp` | per connection: request, reply, two buffers, acceptor for BIND | accept, fork, check `socks.conf`, CONNECT or BIND, relay both ways | asio callbacks, `fork`, the rule file |
| `commands/*.cpp` | none | `noop`, `number`, `removetag`, `removetag0` copy lines from input to output | the shells' pipes |

Hard behaviours: children run concurrently and end in any order while a
SIGCHLD handler and the main flow both reap; every child inherits every open
pipe; a numbered pipe joins commands lines apart; pipes fill; numbers, names,
descriptors and pipes are reused by later users; the sessions of
`np_multi_proc` share unlocked memory and talk by signals that coalesce; asio
callbacks of one session share buffers. What makes each component correct:

* shells: data goes from a command to exactly the one the text of the lines
  designates, readers see end of file, the prompt follows the output and always
  returns, no zombies;
* servers: number, name, descriptor and environment belong to one user at a
  time; user pipes join the two users they name; no user stops the others;
* consoles: one line per prompt, in order; all lines, each once;
* web and SOCKS servers: each request gets one answer, data is relayed
  unchanged and in order, connections end when their peers do.

## Modules

| module | models | state and actions |
|---|---|---|
| `NpShell` | `npshell.cpp`, the process that every server reuses | `pc` is where `main` stands: at `getline`, in the loop over the line's commands, in `waitpid`, gone. One action per read of a line (command, blank, built-in, exit), per iteration of the loop (`ForkCmd`), for the retry of `fork`, for the final `waitpid`, two for the handler, three for children (read, write, exit) |
| `Registry` | what numbers and names promise to users, abstractly | `Login`, `Rename`, `Logout` on a function from numbers to names |
| `RwgSingle` | `np_single_proc.cpp` | `Select`, then the scan of the ready descriptors: `Accept` or one case of `shell_service`; a command line enters the loop, which is `NpShell`'s, instantiated over the tables of the user being served (`Sh`), with user pipes added; half a line makes its socket ready too (`halves`), and `Serve` then waits for the rest (`EndLine`) |
| `RwgMulti` | `np_multi_proc.cpp` | sessions are processes: `Connect` (accept and fork), a log-in of two steps (`LoginRow`: the shared row and `pid_table`; `LoginTell`: the handlers and the message), `tell`, `yell`, `rename` (the name is found free) and `Renames` (it is copied), `logout` and `Leaves`, `EmptyLine`, `Command` (a line up to the loop that announces its user pipes) and `Fork`; `Look` and `LookPast` are a round of any loop that signals the others, `Said` its end; the child's `KidSignal` (`mknod`, sender, kill), `KidOpen`, `KidRead`, `KidWrite`, `KidExit`, `WaitKid`, and the two handlers `broadcast` (SIGUSR1) and `openForRead` (SIGUSR2) |
| `Stream` | one direction of a relayed connection, abstractly | `Send` and `Deliver` of numbered units |
| `SocksSession` | a forked child of `socks_server.cpp` | one action per asio handler: `do_start`, `do_resolve`, `do_connect`, `do_accept`, and `do_read`, `do_write` for either side; the peers' `Send`, `Receive`, `Shut`, `Leave`; edits of `socks.conf` |
| `NpSimple` | `np_simple.cpp`: the server around the sessions | the parent's `accept`, `fork`, `Interrupted` (SIGCHLD) and one round of its `reaper`; of a session a `Line` or its `Retry` when `fork` fails, `waitpid`, `Signalled` and `signalHandler`, `Logout`; children end (`LastEnds`, `LeftEnds`) |
| `Console` | `class client` as both `console.cpp` and `cgi_server.cpp` have it | `do_resolve`, `do_connect`, `do_request`, `do_recv_reply`; a read or the timer completes (`Receive`, `Expire`) and its handler runs later (`do_read`, `Fire`, `Wrote`, `WroteWeb`); `WebWritten` to a slow browser; the remote shell's `ShowPrompt`, `TakeLine`, `Chat` |
| `WebServer` | `http_server.cpp`, and the server and session classes of `cgi_server.cpp` | `do_accept`; `do_read`, which is `Error`, `ParseRequest` (the exception) or `do_request` (`Fork` or `Serve`); the program's `Write` and `Finishes`; the browser's `Connect`, `Ask`, `Leave`, `Receive`, `SeesEnd` |
| `MC...` of each module but `Registry` and `Stream` | | constants for TLC |
| `..._proofs` of each module but those, and `RwgSinglePipes_proofs` | | theorems |

A command line is the value `parseLine` returns, and a program is what its
pipes can tell of it: how many units it writes and whether it copies its input.
A pipe holds at most `Cap` units. A child keeps the read and write ends that
`fork` copied and the code did not close, so that end of file, SIGPIPE and
blocking follow from who holds which end. Each iteration of the loop is one
action: up to `execvp` the child only closes and duplicates its own copies of
descriptors that the parent holds at that point as well. SIGCHLD is one pending
bit, as the kernel keeps it; its delivery suspends `main`, and the handler's
`waitpid(-1)` blocks while there is no zombie but there are children.

The ghosts record what the text of the lines says, computed without the
shell's tables: `takes`, `to`, `base` and tags in `NpShell`; in `RwgSingle`
also `meant` (the destination a pipe was created for), `own` (what a user set)
and `session` (a login, since numbers are reused); in `RwgMulti` `unheard`
(who has yet to print the message that is in the buffer), `due` (what has been
written for a user pipe and not been received) and `spoilt` (user pipes received
by a command that did not read them to the end); in `NpShell` `builtins` (lines
that were `setenv` or `printenv`); in `SocksSession` `checked` (what
the rule file permitted when it was read).

In `RwgMulti` the rows, the flags of the FIFOs and the message buffer are
shared memory that nothing locks, and a handler interrupts its session
wherever it stands. Signals are a bit per session and kind. A message is written
in one step, and each round of the loop that signals the other rows is a step of
its own, so that others may overwrite the message, come or leave in between.
`openForRead` blocks until a writer opens the FIFO, and the writer until a
reader does. FIFOs hold `Cap` units, and a command may receive without reading.
`Together` lists what users do while others are busy: connect, talk, rename. The
rest they do one at a time, as the project has it (section 5 item 7: "different
clients don’t execute commands at the same time"); signals may be late all the
same: the handler reads
`sender` when it runs, and then it may be a later one. If that user has never
piped to this one the file does not exist (`made`) and `open` fails; otherwise
the handler waits for a writer that has no reason to come (`Misled`). Pipes
other than the user's are `NpShell`'s matter and do not appear.

In `SocksSession` a peer is open, has shut its sending half, or is gone; what
is written to a peer that is gone, or left unread by it, resets the
connection. A socket holds `Cap` units each way; replies are eight bytes and
always fit. The resolver returns any of `Answers` (an error; addresses without
an IPv4 one, which makes the handler dereference the end iterator, a process
that dies; or some). A write of zero bytes is what end of file becomes. Every
`exit(0)` and every exception that leaves `main` is `Quit`, after which the
kernel may cut what was still to be sent if there was unread input.

In `NpSimple` a session is where its shell stands and how many children it has
to collect: its loop over a line is that of `npshell.cpp` word for word, so what
goes through which pipe is `NpShell`'s. A child a session leaves behind keeps
the user's connection, and may never end. `listen` has a backlog of 0, which
admits one connection (`queued`).

`Console` and `WebServer` each stand for programs whose classes are nearly one
text; `program`, chosen in `Init`, says which one runs, and actions in which
they differ have it in their guards. In `Console`, `ready` is `io_context`'s
queue, as far as one client is concerned: a handler runs some time after its
operation completed, in the order of completion, and finds the members as they
are then. A shell says units of text; the prompt is two of them, so that a read
may end between them (`cut`). A line of the script is its number. The `&` of
`do_write`'s and `output_command`'s parameters matters: escaping the command for
the page changes `toShellMsg` itself. `cgi_server` writes to the browser with
`async_write` from a local string; a write that has to wait may show anything
(`Junk`).

In `WebServer`, `holds` says which processes hold a browser's connection: the
server, and each forked program whatever was open at the fork. The browser sees
its end when nobody does.

## Runs

| run | instance | result |
|---|---|---|
| `npshell` | three lines of six kinds, built-ins among them, three processes (so `fork` fails too), pipes of three units | all safety properties and `PromptReturns` hold; `NoMissedPipe` excepts pipes that lead to a built-in |
| `npshell_large` | pipes of one unit, a command that writes two into a pipe read two lines later | `PromptReturns` fails: see below |
| `rwg_single` | two numbers, three sessions (so a number is reused), three lines of any user, one of which overfills a user pipe, three processes, pipes of one unit | tables agree, names unique, environments apart, data routed as typed, end of file reachable, `Registry` implemented; the server returns to `select` but for half a line (`HalfLine`) and a full pipe whose reader it would have to start (`Overfull`) |
| `rwg_single_stale` | a user pipes to another | `UserPipesClosed` fails |
| `rwg_multi` | two rows and one past the table, three sessions, four lines, FIFOs of one unit; users tell and yell at any time and wait for one another with the rest | a row leads to its session, `Registry` implemented, flags, FIFOs and descriptors agree, what is sent is received unless an earlier receiver did not read, the last message is heard, commands end unless one of the four things under "Proofs" is in the way |
| `rwg_multi_together` | users connect while another is logging in (`Together = {"connect"}`) | `RowIsOwn` fails |
| `rwg_multi_again` | user 2 pipes to user 1 twice | `HandlerReturns` fails |
| `socks_session` | CONNECT, BIND (which anybody may meet) and an unknown command, one edit of the rules, two units up and three down, sockets of two | `Stream` implemented both ways, replies by the protocol and true, data and answers arrive |
| `socks_session_download` | the same instance | `DownloadEnds` fails |
| `np_simple` | three users, one of whom may leave a program running | all that end are collected, and whoever connects is accepted unless the reaper waits for one who stays |
| `console` | each program with two shells; one has a script of two lines, the second `exit`; the other has an empty script, and a user there says once what looks like a prompt; one write to the browser may wait | the script goes out in order, a line per prompt, shown before its result, and to its end unless a prompt is split or merged or another shell is refused |
| `web_server` | both servers with three browsers: the panel, a console, and a request longer than one read; answers of two units | answers are whole, no two programs hold each other's connections, and a page ends unless a console keeps its connection |

Bounds: three lines are enough for a writer, a line in between and a reader;
three processes for a pipeline and for `fork` to fail; two numbers and three
sessions for two users who meet and a third who inherits a number. In `npshell`
a pipe of three units takes all that is written, and a full pipe, which the code
gets wrong, is `npshell_large`'s. `rwg_single` and `rwg_multi` have pipes and
FIFOs of one unit and a command that writes two, so that both meet a full one.
In `rwg_multi` two rows and three sessions are two users and one who inherits a
number; a handler that finds a third user's name, and no such file, is left to
the proofs, which are for any number of rows. None of its lines has a user send
to itself what it receives from itself, as `cat <1 >1` of user 1: that command
never ends (`Turning`); the theorems do not exclude it. Users who rename while
others are busy are in the module and in the proofs of `TypeOK` and `LastHeard`,
not in a run. In
`socks_session` three units go through sockets of two, so that a write is split
and the other direction runs meanwhile; one edit of the rules is enough to
come between any two steps. In `console` a script of two lines and one that
is at its end when the first prompt comes show `getline` in all its cases, and two shells are needed for a refusal to end
a session that is under way; `MaxWeb` = 2 has been checked too, for the
invariants. `web_server` needs three connections for a program that has copies
of one which was forked earlier and of one that is yet to ask; answers of two
units can be cut in the middle. `np_simple` needs a user who stays, one who
leaves and one who comes.

### Disagreements with the projects' specifications

* `npshell_large`: the handler's `waitpid` has no `WNOHANG`. When `main` has
  reaped the foreground command itself, the handler that its SIGCHLD starts
  waits for another child; one that is blocked on a full numbered pipe never
  ends, since only the shell's next lines start its reader.
* `rwg_single_stale`: `exit` closes no pipe. What the user sent stays in the
  receivers' tables under a number that the next user draws.
* `rwg_multi_together`: `main` draws the number, the session it forks takes it;
  users who connect together all get the same one.
* `rwg_multi_again`: a session keeps every FIFO it has read from open, so a
  second writer's `open` succeeds at once, and the writer may have ended when
  the receiver's handler opens the FIFO, which then waits for ever. In
  `rwg_multi` this is one of the two cases that `Returns` excepts as `Misled`.
* `socks_session_download`: end of file is taken for a read of zero bytes, so
  that the client reads all of a file and never sees its end.

Those of the shells and of `np_multi_proc` have been seen in the programs
themselves.

Other behaviour worth knowing is in the models as the code has it, and the
properties of passing runs except it by name, where they speak of it:

* two children of `npshell` that end together leave a zombie, as its handler
  reaps one (`np_simple`'s parent reaps all: `Collected`);
* a numbered pipe to a line that turns out to be `setenv` or `printenv` stays
  open for ever: the built-in counts as a line and takes no pipe (`builtins` in
  `NoMissedPipe`). The shell's specification leaves such lines out (project 1,
  section 3.3 item 3: "no commands will pipe to built-in commands");
* a command of `np_single_proc` that fills a user pipe stops the server, which
  waits for it and alone could start its reader (`Overfull` in `ServerReturns`);
  so does a user who sends half a line, for as long as it is half: `getline`
  waits for the rest and nobody else is served (`HalfLine`);
* a command of `np_multi_proc` that fills a FIFO stops its user: the session
  waits for it, and by the rules the receiver waits for the session (`Brimming`
  in `Returns`);
* a command that receives from a user pipe and does not read it, an unknown one
  too, clears the flag and leaves the data in the FIFO, which the session keeps
  open: the next command that receives from the same user reads it as well
  (`spoilt` in `PipesAsFlagged`, `clean` in `Delivered`). For the shell the
  specification says "Messages piped to unknown commands will disappear"
  (project 1, section 3.4 item 4);
* `np_multi_proc`'s `rename` looks for the name in all rows and copies it later;
  two users who do so together can both get it (`Renames`; the proof that
  `Registry` is implemented assumes `"name" \notin Together`). A name of a user
  who has left cannot be taken, as the row keeps it until the number is reused;
* `tell` in `np_multi_proc` compares the row's process with -1 and does not
  bound the number; past the table it finds 0, and `kill(0, SIGUSR1)` ends
  `main` (`up`), sessions that are logging in and commands that run (`LookPast`);
* `np_simple`'s reaper polls until there is no child at all: once a user leaves,
  nobody is accepted until all have left (`NextServed`);
* project 3's console waits a second before each line, a prompt in that second
  arms the timer again, and the line that was due is replaced or sent twice
  (`Hurried`);
* `socks_server` takes whoever connects to the port of a BIND first: `do_accept`
  compares the peer with nothing, and its second reply is 90 for anybody
  (`Truthful` says so of BIND). Project 4's specification has it "Accept
  connection from destination" (p. 1, 2(b)iv);
* project 4's console ends for all shells when the proxy refuses one
  (`ScriptSent`); at a shell's end of file a console reads on for ever;
* a program that `http_server` forks has copies of all open connections; a
  browser that connected before a console was started and asks later does not
  see its page end (`Kept`); a browser that resets its connection after its
  request ends the server, as `remote_endpoint` throws (`ParseRequest`).

## Fairness

`FairSpec` lets every process that can run take a step at last, delivers
pending signals and, in `RwgSingle`, reads what `select` reported. Users are
never assumed to type, connect or leave. That is what the kernel's scheduler
gives. In `SocksSession` only the process's own handlers and the end of an
attempt to connect are fair; the properties that need a peer to read (`Relayed`,
`Answered`, `DownloadEnds`) say so, with `WF_vars(Receive(d))` before the arrow.
In `Console` the thread runs what is ready, operations complete, shells take
lines and browsers read; in `WebServer` the server, the programs and the
browsers' reads go on, while consoles need not end and nobody needs to ask; in
`NpSimple` processes run and a program that a shell waits for ends, while users
may stay and programs that were left behind may run for ever. Nobody needs to
chat, connect or log out.

## Proofs

`NpShell_proofs` proves `TypeOK`, `RoutedAsWritten`, `NoMissedPipe`,
`EofIsReachable` and `PromptAfterOutput` for all lines, programs, process
limits and capacities that meet `ConstantAssumption`. None of them is inductive
alone. What a reader will get depends on what the tables hold between the fork
of the writers and that of the reader, so the invariant `IInv` ties the line
counter to the text (`Cursor`), every numbered pipe to its line (`NumTable`),
the queue of ordinary pipes to the loop's position (`OrdQueue`), children to
the ends they use (`Ends`) and the child that writes to the user to
`lastWaitChild` (`Await`). `Wired(q, t)` is the heart: whatever is or will be
in pipe `q` is meant for `t`, and nobody reads it yet.

`RwgSingle_proofs` proves `TypeOK`, `Registered`, `NamesUnique`, `EnvIsOwn` and
that the server implements `Registry`; `RwgSinglePipes_proofs`, on top of it,
`RoutedAsMeant` and `EofIsReachable`. `EnvIsOwn` needs to know that the
process environment is the served user's whenever a command may be forked
(`Service`, `OwnEnvs`), and that depends on the position in the scan and on the
tables of every user (`Queues`), all of which agree on who is online
(`Registered`). `StepReg` then maps each action to `Login`, `Rename`, `Logout`
or a stutter.

For the pipes the argument is that a pipe stands in one place, the one that the
destination it was created for names: `Tables` says so of the entries for
numbered, user and ordinary pipes, `Cursors` and `Sessions` that two places have
different names. What a command takes out of its place is then in nobody's
table, and the server has closed both ends of it, which is what end of file
needs. The pipes that `exit` forgets were meant for sessions that have ended
(`Leaks`), and a child holds the ends it uses (`Ends`); `PInv` is the
conjunction.

`SocksSession_proofs` proves `TypeOK`, `Protocol`, `Truthful`, `EndsByReset` and
that both directions implement `Stream`, for all addresses, rules, resolver
answers, capacities and amounts of data. What a peer has received says nothing
of what is still on its way, so `Flow(d, k)` accounts for every unit: those
received, those written (behind `k` replies), those in the session's buffer,
those to be read are consecutive, and together all that was sent, as long as
the receiver is there to be written to. `Phases` says what each handler may
rely on, `Sockets` that a buffer is empty while its loop reads, and `Told` that
replies under way will be true when they are heard.

`RwgMulti_proofs` proves `TypeOK` and `LastHeard` whatever users do `Together`;
`RowIsOwn`, `PipesAsFlagged`, `Delivered` and `NeverStuck` for users who do not
connect while others are busy (`Waiting`), which `rwg_multi_together` shows to
be needed, and who may talk and rename at any time; and the implementation of
`Registry` for those who do not rename then either (`Taking`). Between `main`'s
drawing a number and the session's taking the row the number must stay the
smallest free one: `Claimed` says that whoever is at that point has such a
number (`Drawn`), that one at a time logs in, leaves or runs a command
(`Alone`), and that all rows lead to their sessions. `Numbered` says that a
process has a number before it does anything, `Led` that a row leads to who took
it. `LastHeard` is carried by `Onway`: whoever is yet to hear has SIGUSR1, or is
in a row that the loop of some session is yet to look at. A later message may be
written before that loop is through; then it is the later one's readers that
count, and the earlier loop only signals more.

What `isFifoExists` says of a FIFO is about three processes that never meet: the
sender that sets it, its child that opens and fills the FIFO, and the receiver
that clears it, perhaps without reading, perhaps after others have left and
their numbers were given again. `FInv` follows it from the line that sets it to
the line that clears it. `Children` says what the one child there is (`Alone`,
`Childless`) still has to do: `Joined`, that it reads what its session has open
and that whom it writes to has its flag; `Rest`, that what it has read and what
is in the FIFO are what was due, if the pipe was not spoilt; `Ended`, that it
has read everything when it ends. `Flags` ties each flag to the receiver's
descriptor and each FIFO to what is due, while the child is on its way
(`Coming`), between commands, and while a receiver reads (`Reading`). `NewRow`
and `Unread` say that a new user meets neither flags nor what an earlier one
left. A command that is killed leaves its FIFO spoilt.

`NoStandstill` is the safety part of `Returns`. `NeverStuck` says of a session
that runs a command that its child, a handler or the session itself has
something to do (`CanGoOn`), but for four cases (`Excused`): the FIFO is full
(`Brimming`); the receiver's session has ended without `logout`; a handler, the
receiver's or its own, is in an `open` that waits for another sender; or the
command reads the FIFO that it writes. `KInv` adds that a child's receiver has a
row (`Addressed`), that a receiver that was called has the FIFO, or a signal
pending, or is in its handler (`Called`), that nobody is called while the line
is announced (`Uncalled`), and that no FIFO holds more than it can (`Small`).
Looking for that proof is how the last two cases were found, and that `sender`
has to be compared with the files there are.

Four more theorems named `NoStandstill` are the safety parts of `PromptReturns`,
`ServerReturns`, `Relayed` with `Answered`, and `PageEnds`: in every reachable
state in which somebody waits, a step that brings him on is possible, or one of
the cases holds that the theorem names. The guards that these theorems are
stated with are those of actions; what is left to fairness is that
such steps are taken and cannot go on for ever.

* The shells (`NpShell_proofs`, `RwgSinglePipes_proofs`). Every child inherits
  every pipe that is open, so a reader's end of file may depend on children that
  have nothing to do with it. `Delays(w, r)` says that `w` has a copy of the
  write end `r` waits on; `Ordered`, that some rank puts such a `w` before `r`.
  A child takes the next rank when it is forked: the shell has closed by then
  the write ends of whatever earlier children read, so that it delays none of
  them. The least child then waits for no one (`NoCircle`, which covers circles of any length,
  where `EofIsReachable` speaks of one and two). Excepted are, for `np_single_proc`, half a line (`HalfLine`), and a child at a full
  pipe that somebody can read (`Clogged`) and one that reads the keyboard or its
  user's socket. `Clogged` cannot be left out: children inherit read ends too,
  so a writer may be held up by a pipe whose reader has ended while another
  child still has a copy of that end, or, as in the finding on `npshell.cpp:20`,
  by one that only the shell's next line will read. For `np_single_proc`, `Scanning` adds that what `select` reported
  is there to be served. The theorems assume that there is a process to be had
  (`Pid # {}`), and they do not count pipes: the loop goes on when it has a
  process.
* `SocksSession_proofs`: what was sent and not received is in one of three
  places, and each has a handler or a read that empties it, or the receiver has
  left, or there is a reset; `Joins` says which sockets are there when.
* `WebServer_proofs`: `Attached` says that what the server has is what it reads
  from or what a program of `cgi_server` answers to. The one who waits is served
  by the server, by his own read, or by a program that keeps his connection,
  unless all of those that do are consoles.

`WebServer_proofs` proves `TypeOK`, `WholeAnswer` and `NoMutualHold` for any
number of browsers and any answers. `NoMutualHold` rests on `Holders`: whoever
has a copy of a connection runs, and its own connection is no longer in the
server, so that a later fork cannot copy it. `WholeAnswer` rests on `Partial`
(half an answer is being written, or its browser has left) and on `Answering`
(what runs has its connection, which therefore has not ended); `Reading` says
that the server has what it reads from.

`NpSimple_proofs` proves `TypeOK` and `Collected` for any number of users; with
the types, `Collected` is inductive, since every session's end raises the
signal and the reaper returns only when none is left.

`Console_proofs` proves `TypeOK`, `LinesInOrder`, `OneLinePerPrompt` and
`EchoBeforeResult` for every number of shells, every script and whatever users
chat, for both programs. Its invariant counts. Per shell (`Local`), the lines
sent or armed to be sent and the prompt that is in the buffer, if there is one,
are covered by the prompts that the shell has said and the console has met
(`Paid`); the shell says one prompt for each line it takes, and one before
(`Turns`); the line that waits has at most one newline, and none once it was
shown (`Clean`, which the code leaves to `erase`); nothing is read after `exit`
(`Stops`). As long as no timer was armed twice, `InStep` says where
each line is on its way: what was typed is the script as far as it was read
(`Script`), the shell took whole lines of it (`Took`), and what it took is on the
page or its handler is ready (`Echoed`). For `cgi_server`, whose writes to the
browser may have to wait, `Placed` looks for the echo in front of the output in
the queue of writes as well. `TypeOK` itself needs to know that the line that
`do_write` takes the first character of is there (`MsgHeld`). The proof of
`OneLinePerPrompt` showed that it has to except a shell that has closed: a write
to it fails, and the newline that its handler would have taken out of the line
stays there.

Only model-checked: liveness (`PromptReturns`, `ServerReturns`, `Relayed`,
`Answered`, `Returns`, `NextServed`, `ScriptSent`, `PageEnds`), which TLAPS
cannot treat under fairness. That nobody stands still is proved for all of them
but `NextServed` and `ScriptSent`. All invariants and step properties that the
passing runs check are proved.

## Not modelled, and why

* The text of messages, `regex` matching and the wording of `parseLine`: lines
  are values. Descriptor exhaustion: there are as many pipes as needed.
* `np_single_proc`: clients that vanish without `exit` (the server's next
  prompt to them raises SIGPIPE and ends it) and a 31st client; the project's
  specification rules both out (4.3, 5.1). Type-ahead: `fdopen` and `getline`
  for each line, without `fclose`, swallow what came with it in the same read.
* `np_multi_proc`: a session's other children and their reaping, the server's
  shutdown by SIGINT, user pipes to numbers past the table, users that vanish
  without `exit`. Writing a message is one step: the second half of one that is
  appended (line 380) and torn prints of a message that is being overwritten
  stay out. The name of a FIFO takes 21 bytes and more in buffers of 20 (lines
  139, 346, 366). `kill` of a receiver that has left (line 485, -1: every process)
  needs users whose commands overlap, which section 5 item 7 excludes. `fork` is
  taken to succeed in the end. Commands do not read the keyboard (project 1,
  section 3.1 item 4).
* `socks_server`: the accepting parent (`fork` and its retry, the acceptor that
  the child goes on using), requests that arrive in pieces, the bytes of the
  packet, patterns in `socks.conf` (a rule is a set of permitted addresses).
* `console.cpp` of project 3 as committed does not compile: the lambda in
  `do_print` captures `self`, which that function does not declare. It is
  modelled as if it did, as the other two copies of the class do.
* Consoles and web servers: the query string (more than five servers, empty
  values) and the page's text; a request that arrives in pieces; a program that
  cannot be executed, which leaves a second server in the child; what is in
  standard output's buffer at a fork.
* `np_simple`: what a line does to pipes, which `NpShell` models.
* The filters (`noop`, `number`, `removetag`, `removetag0`) are loops over lines
  without state; the shells' models take them as programs with an output size.

## Plan

1. `NpShell`, `Registry`, `RwgSingle`, `RwgMulti`, `SocksSession`, `Console`,
   `WebServer` and `NpSimple`, with proofs of every invariant the passing runs
   check: done.
2. An invariant that says who can take the next step: done for all liveness
   properties but `ScriptSent` of `Console` and `NextServed` of `NpSimple`.
3. The accepting parent of `socks_server`.
4. `parseLine` as an operator checked against a grammar.
