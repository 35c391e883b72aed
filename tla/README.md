# Evented_Server: models, checks and proofs

Evented_Server is an HTTP/1.0 server on libevent: one thread, one callback at a
time, static files from disk, and dynamic pages from CGI programs (`make cgi`)
or from shared libraries (`make so`). This directory models the server, from the
command line to the end of the process and from the text of a request to the
last byte of its answer, and model-checks it on small instances with TLC. With
TLAPS it proves, for every value of the constants, every safety property that
the runs check: of the reactor, of the process's life, of the configuration and
the parsers, of the page writer; and that the reactor implements an abstract
specification of what a client is promised. Paths below are relative to `src/`.

## 1. The system

| Part | State | Operations | What makes it correct |
|---|---|---|---|
| Reactor, `src/server.cpp` | listening socket, `isCgi` | `accept_callback`, `client_read_callback`, `client_write_callback`, `client_error_callback`; `close_parent_fd` (dead: nobody writes the control pipe) | each accepted connection has one proxy; each proxy is deleted once, after its answer |
| `ClientProxy`, `src/client_proxy.*` | `client_fd`, `finished`, `first_time`, `loader`, `file_event`, `buf_event` | constructor, `bad_request`, `load_static_content`, `file_write_callback`, `http_*`, destructor | the destructor releases what the object registered and nothing else; one status line, blocks in order |
| `ContentLoader`, `src/content_loader.*` | `fd`, `auto_close` | open, `read` (closes on a short read), `can_read`, destructor | the file is closed exactly once |
| CGI gateway, `src/cgi_client_proxy.cpp`, `scripts/cgi_hello.cpp` | child processes | fork, dup2, exec; the program writes and ends | the child answers on the client's socket while the server drops the proxy; children do not add up |
| Library gateway, `src/so_client_proxy.cpp`, `scripts/hello.cpp` | `libs` cache, threads | dlopen/dlsym once, `write_to(dup(fd))`, thread writes and closes | the thread's number is its own until it closes it |
| Request parsing, `src/request.cpp` | none | `parse_url`; `parse_request` (not called yet) | path and query are what the line says, and nothing beyond it |
| Configuration, `src/config.cpp` | type sets and map | the constructor, `load_files`, `get_file_type`, `get_result_type` | an extension is static, CGI or invalid |
| Start-up and shutdown, `src/eva.cpp`, `src/util.cpp`, `src/server.cpp:23-60` | `server`, listening socket | arguments, SIGINT, bind, listen, loop exit | starts with the documented arguments, listens while it runs, stops when told, can start again |
| Log, build files, `cgi/eva.cpp`, `cgi/Makefile`, `cgi/vim.rc` | none | | |

**Interactions.** `main` builds `Config` and `HttpServer`; libevent calls the
reactor; the callbacks own `ClientProxy` objects through a raw `void*`. Proxies,
loaders, threads and libevent share one thing that none of them owns: the
process's table of descriptor *numbers*. `close()` frees a number at once,
libevent forgets it only at `event_del`, a CGI child keeps a copy of every
socket (the listening one too), a thread keeps a dup. Most of what can go wrong
is about the time between two of these.

**Hard behaviours.** Deletion of a proxy from three callbacks; reuse of a
number between `close` and `event_del`; a file event that outlives its file; a
line in several segments or several lines on one connection; `open`, `accept`,
`dup`, `fork`, `pthread_create`, `bind` or `event_add` failing; exceptions that
nobody catches and signals that nobody ignores, which end the process with
everybody's answers; clients that
half-close, reset or read slowly; threads and children that finish after the
proxy or after the server; a signal between any two steps. The complete list,
line by line, with the properties that cover each, is in `PROJECT.json` under
"hazards".

## 2. The modules

| Module | Models |
|---|---|
| `Descriptors` | the descriptor table and libevent's events per number (external) |
| `EventedServer` | the reactor's callbacks, both gateways, the clients |
| `HttpExchange` | what a client is promised: the abstract specification |
| `ServerExchange` | the refinement mapping from `EventedServer` to it |
| `Lifecycle` | main, the listening socket, SIGINT, children, restarts |
| `Text`, `FileTypes` | ranges and searches as the C++ library does them; `get_file_type` |
| `Config` | the configuration's constructor and queries |
| `RequestLine` | extends `Config`: the configuration is loaded, then a line is parsed (`parse_url`) and given its outcome by `client_read_callback` |
| `QueryString` | `parse_request` |
| `PageWriter` | the program that writes a dynamic page, a library's thread or a CGI child (`kind`) |
| `EventedServerProofs`, `ServedProofs`, `ServerExchangeProofs`, `LifecycleProofs`, `PageWriterProofs`, `RequestLineProofs` (with `Config`'s), `QueryStringProofs` | theorems and proofs |
| `TextProofs` | lemmas about searches in texts and parts of them |
| `MC...` | instances for TLC |

The definitions commented "Mutant" are forms of a definition with a plausible
bug; they are used to show that each property can fail.

**Descriptors** (external: POSIX and libevent as the callbacks use them). `desc`
says what each number names, `reg` which read events libevent has on which
number, `armed` which numbers the kernel really watches. The three can disagree:
`Close` empties `desc` and `armed` and leaves `reg`; `EventAdd` asks the kernel
only for the first event on a number; on epoll it refuses regular files. This
was compared with libevent 2.1 on epoll; for kqueue it follows the kernel's
rules (a closed descriptor loses its filters, a file is readable while its
offset is short of its end).

**EventedServer.** One action per callback, gateway step and client step.

| Variable | Code |
|---|---|
| `os` | the tables above |
| `proxy[c]` | the `ClientProxy` of connection `c` and its bufferevent: `fd` = `client_fd`, `finished`, `first` = `first_time`, `loader` (its number), `loads` (how many loaders were created; names the current `file_event`), `input` and `out` = the bufferevent's buffers, `lost` = what `out` still held when the proxy was deleted (a record for `DropsAccounted`; no action reads it) |
| `link[c]` | the connection outside the process: what the client will send (`segs`), what has arrived (`sock`), what was delivered (`stream`), whether it half-closed or reset (`peer`), the size of the file it names (`size`) |
| `job[c]` | the child or thread that answers: `held` are the sockets a child inherited, `fd` a thread's dup |
| `server` | `"up"`, or how the process ended: `"sigpipe"`; `"thrown"` (`exists()` throws, `server.cpp:113`); `"overrun"` (`parse_url`'s scan leaves the line's memory, `request.cpp:51`); `"nullcall"` (a library without `write_to`); `"freed"` and `"stray"` mark undefined behaviour (a callback on a deleted proxy; a read through a number that is not the loader's file). Then the model stops: what orphans still do is `Lifecycle`'s |

| Action | Code |
|---|---|
| `AcceptCallback` | `server.cpp:63-86`; no free number: nothing changes |
| `ReadCallback` | `server.cpp:88-139` with `bad_request`, `load_resource` and the `can_close` test: refusal, static load, unreadable file, CGI, library, and the lines that end the process (`Fatal`) |
| `FileWriteCallback` | `client_proxy.cpp:73-96` with `ContentLoader::read` and `can_read`; it reads the *current* loader, as the code does |
| `WriteCallback` | the bufferevent's writes and `server.cpp:158-164` when the output is drained |
| `ErrorCallback` | `server.cpp:152-156` |
| `Release`, `Destroy` | `client_proxy.cpp:12-26`: close, free the bufferevent, delete loader (which closes nothing: `is_valid()` is `fd == -1`), delete the current `file_event` |
| `LoadCgi`, `LoadSo` | fork and exec, or dup and thread, and the deletion of the proxy; when fork fails or the library answers false, the refusal is queued first and goes with the proxy (`server.cpp:131-136`); a dup whose thread did not start, or that such a library was given, is never closed |
| `JobWrite`, `JobExit` | the gateway program, its writing as one step (`scripts/hello.cpp:14-28`; `PageWriter` has the steps) |
| `Crash` | SIGPIPE, and the two kinds of undefined behaviour |
| `Connect`, `Send`, `Leave` | clients |

A request line is one of ten outcomes (`Line`): a part without its end, a line
`parse_url` rejects, a path that is no file, a type that is not configured, a
static file, one `open` fails on, a gateway program, one that cannot be run, a
path on which `exists()` throws, a line whose scan leaves its memory.
`RequestLine` shows which line has which outcome. The size of a file does not
change while it is served. Bytes are abstracted to status
lines, chunks (the offset they reach), a program's page (whole or cut), and its
complaint when exec fails.

**HttpExchange** has neither descriptors nor events nor processes: a client asks
for one thing, receives beginnings of an answer to it, and its connection ends
when the answer is whole, when it left, or when a program was to answer; or the
server as a whole goes down (`Fail`), which takes a reset or a line that is
`Lethal`, and connections end wherever their answers are. `ServerExchange` maps
`stream` to the answer, the first line of the first segment to the question, and
"no process has the socket open any more" to the end (`Over`): once the server is
down, its own descriptors are closed and only a child's copies are left.

**Lifecycle.** `phase` is where the process is: `main` (handler installed),
`made` (server constructed), `opened`, then the loop: `turn` (look for active
events), `enter` (committed to wait), `poll` (waiting), `left`. `object` is what
`eva.cpp`'s pointer names, which `delete` does not reset; `holders` are the
processes that have the listening socket open (`PortFree`: nobody has, and no
connection is open on this side or lingers); `watched` says whether the loop's
poll still reports it; `conn` follows each client through the queue, the server
or a child, to the lingering of its closed connection; `child` are the places in
the process table. `Interrupt` may come between any two steps. `Die` is every
end of the process: it leaves children behind with all they inherited, and the
next `Start` meets them.

**The parsers.** Texts are sequences of characters (`"GET"`, with its space, and
`"HTTP"` count as one); the C++ iterators are positions, half-open ranges as in
the code; a turn of a loop is a step. `RequestLine` keeps the memory behind the line,
because `parse_url`'s scan does not stop at its end, and joins the directory and
the path as `operator/=` does (`Join`). `Unreachable` are the names on which
`exists()` throws. `Config` looks a content type up as `tree.get` does: a dot in
a listed type separates sections (`HasKey`). `QueryString` knows the character
behind its text (`Behind`), which `parse_request` reads. Each is checked against a
definition of the result that does not follow the code: `Words` of a list,
`EndsIn` of a name, `Pieces` of a query, `Target` of a line.

**PageWriter.** A writer that never waits (its descriptor shares `O_NONBLOCK`
with the server's), a socket with room for some bytes, a client that reads when
it likes. `Write` ignores what `write` returns, `Put` is a line put into `cout`,
whose flush fails for good at the first loss.

## 3. What is checked

| Property | Says |
|---|---|
| `SocketOwned` | live proxies and open sockets correspond one to one |
| `DupOwned` | a thread's number names its own client's dup until it is closed |
| `WatchSound` | a watched number names what its event was registered for |
| `EventsOwned` | up to the first load, a connection's events belong to its live proxy and its current loader |
| `FaultNeedsSecondLoad` | undefined behaviour in the reactor takes a connection that loads a second file |
| `StaysUp` | with no reset, one segment per client and no line among them that ends the process by itself (`Lethal`), the process stays up |
| `FinishedDrains` | a finished proxy that loaded one file at most has output queued, so it will be deleted |
| `OpenFileAccounted` | an open file is the one its live proxy reads, or its client left or sent a second segment |
| `LiveConnPolled` | on epoll every live connection is watched |
| `DropsAccounted` | a client that stays and sent one segment loses queued output only if that is the refusal for a program that could not be started |
| `KeepsPromise` | the refinement: `EventedServer`, the end of its process included, implements `HttpExchange` |
| `RequestsSettle` | a line that arrived leads to the deletion of its proxy, or to a proxy that waits for good for one of five causes (`Starved`): its socket or its file is not watched (`Unwatched`), the file could not be opened, epoll refused it, or it was read to its end by whole blocks (`Unfed`) |
| `DeletedConnEnds` | the client of a deleted proxy sees the end of its connection |
| `BacklogServed` | if no connection lasts for ever, who connects is accepted in the end |
| `RequestsEnd`, `LoaderClosesFile` | what the documentation and the destructor intend; only in the runs that refute them |
| `ListensUnlessInterrupted` | a server in its loop holds and watches its listening socket |
| `PortFreed`, `QueueServed` | no port and no queued connection is held for ever by what an ended server leaves behind |
| `InterruptedLoopEnds` | a server interrupted in its loop ends, or waits and serves nothing ever after |
| `LoadedExactly`, `TypedByEnding`, `Settles` | a configuration is loaded as its lists say, and refused only if a list is missing or a static type's content type is not found; a file is typed by its ending; the constructor ends |
| `RefusedUnlessRequest`, `AnsweredByFile`, `Answers` | a well-formed line gets the outcome of the file its target names and of the type the configuration's text gives it, whatever is in memory behind the line; it ends the server exactly if `exists()` throws at the name |
| `FirstOfEachKey`, `AcceptsWellFormed`, `Ends` | `parse_request` keeps the first value of each key, refuses what lacks a key or a value, and ends |
| `OnceInOrder`, `ChildWritesPrefix`, `BeginsWhole`, `WriterEnds` | bytes of a page arrive once and in order; a child's are a beginning; what fits the socket is safe; a client cannot hold the writer |

Each module has one `TypeOK` besides, which also states the relations its shape
has (`Lifecycle`: the pointer names an object exactly from construction to the
end; `QueryString`: a key occurs once).

| Run | Instance | Shows |
|---|---|---|
| `kqueue_cgi` | 2 clients, 3 numbers, every one-segment request, the fatal ones included, some with header lines, sizes 0, 2, 3 with blocks of 2, half-closes and resets | ownership, the process staying up or ending, and `HttpExchange`, with the table full |
| `kqueue_pipelined` | 2 clients, 4 numbers, several lines in one or more segments, resets | which events can dangle; reaches both kinds of undefined behaviour |
| `epoll_segments` | 2 clients, 2 numbers, split and repeated requests, programs and files, half-closes and resets, fairness | connections stay watched over reuse of numbers; what drops an answer; requests, connections and waits in the backlog end |
| `kqueue_threads` | 2 clients, 4 numbers, library mode, files, pages and a library that cannot be called, fairness | threads and readers do not disturb each other; `HttpExchange`; requests and connections end |
| `lifecycle` | 2 clients, 2 processes, 5 command lines, fairness | start, interrupt, death and restart in every order |
| `request_line` | every pair of lists of up to 4 characters, missing sections and keys, types with dots, names of up to 3 characters, every line of up to 4 characters after the method, and lines with queries over ten names (one that is too long, some with a leading slash), before five rests of memory | from the configuration's text and the line to the outcome |
| `query_string` | every text of up to 4 characters, every three pieces of nine kinds | `parse_request` |
| `page_writer` | 6 pieces of 2 bytes, room for 5, thread and child | pages and slow clients |

**Bounds.** Two clients are enough for every interference the code has: it is
always one owner of a number and the next. Two numbers are full with two
sockets, or a socket and a file (`open` and `accept` fail); three make two
sockets and one file fill it; four let both clients have a file or dup. With
blocks of two, size 0 is never reported readable, 2 is a whole block, 3 needs a
second, short read. At most two segments are sent, of at most two lines, which
loads up to two files on one connection. In `Lifecycle` two processes and two
clients let one child run, another be a zombie or an orphan, and fork fail. Four
characters hold two words with two spaces between them, a query with two
separators; the names among the longer lines have two dots. A room of five bytes
for pieces of two lets a piece fit, fit in part, or not at all. Safety runs of
`EventedServer` use symmetry on clients, runs with liveness do not. Deadlock is
not checked where the system rests: when all clients are served or idle, when
the process has ended, when a parser is done; it is checked in `lifecycle`,
where a server can always be started again.

**Fairness.** In `EventedServer`, weak fairness on every callback, because
`event_dispatch` runs all active callbacks of an iteration before it polls again
and a condition that stays true stays reported; and on the gateway programs,
which are assumed to terminate. Nothing is assumed of clients, who may never
connect, send or leave; `BacklogServed` says itself what it needs of them, since
no timeout ends a silent one. In `Lifecycle`, weak fairness on the steps of a
running process, on the end of children and on the kernel's timer, and strong
fairness on `Accept`: other events end the wait in between, but a ready
listening socket is reported by each poll. Nobody need start or interrupt a
server. The parsers and the page writer just run.

**Disagreements with the documentation or with the code's own intention** (runs
expected to end in a violation):

| Run | Shows | Source |
|---|---|---|
| `epoll_static` | on epoll, which the README names for Ubuntu, `event_add` on a disk file fails and is ignored: a static request is never answered | observed on a Linux build |
| `kqueue_two_files` | two concurrent static requests: the second file may get the number that the first closed but still has registered, and is never read | from the rules in `Descriptors` |
| `kqueue_whole_blocks` | a file whose size is a multiple of a full read is sent, and its connection never closed | from the rules in `Descriptors` |
| `loader_leak` | `~ContentLoader` means to close the file and never does; a client that leaves early leaks it | observed |

The first three, and a file that `open` refuses, are the causes that `Starved`
tests; `RequestsSettle` says that there is no other, for requests of every kind:
with a `can_read` that were always true, it fails.

Other behaviour that the models contain, without a run of its own:

* one request whose name is over 255 bytes, or leads through a directory that
  may not be searched, ends the server: `exists()` throws (`server.cpp:113`), and
  nobody catches it; so does a connection that its client resets at the wrong
  moment (SIGPIPE), and a library without `write_to`. All other answers end with
  it, which is the `Fail` of `HttpExchange`;
* the refusal for a failed fork, or for a library that answers false, is queued
  and then deleted before it is sent (`server.cpp:132-136`; `DropsAccounted`);
  children that ended are never waited for, until fork
  fails (`cgi_client_proxy.cpp:14`);
* a configuration file without a mode, which the usage allows, ends the process
  (`eva.cpp:33`, observed); a number above 65535 is no invalid port, and another
  port is listened on (`util.cpp:33`, observed; the models have no arithmetic on
  ports);
* an interrupt before the loop, or just before it waits, leaves a process that
  does not serve and does not end (start-up case observed):
  `InterruptedLoopEnds` states what remains;
* a static type that is listed with a dot in it ("tar.gz") keeps the server from
  starting, even if its key is there, because `tree.get` takes the dot as the end
  of a section's name (`config.cpp:24`); only a dot at the type's end is passed
  over. A CGI type with a dot matches no file, because a name's type is what
  follows its last dot (`config.cpp:44-52`);
* an empty parameter, which a comment passes over (`request.cpp:22`), makes
  `parse_request` refuse; `parse_url` reads past the end of a line without a
  second space, in spite of "check the size" (`request.cpp:58`), so that
  `RefusedUnlessRequest` speaks of lines that are requests only.

## 4. What is proved

From `DescriptorsAssumption` and `ServerAssumption` only, so for any sets of
connections and numbers, any scripts, sizes and departures, both modes and both
kernel interfaces:

| Module | Theorems |
|---|---|
| `EventedServerProofs` | `Invariance`, and from it `TypeCorrect`, `SocketsOwned`, `DupsOwned`, `WatchesSound`, `NoEventLeftBehind`, `FaultsNeedSecondLoad` |
| | `ServerStaysUp` |
| `ServedProofs` | `FinishedHasOutput`, `LivePolled`, `FilesAccounted`, `OnlyRefusalsDropped` (an action property) |
| `ServerExchangeProofs` | `PromiseKept`: the refinement, for scripts of one segment |

From `ConfigAssumption`, `RequestLineAssumption` and `TerminatorAssumption`, for
configurations, names, lines and rests of memory of any length,
`RequestLineProofs` proves `ListsLoaded`, `EndingDecides`, `RequestTyped`,
`RequestsAccepted` and `FileAnswers`. The assumptions say that a line has no
terminator in it (it is the C string `header`, so that what follows a NUL that a
client sent belongs to the rest of memory); that `get_directory()` has neither
a terminator, a dot nor a slash, which is so for the two names it can return
(`cgi_client_proxy.h:9`, `so_client_proxy.h:12`); that `exists()` throws at no
regular file's name; that no key is empty; and that the terminator and the slash
are characters, which holds by TLA+'s semantics but by no rule of the provers.
From `QueryAssumption` (no '&' lies behind the text; nobody calls
`parse_request`, and a C string has its NUL there), for texts of any length, `QueryStringProofs` proves
`QueryTyped`, `FirstValueKept` and `AcceptedIffWellFormed`.

From `WriterAssumption`, for pages, pieces and sockets of any size,
`PageWriterProofs` proves `WriterTyped`, `BytesInOrder`, `ChildHasNoHole` and
`FitsArrivesWhole`. From `LifecycleAssumption`, for any clients, processes and
command lines with one port, `LifecycleProofs` proves `Typed` and `Listens`.

**`Inv`.** The first six theorems follow from one inductive invariant. None of
its parts is inductive alone: a thread's close must hit a dup and not a socket
(`SocketOwned` needs `DupOwned`); a job must not be replaced while its dup is
open (`Bookkeeping`: jobs follow deletion); a number that is handed out is not
watched (`WatchSound` of what it named before); and that a callback goes wrong
only after a second load needs `EventsOwned` (the event's proxy is alive, its
number is the loader's) together with `WatchSound` (that number still names the
file). A callback makes several changes that must not disturb each other. So the
invariant is restated over any tables (`Consistent`), with one lemma per change
(`AcceptConsistent`, `DestroyConsistent`, `LoadConsistent`, `FileConsistent`,
`DupConsistent`, `JobConsistent`, `ExitConsistent`); each action's lemma chains
the changes of its callback. The module begins with what the table's operations
return.

**`ServerStaysUp`** adds to `Inv` that a connection whose script has one segment
loads at most one file (a load takes a segment that has arrived, and after the
first there is none), that SIGPIPE takes a reset, and that what a line ends the
process by was sent (`UpInv`, `UpAlways`). With these, `FaultNeedsSecondLoad`
excludes both kinds of undefined behaviour.

**`ServedProofs`** states once what each callback does to the connection it runs
for (`AcceptEffect`, `ReadEffect`, `WriteEffect`, ...) and that it leaves every
other connection, and every number of theirs, alone (`OthersKept`, `OnlyMine`).
`FinishedDrains` is then inductive with `Inv`: a proxy is finished by a refusal,
which queues two items, or by a last block, which is not empty because only
files with bytes left are reported. `LivePolled` needs `Watched`: on epoll the
events are exactly those of the open sockets, so that no number is handed out
with an event on it.

**`FirstSegment`** is the invariant behind `FilesAccounted` and
`OnlyRefusalsDropped`:
until the first segment is read, the proxy is as constructed and no file is
open; afterwards, while there is no second one, an open file of a client that
stays is the loader's of a proxy that is not finished. So nothing is read twice,
and a proxy is deleted by its last write, or with nothing queued but the refusal
of `LoadCgi` or `LoadSo` (`RefusalOf`, `RefusalQueued`).

**`PromiseKept`** simulates `HttpExchange`. Its invariant `Answers` gives each
connection a phase (`Waiting`; then `Refused`, `Reading`, `Sent` or `Idle`;
`Closed`) in which what was delivered and what is still queued together are a
determined part of the answer: for `Reading`, the blocks up to the place the
file's offset says. Each callback moves its connection along the phases and
others not (`AnswerFrame`); a delivered part of such a whole begins the answer
(`PrefixBegins`); and in `Closed` a CGI program that is still to write holds the
socket, or a thread its dup, so that nothing is delivered after the end
(`JobWriteServing`, `EndedStays`). A step that ends the process changes neither
questions nor answers (`FallsOnly`) and is a `Fail`: it has a reset, or a line of
`Lethal` that was asked, behind it (`FallMaps`, from `UpInv`). That the promise's question is the line the
callback takes out needs that a line is taken in one way (`OneTaken`, from the
least element of a set of naturals). The hypothesis `OneScript` is needed: with
a second segment the code overwrites loaders and drops answers.

**`WriterInv`** has, beside the shape: the bytes that were taken are among the
written ones and increasing; up to the room's size there is no hole; and while
the client stays, a hole comes only behind a socket that was full (`Complete`).
The last is what makes the third inductive: a piece that finds room after a loss
lies beyond what is claimed.

**`Listens`** needs that the pointer follows the phase, that the socket is open
from `OpenSocket` on while nobody deleted the server, and that `EnterLoop`
watches it; a child's end removes the child from `holders` and nobody else.

**The searches.** `Find` and `FindAfterLast` are `CHOOSE`s. `TextProofs` shows
that they find a first and a last place (`FindFacts`, `FindAfterLastFacts`, from
the least element of a set of naturals), that the stretches between separators
do not overlap (`StretchOrder`), and that a text is the join of its parts around
a place and of no others (`CutAround`). The loops are steps of the models, so
that what they compute is an invariant and needs no induction over texts.

**`ConfigInv`** has at its centre `LoadedTo`: the words loaded so far are those
that begin before the loop's place, and that place begins a word. A turn adds the
word that begins there, and the last one leaves none (`LoadTurn`); an empty list
still gives the empty word (`LoadedNone`). `EndingDecides` adds that the search
from the end finds exactly the ending that `EndsIn` speaks of (`EndsInFacts`).
What `tree.get` finds is what `Findable` says can be found (`KeyFindable`).

**`RequestInv`** adds to it that memory is the line, its terminator and a rest
(`Placed`), that there was no space before the pointer (`Scanned`), that a
request is cut at a space before the protocol (`Cut`), and that its outcome is
the file's (`Resolved`). A request has its first space within the line, so the
scan stops there (`ScanMeetsSpace`), where the protocol follows, so it is not
refused; a cut within the line frames a target (`CutInLine`), because the
terminator is no protocol. For `FileAnswers`, the parts around the first '?' join
to the target (`TargetParts`), the name has no terminator (`WholeName`), and a
directory without a dot, with its slash or without (`JoinedTo`), does not change
the name's ending (`EndingBehind`).

**`QueryInv`** has `FirstOfEachKey` itself, that the loop is at the beginning of
a piece (`AtPiece`) or has not seen the '?' (`BeforeMark`), that all pieces
passed are well formed (`PassedWell`), and what the verdict was given for
(`Verdict`). That the next piece is not among those passed, and that nothing lies
between, is `StretchOrder`.

**Only model-checked:** all liveness, which is out of the prover's reach.
`HttpExchange` for clients of more than one segment is not claimed at all.

## 5. What is not modelled, and why

* `cgi/eva.cpp` repeats an old eight-line `main` 336 times. `cgi/Makefile` has a
  rule for it, but the other objects of that rule (`evhttp_server.o`,
  `socket_util.o`, ...) have no source in the repository, so that it cannot be
  linked; it has no state or callers. It is three quarters of the repository's lines,
  so that a model of everything else still covers less than a third of them.
* The map of loaded libraries: `LoadSo` calls the library's writer whether it was
  loaded before or not. A null entry is called right after it is inserted, which
  ends the process, and nothing is ever removed, so that no later request sees a
  difference, unless a library is replaced on disk, which the server never
  notices.
* `close_parent_fd`: its only writer is commented out.
* The poll and select backends; the README names epoll and kqueue.
* A file that is truncated or grows while it is served: sizes are constant.
* `accept()` failing in `Lifecycle`: `EventedServer` has it.
* On epoll, the kernel's own registration of a socket that was closed while a
  CGI child still holds it: it makes the loop spin while the client sends, but
  reports nothing that a callback acts on.
* Which other port or mode a deleted server yields when `run` reads it
  (`Lifecycle` lets bind fail, or either mode be chosen), and memory in general
  other than proxies, events and the text behind a line; log output; build files;
  `cgi/vim.rc`.
* After undefined behaviour the process could do anything; the model stops.

## 6. What is left

The models cover the code that is built, and every invariant and the refinement
are proved. What could still be added: a promise to clients of several segments,
weak enough to be kept.
