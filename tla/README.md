# Network programs: a verification project

TLA+ modules, model-checking configurations and machine-checked proofs for the sample programs of
this repository: echo servers in a dozen process architectures, line readers, timeouts, telnet and
line clients, datagrams, TLS, a web server. Each program is small and complete in itself; what is
hard about them is what surrounds a system call: which descriptor it was, how old the information
it acts on is, who else may come in between, and what is left when it fails.

How to run: `tlc -config Server9Early.cfg Server9.tla` (the table of runs names the module and
the configuration of each), `tlapm Server9Proofs.tla` for a module with proofs.

## 1. The system and its parts

Every program is a process of its own, and meets the others only over sockets.

| Part | Source | State it keeps | Operations | Hard because of | Modelled in |
|---|---|---|---|---|---|
| server9 | `chapter05/server9.c` | `count`, epoll set, a ring (`front`, `last`, `data`) per sending thread | accept, receive into a ring, send from it | two kinds of threads and a kernel reusing descriptor numbers; rings without a test for "full"; slots used outside the mutex; condition variables | `Server9` |
| server2, 3, 4 | `chapter05/server2.c` .. `server4.c` | `child[]`, `child_no`, the mask / `targets[]` / `events[]`, `count` | wait, accept into a free slot, receive and reply, close | what `select`, `poll` or `epoll_wait` reported is older than what was closed and accepted since; tables with holes | `Server2` `Server3` `Server4` |
| server-libevent | `chpater12/server-libevent.c` | registered and active events | two handlers, `SIGINT` | handlers that go on after a failed `accept()` or `malloc()` | `ServerLibevent` |
| server5, 6 | `chapter05/server5.c`, `server6.c` | a child process / thread per connection; zombies, the pending `SIGCHLD` | accept, fork / create, converse, reap | coalesced signals; a handler that calls a blocking `wait()`; failing fork and create | `Server5` `Server6` |
| server7, 8 | `chapter05/server7.c`, `server8.c` | preforked processes / prestarted threads, one lock, `g_lock_id` | lock, accept, unlock, converse | the lock around a blocking call; a worker that dies; a variable read without the lock | `Server7` `Server8` |
| server, server1, server-afindepend | `chapter01/`, `chapter03/`, `chpater12/` | one conversation; several listening sockets, a mask | accept, converse, close | a mask older than the conversation; a `switch` without `case -1:` | `Sequential` |
| re-exec | `chapter03/re-exec.c` | the same, the pending `SIGHUP` and the signal mask | restart itself in the handler | the moment of the signal; what `execve()` hands on | `ReExec` |
| ssl-server | `chapter11/ssl-server.c` | the same, a TLS session | handshake, conversation, shutdown | two ways a session ends | `SslServer` |
| testclient | `chapter05/testclient.c` | worker threads, their flags | connect, send, receive, compare | its main thread trusts flags | its conversations: `EchoClients` |
| oneline, oneline1 | `chapter06/oneline.c`, `oneline1.c` | a fixed or growing buffer; one buffer per descriptor | receive byte by byte, reply by line | lines that end exactly at a buffer's end; descriptors used again with their buffers | `Oneline` `Oneline1` |
| timeout | `chapter06/timeout.c` | the mode, the start time or what is left of the timer | six ways to receive with a timeout | whole seconds, interrupted waits, an uninitialised variable | `Timeout` |
| client-timeout | `chapter04/client-timeout.c` | a connecting socket | non-blocking `connect()`, then the loop of client | the timeout races the answer | `ConnectTimeout` `LineClient` |
| bigserver, bigclient | `chapter06/` | counts of bytes | one large transfer | partial sends, `EAGAIN` | `BigTransfer` |
| telnet1 to 3 | `chapter05/telnet1.c` .. `telnet3.c` | `g_end`, `errno`, the terminal's mode | wait for socket or keyboard, take a character or a command | commands in pieces; `errno` left by an earlier call; signals between a test and a call | `Telnet` |
| telnet4, 5 | `chapter05/telnet4.c`, `telnet5.c` | the same, of two processes / threads that end each other by `SIGTERM` | receive; read the keyboard and send | a signal that comes just before the call it should interrupt; who restores the terminal | `TelnetPair` |
| client, client-2, ssl-client | `chapter01/client.c`, `chpater12/client-2.c`, `chapter11/ssl-client.c` | what stdio has read ahead; a TLS session | select, receive, read a line, send | `select()` on a descriptor that stdio reads in blocks | `LineClient` |
| UDP programs | `chapter09/`, `chapter10/u-server-b.c` | one socket, its buffer and the last sender's address | send a line, receive a datagram and answer it | loss, order, duplicates; errors of earlier sends reported by `recvfrom()`; servers that hear each other | `Datagrams` |
| httpd2 | `httpd/httpd2.c` | a request being read, the response; child processes | start, fork per connection, read request, answer | errors inside a request; a file that changes between `lstat()` and `read()`; children that outlive the server | `Httpd` |
| server9bug | `chapter05/server9bug.c` | as server9 | as server9 | threads read a loop variable by its address | no (section 6) |
| daemon, signaltest; pdump, raw-u-client; ifinfo; parser of client-2 | `chapter03/`, `chapter10/`, `chapter08/`, `chpater12/` | none that lasts | start-up, formats, generated code | | no (section 6) |

What makes the servers correct, common to all of them: a line is answered by the same line with
`:OK`, to its sender, at most once and in order (`EchoService`); what the program believes about
its descriptors is what the kernel has open; no call blocks that was thought to be ready; a client
is turned away only for want of room; no client that waits is passed over. For the others: no byte
or line is lost, invented or put where it does not belong; a timeout is true; the end of a
connection is noticed; the terminal is given back; a response is whole.

## 2. The modules

```
EchoService                         abstract: what an echo server promises
EchoClients                         test clients, sockets, the kernel's part
   ServerSockets                    descriptors of one process, lowest number first
      Server9
      OneThread                     recv / reply / close of one thread
         Server2  Server3  Server4  ServerLibevent  (and Server9) --- MCMultiplexers
   Conversations                    send_recv_loop(), one per connection
      Server5  Server6
      WorkerPool --- Server7  Server8
      Sequential --- ReExec  SslServer
                                    all of Conversations --- MCWorkers
LineBytes                           bytes coming in, line ends
   Oneline  Oneline1
TimeoutBounds                       a clock with ticks, bounds on signals
   Timeout  ConnectTimeout
BigTransfer                         these five --- MCReceiving
TelnetStream                        the server, the keyboard, recv_data()
   Telnet  TelnetPair
SelectLoop                          select(), stdio and fgets() of the clients that read lines
   LineClient                       these three --- MCClients
   Datagrams --- MCDatagrams
Httpd --- MCHttpd

Server9Proofs  Oneline1Proofs  HttpdProofs  DatagramsProofs    about the module of that name
MultiplexersProofs  WorkersProofs  ReceivingProofs  ClientsProofs   about MCMultiplexers, MCWorkers,
                                    MCReceiving and MCClients, and the modules these choose from
```

MCMultiplexers, MCWorkers, MCReceiving and MCClients choose one of their programs at the start
(`which`, `prog`) and instantiate its module; what does not belong to the chosen program keeps its
initial value. The property is then one for all: the same `EchoRefined` is asked of them all.

An action is a stretch of code up to the next call that can block or that another thread can see;
names are the code's (`pc` values name the place in the loop). A locked section is one step: what
it protects is touched by nobody else in between. `FirstFd` is the first number `accept()` can
return; descriptors are handed out lowest first, which is what makes numbers come back at once.

* **EchoService** has no descriptors: `Open`, `Ask`, `Answer`, `Leave`, `TurnAway`. The servers
  implement it with `answers[c]` being every reply sent to `c`, read or not. A server cuts what one
  `recv()` returned at its first line end, so lines that come in together with another are dropped
  without an answer; the specification says so (an answer may skip lines), and "every line is
  answered" is stated of the first unread line.
* **EchoClients**: `testclient.c` has one line outstanding (`Window = 1`). `EarlyClosers` may close
  at any moment; closing with unread replies, or being sent something afterwards, resets the
  connection, which the server notices as an error of `recv()` or as `SIGPIPE`.
* **Server9**: accept loop (`EpollWait`, `Accept*`, `MarkSlot`, `Recv`, `Push`, `HangUp`) and one
  sending thread per ring (`tpc`: lock, wait, reply, send). A slot is written in two steps, as in
  the code: the descriptor (`.acc`) before `recv()`, the line by it; an end of the connection
  leaves the old line in `.buf` (`EndOfData`).
* **Server2/3/4, ServerLibevent**: the pass over the ready descriptors is a loop of steps, so that
  closes and accepts of the same pass come in between, as they do in the program.
* **Server5**: `SIGCHLD` is a pending bit that is lost when it is set already; its handler is BSD's
  (`signal()` of glibc: restarted calls, blocked while it runs). `wait()` in the handler blocks if
  the loop's `waitpid()` took the child first.
* **Server7/8**: `owner` holds the lock from before `accept()` to behind it.
* **Sequential**: an address family per connection; `selected` says whether the mask is one
  `select()` has reported or the one it was given. chapter01/server.c closes every connection at
  once: what looks like its call of `send_recv_loop()` declares the function.
* **ReExec**: a SIGHUP closes everything at any moment of the loop; the new program has the old
  one's signal mask and, until its `sigaction()`, no handler.
* **SslServer**: the handshake needs the client; a session ends by the client's close or by its
  `close_notify`, after which `SSL_shutdown()` waits for the close.
* **Oneline/Oneline1**: bytes are letters, a line end, or the end of the connection; `CR` and NUL
  in the data are left out. In oneline1.c one event is one step, and `g_buf` keeps what was in it.
* **Timeout/ConnectTimeout**: time passes in ticks of a part of a second while the program sleeps
  or waits. `time()` is the whole seconds; the call begins at any tick. `nread`'s upper half is
  nondeterministic.
* **BigTransfer**: `send()` has taken `copied` of the data, `total` of it has been received and
  counted; either end may be non-blocking.
* **Telnet/TelnetPair**: a byte is text, `IAC`, or a byte of a command; signals reach a call that
  blocks, or come just before it and are noticed only when it returns.
* **SelectLoop**: lines are numbers. `typed` lines have come, `buffered` of them stdio holds,
  `taken` of them `fgets()` has returned; `select()` sees only those not in stdio's buffer.
* **LineClient**: `over` is `"tcp"` or `"ssl"`; over SSL a record may come in parts, for whose rest
  `SSL_read()` waits.
* **Datagrams**: `net` is the set of datagrams on their way; a datagram may be delivered again,
  lost, or reported as refused to a connected client. `how` the clients send and in which `mode`
  the servers answer is chosen at the start.
* **Httpd**: a client's message is a sequence of tokens (a method, header fields, lengths, the
  empty line, bytes of a body, a line that fills the buffer). A child takes them one by one as
  `read_request()` does its lines. The response is counted in units, its head one of them; `got` is
  what reaches the client, which a reset may cut short.

## 3. The runs

| Run | Module, configuration | Instance | What it shows |
|---|---|---|---|
| `server9_early` | `Server9`, `Server9Early` | 3 clients closing at will, 2 lines each, room for 2, one ring of 4 slots, `EPOLL_CTL_ADD` may fail | `CountIsOpen`, `EventsAreLive`, `NoLostWakeup`, `SlotNotShared`, and that, with no slot shared, only a client that has left can have its reply given to another (`CrossTalkOnlyFromLeavers`) |
| `server9_reuse` | `Server9`, `Server9Reuse` | 2 rings, one early closer | violation: finding 1 |
| `multiplexers_table` | `MCMultiplexers`, `..Table` | server2/3/4/libevent, 4 clients closing at will, room for 2 | `BooksAgree`, `NeverBlocksOnRecv`, `TurnsAwayOnlyWhenFull` |
| `multiplexers_service` | `MCMultiplexers`, `..Service` | the same and server9 with 2 rings of 3 slots, 2 clients, 2 of 3 lines outstanding, fair | `EchoRefined`, `EveryLineAnswered` |
| `workers_process` | `MCWorkers`, `..Process` | server5/6/7/8, server, server1, afindepend, ssl-server; 3 clients closing at will, 2 workers, failing calls | `ChildrenAreReaped`, `LockIsForAccept`, `OneAtATimeAndReady`, `EchoRefined` |
| `workers_service` | `MCWorkers`, `..Service` | the same and re-exec with 2 SIGHUPs, 2 clients, 2 lines, one early closer, fair | `QueueMovesOn`, `EveryLineAnswered`, `RestartCompletes` |
| `receiving` | `MCReceiving` | oneline, oneline1: every sequence of up to 6 bytes, buffers of 4 and 3, limit 6, one failing call; timeout, client-timeout: 2 seconds of 3 ticks, 2 signals; bigserver: 5 units through room for 2 | `BytesAccounted`, `OneLineAtATime`, `BuffersSuffice`, `LinesEchoed`, `TimeoutIsTrue`, `CallIsBounded`, `TransferIsWhole` |
| `lines_rest` | `MCReceiving`, `MCLinesRest` | oneline1 alone | violation: finding 2 |
| `timeouts_ioctl` | `Timeout`, `TimeoutIoctl` | 2 seconds of 3 ticks | violation: finding 3 |
| `httpd` | `MCHttpd` | sixteen requests, beginnings of requests and things like them; a second client that sends nothing; files of 0 or 2 units, one change, one failing call, fair | `AnswersOnlyRequests`, `AnswersEveryRequest`, `ResponseIsWhole`, `EveryRequestEnds` |
| `clients` | `MCClients` | 5 telnet clients, 4 bytes, 2 signals; the line clients over TCP and SSL, 3 lines in any portions, fair | `CommandsApart`, `TerminalGivenBack`, `NothingTypedIsLost`, `EndIsNoticed`, `LinesGetThrough` |
| `datagrams` | `MCDatagrams` | 2 clients, one of them with a file, 2 servers on two hosts, every way to send and to answer, one fault, fair | `AnswersAreOwn`, `OneAnswerEach`, `LineIsAnswered` |

`TypeOK` is checked by one run of each module, by itself or as a part of a property about the same
books. The largest run has 1.6 million distinct states (`server9_early`, about a minute on two
workers); the longest are the liveness runs, 2 to 3 minutes. `CHECK_DEADLOCK FALSE` stands in
them: programs and clients do end, a server that nobody talks to waits.

**Bounds, and why they are enough.** Two is what the races need: two connections for a descriptor to
be reused and for an answer to go astray, three or four where one must be refused while another
leaves (a table with room for two, so that it fills, has a hole in the middle and fills again). A
ring of n slots holds n-1 requests, and three or four slots wrap within the lines of one, two or
three clients; none of the runs overflows a ring (section 4 says when none can). With two rings, two
lines of a connection could go to different threads. Lines of up to six bytes pass the ends of
buffers of three and four bytes on both sides, exactly and by one. Six ticks with two interrupted
waits reach every alignment of the start with the clock's second. Two signals are one that is lost
and one that is not, or one that arrives in the restart the other caused; four bytes are a whole
command with text beside it, or one cut off. Three lines are one that is read, one that stdio holds
back with it and one without its line feed. One fault among the datagrams is what each claim about
loss, duplication and errors excuses, and two servers are what it takes to answer each other. The
requests of `MCHttpd` have each length a header can announce, with as much, less and more behind it,
and each way a header ends early. Bounds are constants (`MaxLines`, `MaxBytes`, `MaxTyped`,
`MaxSignals`, `MaxHups`, `MaxFailures`, `MaxFaults`, `MaxChanges`, `MaxOks`); the rest of the
constants are the programs' own.

**Fairness.** Weak fairness of each thread's or process's steps: the scheduler lets everybody run.
Strong fairness of a successful `accept()`: failures such as `EINTR` or a connection that is gone
may come any number of times, but not for ever. Weak fairness of a client's reading of its replies
and of the delivery of a pending signal. Clients need not close, send, or connect; the telnet
server need not send or close; nobody need press a key or type a line; a datagram
that is not lost is received some time.
The liveness properties therefore name their excuses: all workers are in a conversation, the handler
of server5.c is stuck, the one conversation of a sequential server goes on (`QueueMovesOn`); the
reader of the keyboard was signalled just before `getchar()` (`EndIsNoticed`); a line is in stdio's
buffer (`LinesGetThrough`); the datagram was lost, its server has ended, or the answers are
broadcast and the client's socket has an address of its own (`LineIsAnswered`); a child of a server
that has ended keeps the queue open (`EveryRequestEnds`); the process was ended by `SIGPIPE`.

**Refinement.** `EchoRefined` is `Service!ESpec` with `status <- phase`, `asked <- sent` and
`answers[c]` all replies sent to `c`. It includes that the sending threads of server9.c keep the
order of a connection's lines, since a descriptor always goes to the same ring. re-exec.c is left
out of it: its restart hangs up on clients the specification has still connected.

## 4. What is proved

For every value of the constants that the named assumptions admit. Eight modules, each with an
inductive invariant `IInv`, the lemma that the initial states have it, one lemma per conjunct or
group of actions, and the theorems of the properties. Every invariant a passing run checks is among
them (`SlotNotShared` under conditions of its own), and `EchoRefined` for every server the runs ask
it of.

* **Server9Proofs** (`ClientAssumption`, `SocketAssumption`, `ServerAssumption`): `TypeCorrect`,
  `CountCorrect`, `EventsCorrect`, `WakeupCorrect`, `OwnersCorrect`. `IInv` adds to the properties
  `OnePlace` (a connection is new, or at one position of the listening queue, or open on one
  descriptor), `CurIsPushed` (`cur` is a descriptor of the batch exactly from `MarkSlot` until its
  line is queued) and `SlotIsMarked` (meanwhile the slot at `last` holds that descriptor).
  `CountIsOpen` needs the cardinality of a set that gains or loses one element, and so `OnePlace`;
  `EventsAreLive` needs that the accept loop closes only the descriptor whose event it works on;
  `NoLostWakeup` holds because the look at the ring and the wait are one locked section, and so are
  the advance of `last` and the signal. `OwnersCorrect` is the theorem `Spec /\ []SlotNotShared =>
  []CrossTalkOnlyFromLeavers`: a line in a slot that is in use, queued or with its thread, belongs
  to whoever has the descriptor beside it, or to one who has left (`LinesKnowOwners`), which no step
  undoes since nobody who has closed comes back. A slot that is not in use may have a new descriptor
  beside an old line, since `MarkSlot` comes before `recv()`; where a ring overflows that is a slot
  a thread is at work in, and the hypothesis is what excludes it. `OwnersStep` uses it of one state
  only, so the conclusion holds up to the first state that shares a slot.
* **Server9Proofs, the rings**: `SlotCorrect`, `OwnerCorrect` and `ServiceCorrect` assume that
  clients wait for their replies before they close (`EarlyClosers = {}`) and that
  `(MAX_CHILD - 1) * Window < MAXQUEUESZ`, for testclient.c 19 < 4096. Nothing in server9.c tests
  for a full ring, so the bound on the clients is all there is: a ring holds lines that await their
  replies, those of a connection in order (`RingHolds`, `NextToHold`), on a connection open on the
  descriptor stored with them and within its window (`ClientInOrder`). Were a ring full, its slots
  would map one to one to pairs of an open descriptor and a place in a window, of which there are
  too few (`RoomLeft`). Without the hypotheses the conclusions fail: finding 1 needs one early
  closer, an overflow only clients that go on sending. `ServiceCorrect` is the refinement; order is
  kept through ring and thread because a ring is first-in-first-out and has all of a connection's
  lines.
* **MultiplexersProofs** (the same and `ServersAssumption`): `BooksCorrect`, `NeverBlocksCorrect`,
  `TurnsAwayCorrect`, `EchoCorrect`, of server2.c, server3.c, server4.c, server-libevent.c and, by
  instantiating Server9Proofs, server9.c. `Table` is what makes the table with holes inductive:
  slots and descriptors are both handed out lowest first, so slot k holds descriptor `FirstFd + k`
  or nothing; hence no descriptor is in two slots, server3.c clears the right slot, and a table that
  looks full has `MAX_CHILD - 1` open connections. For each server, what the rest of a pass or
  batch reports is open and readable (`MarkedFrom`, `ReportedFrom`, `BatchLive`), since a step
  closes only the descriptor it works on, and a number `accept()` hands out was closed when the
  report was made, or has been dealt with since. `TurnsAwayOnlyWhenFull` excuses a program that is
  ending (`EPOLL_CTL_ADD` failed, `SIGINT`). `EchoCorrect` assumes no `SIGINT` and, if server9.c is
  among the servers, the two hypotheses above; all hold in `multiplexers_service`, which checks it.
* **Oneline1Proofs** (`LineAssumption`): `EchoCorrect`. The echo depends on what earlier lines left
  in `g_buf`: `IInv` says that the array of an open descriptor begins with what was heard of the
  line (`BufferHoldsLine`), that no line end is in it (`LettersHeard`), that the array of a closed
  one begins with NUL (`ClosedIsClear`), and that the last byte is never written.
* **ReceivingProofs** (`LineAssumption`, `TimeoutAssumption`, `BigAssumption`), in three parts.
  oneline.c: `TypeCorrect`, `BytesCorrect`, `LineCorrect`, `BuffersCorrect`, for buffers, steps and
  limits of any size. The invariant adds `Room` (the room left in either buffer is at least what
  the code is about to use, one byte of it for the NUL), `OneBlock` (allocated blocks are the one
  in use and those a failing `realloc()` lost) and `Pieces` (a line end can only be the last byte
  of a piece). timeout.c and client-timeout.c: `TimeoutCorrect` and `BoundCorrect`; the invariants
  tie the clock to the place in the loop: before each sleep the time was found not to be up, or the
  loop is over; what has passed and what is left of the timer together are the timeout. The
  arithmetic of `\div` and of products is in lemmas, the steps use linear facts. And the properties
  `MCReceiving` states of the chosen program: `EchoCorrect`, whose part about oneline1.c is
  Oneline1Proofs' (the two instances' operators are the same, and a step of the whole is a step of
  the program or leaves it alone), and `TransferCorrect`.
* **ClientsProofs** (`TelnetAssumption`, `ClientsAssumption`): `CommandsCorrect`,
  `TerminalCorrect`, `LinesCorrect`. `IInv` has a part for the connection (`Channel`), one for the
  telnet clients of one process (`SingleInv`), one for those of two (`PairInv`), one for the
  clients that send lines (`LineInv`). The heart of the first is `InStep`: some assignment of
  places to the bytes in the socket leads from where `recv_data()` is in a command to where the
  server is; without it a reachable-looking state would have the parser take text for the rest of a
  command. `NobodyReads` in `PairInv`: when
  telnet4.c's first process restores the terminal, the second has gone, or never was, unless a
  signal from outside ended the wait for it.
* **DatagramsProofs** (`DatagramAssumption`): `TypeCorrect`, `OwnCorrect`, `OnceCorrect`. `OwnInv`
  says that the address beside a server's buffer is one its text can have come from, also after a
  failed `recvfrom()`; `ApartInv` counts ":OK"s against failures; `OnceInv` says that, as long as
  nothing came twice, a line a server holds or has answered is not on its way to it, and that of
  the line it holds it has given no answer as long as the next. The last two speak of servers that
  do not hear each other (`ServersApart`): a client on the servers' own port, with broadcasting
  servers, makes them answer each other, and then one line may be shown twice by nobody's fault.
* **HttpdProofs** (`HttpdAssumption`): `TypeCorrect`, `AnswersCorrect`, `RequestsAnswered`,
  `ResponseCorrect`, for whatever clients send. What a request is, is stated without reading it
  (`IsRequest`); `IInv` says at each place of a child what it has `Parsed` (the tokens taken are a
  request line and fields, and the length is that of the last Content-Length) and `Composed`
  (what is written of the response), and that connections in the queue are new ones
  (`QueueIsNew`). That a sequence of tokens begins with one request at most is a lemma.
* **WorkersProofs** (`ClientAssumption`, `WorkerAssumption`, `FailAssumption`,
  `ServersAssumption`): `LockCorrect`, `ReapedCorrect`, `OneAtATimeCorrect` and `EchoCorrect`, for
  any number of clients, lines and workers. `EchoCorrect` is the refinement: the initial states of
  every server are the service's, and each step is one of the service's or a stutter. Each step of
  any of the servers is of one of five kinds (`StepKinds`): it lets a conversation talk, hangs up,
  settles something the service does not see, is a client's, or a restart. `IInv` has a part for
  each server: who is at which place with which connection and lock (`Prefork`, `Prethread`), the
  sockets of the mask have connections (`Sequentially`), a connection is accepted once (`Fresh`),
  every `SIGCHLD` that is pending or being handled has its zombie unless one was taken from it
  (`Reaping`), and what is about to be sent is the reply to a line of this client behind all that
  were answered (`Faithful`). `EchoCorrect` assumes that re-exec.c is not among the servers.

Only model-checked: liveness (`EveryLineAnswered`, `QueueMovesOn`, `RestartCompletes`,
`EndIsNoticed`, `LinesGetThrough`, `LineIsAnswered`, `EveryRequestEnds`) and `ENABLED`, which are
beyond the prover; `SlotNotShared` where clients close early, which `server9_early` checks for the
few lines its clients send (with enough of them a ring overflows); `EchoRefined` of
server-libevent.c when `SIGINT` may come is neither checked nor proved.

## 5. Findings

1. `server9.c:280`: the reply goes to the descriptor number that was stored with the request. When
   that connection was closed meanwhile and the number reused, another client gets it, and its
   comparison fails, of which `testclient.c:146` says it is a bug of the server (`server9_reuse`).
2. `oneline1.c:217`: the rest of a line at the end of a connection is taken for a string, but
   nothing ends it: bytes of an earlier line follow (`lines_rest`).
3. `timeout.c:351`: `FIONREAD` writes an `int` into a variable of twice its size that was never
   initialised; with garbage in its upper half "receiving with a timeout" has none
   (`timeouts_ioctl`).

Behaviour worth knowing that nothing in the repository denies, reachable in the models; the
properties state these exceptions and nothing wider.

* server5.c's accept loop may block in the handler's `wait()` after a race (`StuckOnlyAfterRace`
  says when, and that it is the only way). server6.c keeps a connection open for ever when
  `pthread_create()` fails. server7.c does not replace workers that died.
* In server9.c a ring that overflows gives one client's line to another although both stay: the
  slot at `last` is then one a sending thread is at work in, and between lines 178 and 180 it has
  the descriptor of the one and the text of the other. It takes more outstanding lines than a ring
  has slots, 4096.
* A connection whose `EPOLL_CTL_ADD` failed ends server4.c, and in server9.c ends the accepting of
  others. In server-libevent.c a failing `event_add()` leaves a connection nobody reads, an
  interrupted `accept()` registers the descriptor -1, and a failing `malloc()` is used.
* server-afindepend.c takes a failing `select()` for one that found all sockets ready, and waits in
  `accept()` on the first of them, whatever comes on the others.
* chapter01/server.c declares `send_recv_loop()` where it means to call it, and answers nothing.
* re-exec.c is ended by a SIGHUP that comes before `sigaction()`, and left without a socket by an
  `execve()` that fails. A second SIGHUP is taken only because of `SA_NODEFER`.
* ssl-server.c answers `close_notify` by nothing: `SSL_set_shutdown()` replaces what the session
  knows, and `SSL_shutdown()` waits for the client, and with it everybody else.
* bigclient.c does not send again what a non-blocking `send()` did not take.
* telnet3.c takes the rest of a command for text if it arrives late, and may not notice the end of
  the connection (its own comment, line 106); telnet4.c may leave a child reading the keyboard when
  a signal interrupts `wait()`; telnet5.c leaves the terminal raw when `pthread_create()` fails.
* Lines typed together wait in stdio's buffer until the next one comes: `select()` does not see it.
* A failing `recvfrom()` has a UDP server answer the previous datagram again; broadcasting servers
  answer each other without end if a client has their port. What u-server-b.c broadcasts never
  reaches a client whose socket has an address of its own: u-client2.c, which connects it, and
  u-client-b2.c, u-client-m.c and u-client-m6.c, which bind it (`Addressed`).
* httpd2.c: `--port` has no default (`DEFAULT_PORT` is not used); a relative document root leads
  elsewhere once the daemon has changed to `/`, and the result of `chroot()` is not looked at; a
  header line that fills the buffer exactly makes its own line feed the empty line; input beyond
  the request may cost the client the end of its response; the length is announced before `open()`
  and `read()` may fail; children keep the listening socket open after the server has ended.

## 6. What is left out, and why

* Not modelled at all: server9bug (the book's example of a mistake: a sending thread reads its
  ring's number from main()'s loop variable, so that it may be any, and nothing server9.c promises
  is left); daemon and signaltest (a start-up sequence, which `Httpd` has one of, and
  demonstrations); pdump, raw-u-client (reading and writing of headers), ifinfo (prints what
  `ioctl()` returns); the configuration parser of client-2, generated by flex and bison. These are
  a third of the repository's lines.
* testclient's main thread and clocks: they decide nothing about the conversations.
* The set-up of sockets, addresses, options, certificates and terminals before the loops (but for
  Sequential's and Httpd's, which are choices of the program), and printing.
* How a line arrives in several `recv()`s in the servers of chapter05: a line is the unit there. In
  `Oneline` and `Oneline1` bytes are.
* Timeouts and `EINTR` of waits that only start the wait again (servers 2, 3, 4, 9); closing of a
  dead process's sockets by the kernel, after which nothing of it is looked at.
* `EPOLL_CTL_DEL` failing: `EventsAreLive` shows that the descriptor is open.
* `fork()` or `pthread_create()` failing while server7.c or server8.c start: fewer workers.
* `SIGPIPE` in the line readers; NUL and `CR` among their bytes.
* `ioctl()` failing, and setting modes back at a function's only exit, in `Timeout`. An end of the
  connection is not seen by `FIONREAD` before the timeout; it is so in the model.
* `EAGAIN` of a `send()` of one byte, and `pthread_join()` failing, in the telnet clients.
* That a UDP socket which is not bound gets its port with its first datagram: in `Datagrams` it has
  it from the start, and may hear a broadcast before it has sent anything.
* The cutting of a datagram's text at 512 bytes; retries inside the TLS library.
* Paths, types and pages of httpd2.c: a file is there, unreadable, a directory or not there.

What could come next: the echo refinement of server-libevent.c under `SIGINT`, which ends the
program with a batch half worked off, and of server9.c with clients that close early, where replies
to those that stay are still right as long as no number is reused.
