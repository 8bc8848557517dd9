-------------------------------- MODULE Httpd --------------------------------
(***************************************************************************)
(* httpd/httpd2.c: a web server that forks a process per connection, which *)
(* reads one request, answers it, and exits.                               *)
(*                                                                         *)
(* A request is a sequence of tokens, each what one fgets() or one unit of *)
(* fread() returns: a method (the whole request line), "bad" (a line that  *)
(* does not parse), "field", a Content-Length ("zero", "one", "minus",     *)
(* "huge"), "blank" (the empty line), "byte" (a unit of the body), and     *)
(* "nl": the line feed that is left over when the line before it fills     *)
(* fgets()'s LINE_BUF_SIZE exactly.  Files and responses are counted in    *)
(* units: the head of a response is one, so is an error's page and each    *)
(* block of a file.                                                        *)
(***************************************************************************)
EXTENDS Integers, Sequences

CONSTANTS
    Conns,          \* connections, each used once
    NoConn,         \* stands for "no connection"
    Scripts,        \* Scripts[c]: what the client of c may send, as sequences of tokens
    MAX_BACKLOG,    \* the queue of the listening socket
    Sizes,          \* sizes a file may have, in units
    MaxChanges,     \* bound: changes of a file under a child
    MaxFailures     \* bound: failing calls in children, and signals

Methods == {"GET", "HEAD", "POST", "PUT"}
Tokens == Methods \cup {"bad", "field", "zero", "one", "minus", "huge", "blank", "byte", "nl"}

ASSUME HttpdAssumption ==
    /\ NoConn \notin Conns
    /\ Scripts \in [Conns -> SUBSET Seq(Tokens)]
    /\ MAX_BACKLOG \in Nat
    /\ Sizes \subseteq Nat
    /\ MaxChanges \in Nat
    /\ MaxFailures \in Nat

VARIABLES
    main,       \* where the server process is; "exited" when it has ended
    root,       \* what the document root's path leads to, "relative" as long as chdir() counts
    sock,       \* server_main()'s sock, while it is open in the server process
    backlog,    \* connections in the listening socket's queue
    client,     \* client[c]: "new", "on", "shut" (sends no more), "gone", or "refused"
    script,     \* script[c]: what the client has sent
    at,         \* at[c]: where the child for c is
    taken,      \* taken[c]: tokens it has read
    method,     \* method[c]: req->method
    length,     \* length[c]: the value a Content-Length is looked up to
    status,     \* status[c]: of the response, "none" before it
    size,       \* size[c]: info->size
    made,       \* made[c]: units of the response the child has written
    sent,       \* sent[c]: units that have left its buffer
    got,        \* got[c]: units the client gets in the end
    kind,       \* kind[c]: what the path of c's request names, from lstat() on
    now,        \* now[c]: the size of that file at present
    changes,    \* changes of files so far
    failures,   \* failing calls and signals so far
    disturbed   \* children in whose way one of the two came (not in the program)

parentVars == <<main, root, sock>>
netVars == <<backlog, client, script>>
requestVars == <<taken, method, length>>
responseVars == <<status, size, made, sent, got>>
fileVars == <<kind, now, changes>>
childVars == <<at, requestVars, responseVars>>
vars == <<parentVars, netVars, childVars, fileVars, failures, disturbed>>

Lengths == {"none", "zero", "one", "minus", "huge"}
Kinds == {"regular", "unreadable", "directory", "none"}
Statuses == {"none", "200", "404", "405", "501"}
Working == {"line", "field", "body", "respond", "open", "copy", "flush"}
Finished == {"exited", "killed"}
Live == {c \in Conns : at[c] \in Working}
Queued(c) == \E k \in DOMAIN backlog : backlog[k] = c

Init ==
    /\ main = "options" /\ root = "docroot" /\ sock = NoConn
    /\ backlog = <<>>
    /\ client = [c \in Conns |-> "new"]
    /\ script = [c \in Conns |-> <<>>]
    /\ at = [c \in Conns |-> "none"]
    /\ taken = [c \in Conns |-> 0]
    /\ method = [c \in Conns |-> "none"]
    /\ length = [c \in Conns |-> "none"]
    /\ status = [c \in Conns |-> "none"]
    /\ size = [c \in Conns |-> 0]
    /\ made = [c \in Conns |-> 0]
    /\ sent = [c \in Conns |-> 0]
    /\ got = [c \in Conns |-> 0]
    /\ kind = [c \in Conns |-> "none"]
    /\ now = [c \in Conns |-> 0]
    /\ changes = 0
    /\ failures = 0
    /\ disturbed = {}

---------------------------------------------------------------------------
(* Start-up: each call may fail, and ends the program before it serves.    *)

StartStep(from, to) ==
    /\ main = from
    /\ main' = to
    /\ UNCHANGED <<sock, netVars, childVars, fileVars, failures, disturbed>>

\* main(): the options; a document root given by a relative or an absolute path.
Options ==
    /\ StartStep("options", "environment") \/ StartStep("options", "signals")
          \/ StartStep("options", "exited")
    /\ root' \in {"docroot", "relative"}

\* The result of chroot() is not looked at: docroot = "" may lead elsewhere.
SetupEnvironment ==
    \/ StartStep("environment", "exited") /\ UNCHANGED root
    \/ StartStep("environment", "signals") /\ root' \in {"docroot", "elsewhere"}

InstallSignalHandlers ==
    /\ StartStep("signals", "listen") \/ StartStep("signals", "exited")
    /\ UNCHANGED root

\* Every address is tried; the sockets of those that fail are closed.  With --debug
\* the program stays in the foreground.
ListenSocket ==
    \/ StartStep("listen", "daemon") /\ UNCHANGED root
    \/ StartStep("listen", "accept") /\ root' = IF root = "relative" THEN "docroot" ELSE root
    \/ StartStep("listen", "exited") /\ UNCHANGED root

\* chdir("/") comes before the fork: a relative path leads elsewhere from here on.
BecomeDaemon ==
    /\ StartStep("daemon", "accept")
    /\ root' = IF root = "relative" THEN "elsewhere" ELSE root

Start ==
    Options \/ SetupEnvironment \/ InstallSignalHandlers \/ ListenSocket \/ BecomeDaemon

---------------------------------------------------------------------------
(* The kernel: the listening socket lives as long as any process has it.   *)

Listening == main \in {"daemon", "accept", "fork", "close"} \/ Live # {}

\* Processes end.  Connections nobody has accepted are refused with the last of them.
QueueAfter(last) ==
    IF last
    THEN /\ backlog' = <<>>
         /\ client' = [c \in Conns |-> IF Queued(c) THEN "refused" ELSE client[c]]
    ELSE UNCHANGED <<backlog, client>>

\* Nobody has the connection open any more: the client has seen its end.
Over(c) ==
    /\ client[c] # "new" /\ ~Queued(c)
    /\ at[c] \notin Working /\ sock # c

\* The client connects and sends; it may shut down its side of the connection then.
Connect(c) ==
    /\ client[c] = "new"
    /\ IF Listening
       THEN /\ Len(backlog) <= MAX_BACKLOG
            /\ \E how \in {"on", "shut"} : client' = [client EXCEPT ![c] = how]
            /\ backlog' = Append(backlog, c)
            /\ \E s \in Scripts[c] : script' = [script EXCEPT ![c] = s]
       ELSE /\ main = "exited"
            /\ client' = [client EXCEPT ![c] = "refused"]
            /\ UNCHANGED <<backlog, script>>
    /\ UNCHANGED <<parentVars, childVars, fileVars, failures, disturbed>>

\* The client closes, at any moment.
Depart(c) ==
    /\ client[c] \in {"on", "shut"} /\ ~Over(c)
    /\ client' = [client EXCEPT ![c] = "gone"]
    /\ UNCHANGED <<parentVars, backlog, script, childVars, fileVars, failures, disturbed>>

\* Somebody writes the file c has asked for, removes it, or puts a directory in its
\* place.  (What has been opened stays as it was then, except for its size.)
ChangeFile(c) ==
    /\ changes < MaxChanges
    /\ at[c] \in {"open", "copy"} /\ kind[c] = "regular"
    /\ \/ \E n \in Sizes \ {now[c]} : now' = [now EXCEPT ![c] = n] /\ UNCHANGED kind
       \/ \E k \in Kinds \ {"regular"} : kind' = [kind EXCEPT ![c] = k] /\ UNCHANGED now
    /\ changes' = changes + 1
    /\ disturbed' = disturbed \cup {c}
    /\ UNCHANGED <<parentVars, netVars, childVars, failures>>

---------------------------------------------------------------------------
(* server_main()                                                           *)

Accept ==
    /\ main = "accept" /\ backlog # <<>>
    /\ main' = "fork"
    /\ sock' = Head(backlog)
    /\ backlog' = Tail(backlog)
    /\ UNCHANGED <<root, client, script, childVars, fileVars, failures, disturbed>>

Fork ==
    /\ main = "fork"
    /\ main' = "close"
    /\ at' = [at EXCEPT ![sock] = "line"]
    /\ UNCHANGED <<root, sock, netVars, requestVars, responseVars, fileVars>>
    /\ UNCHANGED <<failures, disturbed>>

\* mutant: the server keeps the child's socket open
CloseSockForgotten ==
    /\ main = "close"
    /\ main' = "accept"
    /\ UNCHANGED <<root, sock, netVars, childVars, fileVars, failures, disturbed>>

CloseSock ==
    /\ main = "close"
    /\ main' = "accept"
    /\ sock' = NoConn
    /\ UNCHANGED <<root, netVars, childVars, fileVars, failures, disturbed>>

Serve == Accept \/ Fork \/ CloseSock

\* accept() or fork() fails, or one of become_daemon()'s calls, or SIGTERM comes: the
\* server ends.  Its children go on, and keep the listening socket open.
ServerExits ==
    /\ main \in {"daemon", "accept", "fork", "close"}
    /\ main' = "exited"
    /\ sock' = NoConn
    /\ QueueAfter(Live = {})
    /\ UNCHANGED <<root, script, childVars, fileVars, failures, disturbed>>

---------------------------------------------------------------------------
(* service(): the child.  exit() writes out what its buffer holds, and     *)
(* closing a socket with something unread in it resets the connection: the *)
(* client may lose the end of the response.                                *)

HasToken(c) == taken[c] < Len(script[c])
Token(c) == script[c][taken[c] + 1]
Eof(c) == ~HasToken(c) /\ client[c] \in {"shut", "gone"}
Take(c) == taken' = [taken EXCEPT ![c] = @ + 1]

EndChild(c, place, units) ==
    /\ at' = [at EXCEPT ![c] = place]
    /\ sent' = [sent EXCEPT ![c] = units]
    /\ got' \in {[got EXCEPT ![c] = u] :
                    u \in IF client[c] = "gone" THEN {0}
                          ELSE IF taken'[c] < Len(script[c]) THEN 0 .. units ELSE {units}}
    /\ QueueAfter(main = "exited" /\ Live = {c})
    /\ UNCHANGED <<parentVars, script, method, length, status, size, made, fileVars>>

\* mutant: the child ends by _exit(), which does not write out the buffer
ExitAtOnce(c) == EndChild(c, "exited", sent[c])
Exit(c) == EndChild(c, "exited", made[c])

\* A step of the child that neither ends it nor sends anything.
Goes(c, place) ==
    /\ at' = [at EXCEPT ![c] = place]
    /\ UNCHANGED <<parentVars, netVars, changes, failures, disturbed>>

NoRead(c) == Eof(c) /\ UNCHANGED taken /\ Exit(c) /\ UNCHANGED <<failures, disturbed>>
LogExit(c) == Take(c) /\ Exit(c) /\ UNCHANGED <<failures, disturbed>>

ReadRequestLine(c) ==
    /\ at[c] = "line"
    /\ \/ /\ HasToken(c) /\ Token(c) \in Methods
          /\ Take(c)
          /\ method' = [method EXCEPT ![c] = Token(c)]
          /\ Goes(c, "field")
          /\ UNCHANGED <<length, responseVars, kind, now>>
       \/ HasToken(c) /\ Token(c) \notin Methods /\ LogExit(c)
       \/ NoRead(c)

\* Fields are put at the front of the list, so that the last Content-Length counts.
ReadHeaderField(c) ==
    /\ at[c] = "field" /\ HasToken(c) /\ Token(c) \in {"field"} \cup Lengths
    /\ Take(c)
    /\ length' = [length EXCEPT ![c] = IF Token(c) = "field" THEN @ ELSE Token(c)]
    /\ Goes(c, "field")
    /\ UNCHANGED <<method, responseVars, kind, now>>

\* mutant: the body is not read
EndHeaderNoBody(c) ==
    /\ at[c] = "field" /\ HasToken(c) /\ Token(c) \in {"blank", "nl"}
    /\ \/ /\ length[c] \in {"none", "zero", "one"}
          /\ Take(c)
          /\ Goes(c, "respond")
          /\ UNCHANGED <<method, length, responseVars, kind, now>>
       \/ length[c] \in {"minus", "huge"} /\ LogExit(c)

\* mutant: a length of zero is refused as well
EndHeaderPositive(c) ==
    /\ at[c] = "field" /\ HasToken(c) /\ Token(c) \in {"blank", "nl"}
    /\ \/ /\ length[c] \in {"none", "one"}
          /\ Take(c)
          /\ Goes(c, IF length[c] = "one" THEN "body" ELSE "respond")
          /\ UNCHANGED <<method, length, responseVars, kind, now>>
       \/ length[c] \in {"zero", "minus", "huge"} /\ LogExit(c)

\* An empty line, or what looks like one; content_length() and its limits.
EndHeader(c) ==
    /\ at[c] = "field" /\ HasToken(c) /\ Token(c) \in {"blank", "nl"}
    /\ \/ /\ length[c] \in {"none", "zero", "one"}
          /\ Take(c)
          /\ Goes(c, IF length[c] = "one" THEN "body" ELSE "respond")
          /\ UNCHANGED <<method, length, responseVars, kind, now>>
       \/ length[c] \in {"minus", "huge"} /\ LogExit(c)

BadHeader(c) ==
    /\ at[c] = "field"
    /\ \/ HasToken(c) /\ Token(c) \in Methods \cup {"bad", "byte"} /\ LogExit(c)
       \/ NoRead(c)

ReadBody(c) ==
    /\ at[c] = "body"
    /\ \/ /\ HasToken(c)
          /\ Take(c)
          /\ Goes(c, "respond")
          /\ UNCHANGED <<method, length, responseVars, kind, now>>
       \/ NoRead(c)

\* A response's first units, in the buffer; they may not leave it yet.
Answer(c, code, units, place) ==
    /\ status' = [status EXCEPT ![c] = code]
    /\ made' = [made EXCEPT ![c] = units]
    /\ Goes(c, place)
    /\ UNCHANGED <<requestVars, sent, got>>

\* get_fileinfo(): lstat() finds anything there; nothing where the root does not lead.
FileResponse(c) ==
    /\ at[c] = "respond" /\ method[c] \in {"GET", "HEAD"}
    /\ \E k \in IF root = "elsewhere" THEN {"none"} ELSE Kinds, n \in Sizes :
           /\ kind' = [kind EXCEPT ![c] = k]
           /\ IF k \in {"regular", "unreadable"}
              THEN /\ size' = [size EXCEPT ![c] = n]
                   /\ now' = [now EXCEPT ![c] = n]
                   /\ Answer(c, "200", 1, IF method[c] = "HEAD" THEN "flush" ELSE "open")
              ELSE /\ Answer(c, "404", IF method[c] = "HEAD" THEN 1 ELSE 2, "flush")
                   /\ UNCHANGED <<size, now>>

MethodNotAllowed(c) ==
    /\ at[c] = "respond" /\ method[c] = "POST"
    /\ Answer(c, "405", 2, "flush") /\ UNCHANGED <<size, kind, now>>

NotImplemented(c) ==
    /\ at[c] = "respond" /\ method[c] \notin {"GET", "HEAD", "POST"}
    /\ Answer(c, "501", 2, "flush") /\ UNCHANGED <<size, kind, now>>

\* open(), which also opens a directory, and the first read(), which fails on one.
OpenFile(c) ==
    /\ at[c] = "open"
    /\ \/ /\ kind[c] = "regular"
          /\ Goes(c, "copy") /\ UNCHANGED <<requestVars, responseVars, kind, now>>
       \/ /\ kind[c] # "regular"
          /\ UNCHANGED <<taken, failures, disturbed>> /\ Exit(c)

\* mutant: the buffer's last unit is sent twice
CopyBlockTwice(c) ==
    /\ at[c] = "copy" /\ made[c] - 1 < now[c]
    /\ made' = [made EXCEPT ![c] = @ + 1]
    /\ \/ UNCHANGED sent
       \/ sent' = [sent EXCEPT ![c] = made[c] + 2]
    /\ Goes(c, "copy")
    /\ UNCHANGED <<requestVars, status, size, got, kind, now>>

\* A block is read and written; a full buffer is sent.
CopyBlock(c) ==
    /\ at[c] = "copy" /\ made[c] - 1 < now[c]
    /\ made' = [made EXCEPT ![c] = @ + 1]
    /\ \/ UNCHANGED sent
       \/ sent' = [sent EXCEPT ![c] = made[c] + 1]
    /\ Goes(c, "copy")
    /\ UNCHANGED <<requestVars, status, size, got, kind, now>>

EndOfFile(c) ==
    /\ at[c] = "copy" /\ made[c] - 1 >= now[c]
    /\ Goes(c, "flush")
    /\ UNCHANGED <<requestVars, responseVars, kind, now>>

\* fflush() and exit(0)
Flush(c) == at[c] = "flush" /\ UNCHANGED <<taken, failures, disturbed>> /\ Exit(c)

\* Writing to a client that has gone may raise SIGPIPE.
SigPipe(c) ==
    /\ at[c] \in Working /\ client[c] = "gone" /\ sent[c] < made[c]
    /\ UNCHANGED <<taken, failures, disturbed>>
    /\ EndChild(c, "killed", sent[c])

\* malloc(), gmtime() or read() fails, or SIGTERM reaches the child: log_exit().
CallFails(c) ==
    /\ at[c] \in Working
    /\ failures < MaxFailures
    /\ failures' = failures + 1
    /\ disturbed' = disturbed \cup {c}
    /\ UNCHANGED taken /\ Exit(c)

Service(c) ==
    \/ ReadRequestLine(c) \/ ReadHeaderField(c) \/ EndHeader(c) \/ BadHeader(c) \/ ReadBody(c)
    \/ FileResponse(c) \/ MethodNotAllowed(c) \/ NotImplemented(c)
    \/ OpenFile(c) \/ CopyBlock(c) \/ EndOfFile(c) \/ Flush(c)

Next ==
    \/ Start \/ Serve \/ ServerExits
    \/ \E c \in Conns : Service(c) \/ SigPipe(c) \/ CallFails(c) \/ ChangeFile(c)
    \/ \E c \in Conns : Connect(c) \/ Depart(c)

Spec == Init /\ [][Next]_vars

\* The scheduler lets every process run.
FairSpec ==
    /\ Spec
    /\ WF_vars(Start) /\ WF_vars(Serve)
    /\ \A c \in Conns : WF_vars(Service(c))
---------------------------------------------------------------------------
(* Properties                                                              *)

\* Types of the variables; a child never reads past what was sent to it, nor sends
\* more than it has written.
TypeOK ==
    /\ main \in {"options", "environment", "signals", "listen", "daemon",
                 "accept", "fork", "close", "exited"}
    /\ root \in {"docroot", "relative", "elsewhere"}
    /\ sock \in Conns \cup {NoConn}
    /\ sock # NoConn <=> main \in {"fork", "close"}
    /\ backlog \in Seq(Conns)
    /\ client \in [Conns -> {"new", "on", "shut", "gone", "refused"}]
    /\ script \in [Conns -> Seq(Tokens)]
    /\ at \in [Conns -> {"none"} \cup Working \cup Finished]
    /\ taken \in [Conns -> Nat] /\ \A c \in Conns : taken[c] <= Len(script[c])
    /\ method \in [Conns -> {"none"} \cup Methods]
    /\ length \in [Conns -> Lengths]
    /\ status \in [Conns -> Statuses]
    /\ size \in [Conns -> Nat]
    /\ made \in [Conns -> Nat]
    /\ sent \in [Conns -> Nat] /\ \A c \in Conns : sent[c] <= made[c]
    /\ got \in [Conns -> Nat]
    /\ kind \in [Conns -> Kinds]
    /\ now \in [Conns -> Nat]
    /\ changes \in Nat /\ failures \in Nat
    /\ disturbed \subseteq Conns

\* What a request is, apart from how it is read: a request line, fields up to the
\* first empty line, and the body its last Content-Length announces.
IsLength(s, b, l) ==
    \/ l = "none" /\ \A i \in 2 .. b - 1 : s[i] \notin Lengths
    \/ \E j \in 2 .. b - 1 : /\ s[j] = l /\ l \in Lengths
                             /\ \A i \in j + 1 .. b - 1 : s[i] \notin Lengths

IsRequest(s, n) ==
    /\ n \in 1 .. Len(s)
    /\ s[1] \in Methods
    /\ \E b \in 2 .. n :
           /\ s[b] = "blank"
           /\ \A i \in 2 .. b - 1 : s[i] \in {"field"} \cup Lengths
           /\ \/ n = b /\ (IsLength(s, b, "none") \/ IsLength(s, b, "zero"))
              \/ n = b + 1 /\ IsLength(s, b, "one")

HasRequest(s) == \E n \in 1 .. Len(s) : IsRequest(s, n)

\* No line of s fills the buffer exactly.
Unsplit(s) == \A i \in 1 .. Len(s) : s[i] # "nl"

\* A response is begun only when a whole request has been read, with its body and not
\* a token more.  (A line that fills the buffer exactly makes its own line feed the
\* empty line, and the header ends there.)
AnswersOnlyRequests ==
    \A c \in Conns :
        (status[c] # "none" /\ Unsplit(script[c])) => IsRequest(script[c], taken[c])

\* A child that ends by itself has answered if there was a request to answer.
AnswersEveryRequest ==
    \A c \in Conns :
        (at[c] = "exited" /\ c \notin disturbed /\ Unsplit(script[c]) /\ HasRequest(script[c]))
            => status[c] # "none"

\* The units of the response to c: none but its head answers HEAD, the file that was
\* announced follows 200, a page follows an error.
Whole(c) ==
    IF method[c] = "HEAD" THEN 1 ELSE IF status[c] = "200" THEN 1 + size[c] ELSE 2

\* A client that sent one request and nothing else, and did not close, gets the whole
\* response, as long as the one its head announces, unless the file changed under the
\* child, could not be opened, or a call failed.
ResponseIsWhole ==
    \A c \in Conns :
        (/\ at[c] \in Finished /\ client[c] # "gone" /\ c \notin disturbed
         /\ Unsplit(script[c]) /\ IsRequest(script[c], Len(script[c])))
            => \/ got[c] = made[c] /\ made[c] = Whole(c)
               \/ status[c] = "200" /\ method[c] # "HEAD" /\ kind[c] # "regular"

\* Children of a server that has ended wait for clients that send nothing, and keep a
\* listening socket open that nobody accepts from.
HeldByChild == main = "exited" /\ \E c \in Live : ~HasRequest(script[c])

\* Every request that arrives is answered, or its connection ended, however long other
\* clients take; only a queue that is kept by a dead server's child is not emptied.
EveryRequestEnds ==
    \A c \in Conns : (Queued(c) /\ HasRequest(script[c])) ~> (Over(c) \/ HeldByChild)
=============================================================================
