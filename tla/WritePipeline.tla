--------------------------- MODULE WritePipeline ----------------------------
(***************************************************************************)
(* How the Firestore client of one device sends its writes: the persisted  *)
(* mutation queue of each user, the write pipeline of RemoteStore, the     *)
(* write stream with its token, handshake, idle timer and backoff, the     *)
(* worker queue that runs all of them, and the server at the other end.    *)
(*                                                                         *)
(* provider   the user the credentials provider has been told of           *)
(* requests   getToken calls not yet answered: fresh until the user        *)
(*            changes, live until the stream that asked is closed          *)
(* tasks      the worker queue: writes, user changes and tokens            *)
(* user       the sync engine's current user                               *)
(* queue      per user, the mutation queue on disk                         *)
(* awaited    per user, writes whose completion block is in memory         *)
(* pipeline   the writes handed to the stream, oldest first                *)
(* stream     its state, handshake_complete and whether the idle timer     *)
(*            runs                                                         *)
(* link       the connection: the user it was opened for, what the client  *)
(*            sent, what the server answered, and how the server closed it *)
(* author     who was signed in when the application made each write       *)
(* verdict    what the server last said of each write                      *)
(* told       what the completion block of each write was told             *)
(* spent      user changes and faults so far                               *)
(*                                                                         *)
(* No code reads author and verdict; the properties do. A write's number   *)
(* stands for its batch id, which grows with every write.                  *)
(***************************************************************************)
EXTENDS Integers, Sequences, FiniteSets

CONSTANTS
    Users,
    NoUser,             \* nobody: a closed connection, a failed token
    kMaxPendingWrites,  \* room in the pipeline
    MaxWrites,          \* bound on the writes of the application
    MaxSwitches,        \* bound on user changes and token refreshes
    MaxFaults           \* bound on lost connections, failed tokens, restarts

ASSUME UsersAssumption == NoUser \notin Users

ASSUME BoundsAssumption ==
    /\ kMaxPendingWrites \in Nat \ {0} /\ MaxWrites \in Nat
    /\ MaxSwitches \in Nat /\ MaxFaults \in Nat

VARIABLES provider, requests, tasks, user, queue, awaited, pipeline, stream,
          link, author, verdict, told, spent

vars == <<provider, requests, tasks, user, queue, awaited, pipeline, stream,
          link, author, verdict, told, spent>>

-----------------------------------------------------------------------------

Writes == 1 .. MaxWrites

Handshake == 0

States == {"Initial", "Starting", "Open", "Error", "Backoff"}

Statuses == {"permanent", "aborted", "transient"}

Request == [fresh |-> TRUE, live |-> TRUE]

WriteTask(w) == [kind |-> "write", write |-> w]
UserTask(u) == [kind |-> "user", user |-> u]
TokenTask(u, live) == [kind |-> "token", user |-> u, live |-> live]

Tasks ==
    {WriteTask(w) : w \in Writes} \cup {UserTask(u) : u \in Users}
    \cup {TokenTask(u, live) : u \in Users \cup {NoUser}, live \in BOOLEAN}

NoLink == [as |-> NoUser, sent |-> <<>>, replies |-> <<>>, closed |-> "no"]

IsStarted(s) == s.state \in {"Starting", "Backoff", "Open"}

\* The stream after Close: no idle timer and, once the listener has run, no
\* handshake.
Closed(state) == [state |-> state, handshake |-> FALSE, idle |-> FALSE]

\* Closing a stream makes its outstanding tokens worthless (close_count_).
Void(rs) == {[r EXCEPT !.live = FALSE] : r \in rs}

VoidTasks(ts) ==
    [i \in 1 .. Len(ts) |-> IF ts[i].kind = "token"
                            THEN [ts[i] EXCEPT !.live = FALSE] ELSE ts[i]]

Init ==
    /\ provider \in Users
    /\ user = provider
    /\ requests = {}
    /\ tasks = <<>>
    /\ queue = [u \in Users |-> <<>>]
    /\ awaited = [u \in Users |-> {}]
    /\ pipeline = <<>>
    /\ stream = Closed("Initial")
    /\ link = NoLink
    /\ author = <<>>
    /\ verdict = [w \in Writes |-> "none"]
    /\ told = [w \in Writes |-> "none"]
    /\ spent = [switches |-> 0, faults |-> 0]

-----------------------------------------------------------------------------
(* RemoteStore and Stream, from a stream s and outstanding requests rs      *)

\* How many batches of a queue, which is in batch order, are numbered up to w.
UpTo(q, w) == Cardinality({i \in 1 .. Len(q) : q[i] <= w})

\* Variant of Room: the pipeline's limit is off by one.
RoomForOneMore(p) == kMaxPendingWrites + 1 - Len(p)

Room(p) == kMaxPendingWrites - Len(p)

\* The batches FillWritePipeline takes from queue q behind pipeline p: those
\* after its last one (nextMutationBatchAfterBatchID), while there is room.
Fresh(q, p) ==
    LET from == IF p = <<>> THEN 0 ELSE UpTo(q, p[Len(p)])
        left == Len(q) - from
    IN SubSeq(q, from + 1, from + (IF Room(p) < left THEN Room(p) ELSE left))

Without(q, w) ==
    SubSeq(q, 1, UpTo(q, w) - 1) \o SubSeq(q, UpTo(q, w) + 1, Len(q))

\* A stream that failed waits first, and asks for a token afterwards.
Start(s, rs) ==
    IF s.state = "Error"
    THEN /\ stream' = [s EXCEPT !.state = "Backoff"]
         /\ requests' = rs
    ELSE /\ stream' = [s EXCEPT !.state = "Starting"]
         /\ requests' = rs \cup {Request}

StartIfNeeded(p, s, rs) ==
    IF p # <<>> /\ ~IsStarted(s)
    THEN Start(s, rs)
    ELSE stream' = s /\ requests' = rs

\* Variant of Wrote: sending does not stop the idle timer.
WroteKeepingTimer(s) == s

\* Stream::Write stops the idle timer.
Wrote(s) == [s EXCEPT !.idle = FALSE]

MarkIdle(s) == IF s.state = "Open" THEN [s EXCEPT !.idle = TRUE] ELSE s

\* Variant of FillWritePipeline: only an empty pipeline is filled.
FillWhenEmpty(q, p, s, k, rs) ==
    LET all == IF p = <<>> THEN Fresh(q, p) ELSE p
        talking == s.state = "Open" /\ s.handshake /\ p = <<>>
    IN /\ pipeline' = all
       /\ link' = IF talking THEN [k EXCEPT !.sent = @ \o all] ELSE k
       /\ StartIfNeeded(all, IF all = <<>> THEN MarkIdle(s)
                             ELSE IF talking THEN Wrote(s) ELSE s, rs)

\* The pipeline takes what it has room for and sends it if the stream may
\* write; if there is nothing at all, the idle timer starts.
FillWritePipeline(q, p, s, k, rs) ==
    LET new == Fresh(q, p)
        all == p \o new
        sending == new # <<>> /\ s.state = "Open" /\ s.handshake
    IN /\ pipeline' = all
       /\ link' = IF sending THEN [k EXCEPT !.sent = @ \o new] ELSE k
       /\ StartIfNeeded(all, IF all = <<>> THEN MarkIdle(s)
                             ELSE IF sending THEN Wrote(s) ELSE s, rs)

\* processUserCallbacks and the removal of the batch, in one transaction of
\* the worker queue. Writes of an earlier run have no completion block.
Resolve(w, answer) ==
    /\ queue' = [queue EXCEPT ![user] = Without(@, w)]
    /\ awaited' = [awaited EXCEPT ![user] = @ \ {w}]
    /\ told' = IF w \in awaited[user] THEN [told EXCEPT ![w] = answer] ELSE told

\* Variant of IsWriteError: an aborted write is refused, too.
IsPermanentError(status) ==
    pipeline # <<>> /\ stream.handshake /\ status \in {"permanent", "aborted"}

\* Variant of IsWriteError: handshake_complete_ was reset before the callback.
IsNoError(status) == FALSE

\* Variant of IsWriteError: an error before the handshake counts, too.
IsAnyWriteError(status) == pipeline # <<>> /\ status = "permanent"

\* Whether a closed stream is the fault of the first write of the pipeline.
IsWriteError(status) ==
    pipeline # <<>> /\ stream.handshake /\ status = "permanent"

\* Close with an error, with ts the tasks left: the first write is rejected,
\* without backoff, or the stream tries again later.
OnStreamFinish(status, ts) ==
    /\ tasks' = VoidTasks(ts)
    /\ IF IsWriteError(status)
       THEN /\ Resolve(Head(pipeline), "refused")
            /\ FillWritePipeline(queue'[user], Tail(pipeline),
                                 Closed("Initial"), NoLink, Void(requests))
       ELSE /\ StartIfNeeded(pipeline, Closed("Error"), Void(requests))
            /\ link' = NoLink
            /\ UNCHANGED <<pipeline, queue, awaited, told>>

-----------------------------------------------------------------------------
(* The application and the accounts                                         *)

AppWrites ==
    /\ Len(author) < MaxWrites
    /\ author' = Append(author, provider)
    /\ tasks' = Append(tasks, WriteTask(Len(author) + 1))
    /\ UNCHANGED <<provider, requests, user, queue, awaited, pipeline, stream,
                   link, verdict, told, spent>>

\* A user signs in or out, or the account's token is refreshed: the listener
\* queues the change and every getToken call under way is spoilt.
AuthChanges(u) ==
    /\ spent.switches < MaxSwitches
    /\ spent' = [spent EXCEPT !.switches = @ + 1]
    /\ provider' = u
    /\ requests' = {[r EXCEPT !.fresh = FALSE] : r \in requests}
    /\ tasks' = Append(tasks, UserTask(u))
    /\ UNCHANGED <<user, queue, awaited, pipeline, stream, link, author,
                   verdict, told>>

\* The token a getToken call returns: none if the user changed meanwhile.
TokenFor(r) == IF r.fresh THEN provider ELSE NoUser

GotToken(r) ==
    /\ tasks' = Append(tasks, TokenTask(TokenFor(r), r.live))
    /\ requests' = requests \ {r}
    /\ UNCHANGED <<provider, user, queue, awaited, pipeline, stream, link,
                   author, verdict, told, spent>>

NoToken(r) ==
    /\ spent.faults < MaxFaults
    /\ spent' = [spent EXCEPT !.faults = @ + 1]
    /\ tasks' = Append(tasks, TokenTask(NoUser, r.live))
    /\ requests' = requests \ {r}
    /\ UNCHANGED <<provider, user, queue, awaited, pipeline, stream, link,
                   author, verdict, told>>

-----------------------------------------------------------------------------
(* The worker queue                                                         *)

RunWrite(w) ==
    /\ queue' = [queue EXCEPT ![user] = Append(@, w)]
    /\ awaited' = [awaited EXCEPT ![user] = @ \cup {w}]
    /\ tasks' = Tail(tasks)
    /\ FillWritePipeline(queue'[user], pipeline, stream, link, requests)
    /\ UNCHANGED <<provider, user, author, verdict, told, spent>>

\* Variant of RunUser: the queue changes, the streams are not restarted.
RunUserKeepingStream(u) ==
    /\ user' = u
    /\ tasks' = Tail(tasks)
    /\ FillWritePipeline(queue[u], <<>>, stream, link, requests)
    /\ UNCHANGED <<provider, queue, awaited, author, verdict, told, spent>>

\* credentialDidChange: the queue of the new user takes over, the stream is
\* stopped and the pipeline refilled, also if the user is the same.
RunUser(u) ==
    LET s == IF IsStarted(stream) THEN Closed("Initial") ELSE stream IN
    /\ user' = u
    /\ tasks' = VoidTasks(Tail(tasks))
    /\ FillWritePipeline(queue[u], <<>>, s, NoLink, Void(requests))
    /\ UNCHANGED <<provider, queue, awaited, author, verdict, told, spent>>

\* Variant of Awaited: the close count is not compared.
AwaitedAlways(task) == TRUE

Awaited(task) == task.live

\* A token opens the stream, whose first message is the handshake; a missing
\* one fails it.
RunToken(task) ==
    /\ IF ~Awaited(task)
       THEN /\ tasks' = Tail(tasks)
            /\ UNCHANGED <<requests, queue, awaited, pipeline, stream, link,
                           told>>
       ELSE IF task.user = NoUser
       THEN OnStreamFinish("transient", Tail(tasks))
       ELSE /\ tasks' = Tail(tasks)
            /\ stream' = [stream EXCEPT !.state = "Open"]
            /\ link' = [NoLink EXCEPT !.as = task.user, !.sent = <<Handshake>>]
            /\ UNCHANGED <<requests, queue, awaited, pipeline, told>>
    /\ UNCHANGED <<provider, user, author, verdict, spent>>

RunTask ==
    /\ tasks # <<>>
    /\ LET task == Head(tasks) IN
       \/ task.kind = "write" /\ RunWrite(task.write)
       \/ task.kind = "user" /\ RunUser(task.user)
       \/ task.kind = "token" /\ RunToken(task)

BackoffElapsed ==
    /\ stream.state = "Backoff"
    /\ Start([stream EXCEPT !.state = "Initial"], requests)
    /\ UNCHANGED <<provider, tasks, user, queue, awaited, pipeline, link,
                   author, verdict, told, spent>>

\* Also what a stream is that the server ends with the status OK, when nothing
\* waits to be written: the timer always runs then. Of one that is needed the
\* code asserts that it is not ended like that.
IdleTimeout ==
    /\ stream.idle
    /\ stream' = Closed("Initial")
    /\ link' = NoLink
    /\ UNCHANGED <<provider, requests, tasks, user, queue, awaited, pipeline,
                   author, verdict, told, spent>>

\* Variant of OnHandshakeComplete: only the first write is sent.
OnHandshakeSendsOne ==
    /\ stream' = Wrote([stream EXCEPT !.handshake = TRUE])
    /\ link' = [link EXCEPT !.replies = Tail(@),
                            !.sent = @ \o SubSeq(pipeline, 1, 1)]
    /\ UNCHANGED <<requests, queue, awaited, pipeline, told>>

\* The first answer on a connection completes the handshake: the whole
\* pipeline is sent.
OnHandshakeComplete ==
    /\ stream' = Wrote([stream EXCEPT !.handshake = TRUE])
    /\ link' = [link EXCEPT !.replies = Tail(@), !.sent = @ \o pipeline]
    /\ UNCHANGED <<requests, queue, awaited, pipeline, told>>

\* Any later answer belongs to the first write of the pipeline.
OnMutationResult ==
    /\ Resolve(Head(pipeline), "ok")
    /\ FillWritePipeline(queue'[user], Tail(pipeline), stream,
                         [link EXCEPT !.replies = Tail(@)], requests)

OnStreamRead ==
    /\ link.replies # <<>>
    /\ IF stream.handshake THEN OnMutationResult ELSE OnHandshakeComplete
    /\ UNCHANGED <<provider, tasks, user, author, verdict, spent>>

\* The status of a connection is read after the answers it still held.
OnStreamClosed ==
    /\ link.replies = <<>>
    /\ link.closed # "no"
    /\ OnStreamFinish(link.closed, tasks)
    /\ UNCHANGED <<provider, user, author, verdict, spent>>

-----------------------------------------------------------------------------
(* The server, the network and the device                                   *)

ServerAccepts ==
    /\ link.sent # <<>>
    /\ link.closed = "no"
    /\ link' = [link EXCEPT !.sent = Tail(@),
                            !.replies = Append(@, Head(link.sent))]
    /\ verdict' = IF Head(link.sent) = Handshake THEN verdict
                  ELSE [verdict EXCEPT ![Head(link.sent)] = "ok"]
    /\ UNCHANGED <<provider, requests, tasks, user, queue, awaited, pipeline,
                   stream, author, told, spent>>

\* A refused write ends the connection; nothing behind it is executed.
ServerRefuses ==
    /\ link.sent # <<>>
    /\ link.closed = "no"
    /\ Head(link.sent) # Handshake
    /\ link' = [link EXCEPT !.sent = <<>>, !.closed = "permanent"]
    /\ verdict' = [verdict EXCEPT ![Head(link.sent)] = "refused"]
    /\ UNCHANGED <<provider, requests, tasks, user, queue, awaited, pipeline,
                   stream, author, told, spent>>

\* The connection ends, for any other reason, before or after the handshake:
\* what the server did not take is lost, and some of its last answers.
Lose(status) ==
    /\ stream.state = "Open"
    /\ status = "permanent" => Handshake \in {link.sent[i] : i \in DOMAIN link.sent}
    /\ spent.faults < MaxFaults
    /\ spent' = [spent EXCEPT !.faults = @ + 1]
    /\ \E n \in 0 .. Len(link.replies) :
        link' = [link EXCEPT !.sent = <<>>, !.closed = status,
                             !.replies = SubSeq(@, 1, n)]
    /\ UNCHANGED <<provider, requests, tasks, user, queue, awaited, pipeline,
                   stream, author, verdict, told>>

\* The application ends and starts again: the queues and the account are on
\* disk, everything else is gone. RemoteStore::Start fills the pipeline.
Restart ==
    /\ spent.faults < MaxFaults
    /\ spent' = [spent EXCEPT !.faults = @ + 1]
    /\ user' = provider
    /\ tasks' = <<>>
    /\ awaited' = [u \in Users |-> {}]
    /\ FillWritePipeline(queue[provider], <<>>, Closed("Initial"), NoLink, {})
    /\ UNCHANGED <<provider, queue, author, verdict, told>>

Server == ServerAccepts \/ ServerRefuses

Client ==
    \/ RunTask \/ BackoffElapsed \/ IdleTimeout
    \/ OnStreamRead \/ OnStreamClosed

Next ==
    \/ AppWrites
    \/ \E u \in Users : AuthChanges(u)
    \/ \E r \in requests : GotToken(r) \/ NoToken(r)
    \/ Client \/ Server
    \/ \E status \in Statuses : Lose(status)
    \/ Restart

Spec == Init /\ [][Next]_vars

\* The worker queue runs what it holds and what its timers and the network
\* add to it, accounts give an answer to getToken, and a server that can be
\* reached answers. Nothing makes the application, users or losses act.
Fairness ==
    /\ WF_vars(RunTask) /\ WF_vars(BackoffElapsed)
    /\ WF_vars(OnStreamRead) /\ WF_vars(OnStreamClosed)
    /\ WF_vars(\E r \in requests : GotToken(r))
    /\ WF_vars(Server)

FairSpec == Spec /\ Fairness

-----------------------------------------------------------------------------

TokenTasks == {i \in 1 .. Len(tasks) : tasks[i].kind = "token"}

TypeOK ==
    /\ provider \in Users /\ user \in Users
    /\ requests \subseteq [fresh : BOOLEAN, live : BOOLEAN]
    /\ tasks \in Seq(Tasks)
    /\ queue \in [Users -> Seq(Writes)]
    /\ awaited \in [Users -> SUBSET Writes]
    /\ pipeline \in Seq(Writes) /\ Len(pipeline) <= kMaxPendingWrites
    /\ stream \in [state : States, handshake : BOOLEAN, idle : BOOLEAN]
    /\ link \in [as : Users \cup {NoUser}, sent : Seq({Handshake} \cup Writes),
                 replies : Seq({Handshake} \cup Writes),
                 closed : Statuses \cup {"no"}]
    /\ author \in Seq(Users) /\ Len(author) <= MaxWrites
    /\ verdict \in [Writes -> {"none", "ok", "refused"}]
    /\ told \in [Writes -> {"none", "ok", "refused"}]
    /\ spent \in [switches : Nat, faults : Nat]

\* Everything a connection carries was written by the user it was opened for,
\* who is the client's current user, whatever token requests, user changes
\* and writes crossed each other on the worker queue.
ConnectionOfOneUser ==
    stream.state = "Open" =>
        /\ link.as = user
        /\ \A w \in Writes :
            w \in {link.sent[i] : i \in DOMAIN link.sent}
                  \cup {link.replies[i] : i \in DOMAIN link.replies} =>
                author[w] = link.as

\* The pipeline is the front of the current user's queue and as long as it
\* can be, whichever way the stream last ended.
PipelineIsFront ==
    /\ pipeline = Fresh(queue[user], <<>>)
    /\ pipeline # <<>> => IsStarted(stream)

\* An answer is taken for the first write of the pipeline: answers and
\* unanswered requests together are the pipeline, write by write ("should be
\* correlated to the first write in our write pipeline").
AnswersMatchPipeline ==
    stream.state = "Open" /\ link.closed = "no" =>
        link.replies \o link.sent =
            IF stream.handshake THEN pipeline ELSE <<Handshake>>

\* A completion block is told what the server last said of its write, never
\* the answer of another write or a lost connection's error.
ToldTheTruth ==
    \A w \in Writes : told[w] # "none" => told[w] = verdict[w]

\* One token is on its way exactly while the stream is Starting: no token
\* finds the stream in another state, and no stream waits for none.
OneTokenWhileStarting ==
    Cardinality({r \in requests : r.live})
    + Cardinality({i \in TokenTasks : tasks[i].live})
        = IF stream.state = "Starting" THEN 1 ELSE 0

\* The idle timer runs exactly on an open stream that nothing waits for: it
\* never stops one that is needed ("Write stream was stopped gracefully while
\* still needed"), and one that is not needed does not stay open.
NotStoppedWhileNeeded ==
    stream.idle <=> stream.state = "Open" /\ pipeline = <<>>

\* The pipeline is in step with the queue it is taken from, the connection it
\* is sent over and the stream that has to be running for it.
PipelineInStep ==
    /\ PipelineIsFront /\ AnswersMatchPipeline
    /\ OneTokenWhileStarting /\ NotStoppedWhileNeeded

\* The answers on the wire, as the queue of the current user sees them.
AnswersOf(u) ==
    IF u # user \/ ~stream.handshake THEN <<>>
    ELSE [i \in 1 .. Len(link.replies) |-> "ok"]
         \o (IF link.closed = "permanent" THEN <<"refused">> ELSE <<>>)

Answered == [u \in Users |-> AnswersOf(u)]

\* Each user's queue is a queue of writes answered in order.
Queue == INSTANCE WriteQueue WITH
            Clients <- Users, pending <- queue, answers <- Answered

QueueSpec == Queue!Spec

\* The queue of the signed-in user drains and its completions are called,
\* again and again, over refusals, lost connections and user changes.
QueueDrains ==
    []<>(queue[user] = <<>> /\ awaited[user] = {})
=============================================================================
