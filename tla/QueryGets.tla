------------------------------ MODULE QueryGets ------------------------------
(***************************************************************************)
(* getDocuments and getDocument, which every list and profile is loaded    *)
(* with: a listener that removes itself after its first event, on top of   *)
(* the event manager, the watch stream of RemoteStore, the tracker of the  *)
(* online state and the server's watch protocol.                           *)
(*                                                                         *)
(* query        what each get asks for, once it has been called            *)
(* tasks        the worker queue: listeners to add and to remove           *)
(* listeners    per query, the gets listening to it                        *)
(* view         per query, "none" if nobody listens, else whether the      *)
(*              view is synced with the server or only local               *)
(* raised       gets whose first event has been raised                     *)
(* events       per get, events posted to the main queue                   *)
(* muted        gets whose registration has been removed                   *)
(* answers      per get, what its completion block was given               *)
(* online       the online state, the failures counted and the timer       *)
(* stream       the watch stream's state and whether its idle timer runs   *)
(* requests     watches and unwatches on the wire                          *)
(* messages     what the server sent and the client has not read           *)
(* watched      how far the server is with a query on this connection: it  *)
(*              watches it, has sent CURRENT, has sent a snapshot since    *)
(* outstanding  per query, requests the server has not acknowledged        *)
(* current      queries whose target is marked CURRENT                     *)
(* pending      queries whose target has that mark to show in a snapshot   *)
(* kept         queries watched again before the end of their last watch   *)
(*              was acknowledged, its mark still there: no variable of the *)
(*              code, it is what SyncIsForThisWatch excepts                *)
(* turns        lost connections and tokens, user changes and snapshots    *)
(*              with nothing new so far                                    *)
(***************************************************************************)
EXTENDS Integers, Sequences, SequencesExt

CONSTANTS
    Gets,         \* calls of getDocuments and getDocument
    Queries,
    Asks,         \* per get, what it may ask for
    NoQuery,      \* of a get not called yet
    MaxTurns      \* bound, per set of queries asked for, on lost connections
                  \* and failed tokens, changes of the user and snapshots with
                  \* no query newly current

ASSUME QueryAssumption ==
    /\ Asks \in [Gets -> SUBSET Queries]
    /\ IsFiniteSet(Queries) /\ NoQuery \notin Queries

ASSUME BoundsAssumption == MaxTurns \in [SUBSET Queries -> Nat]

VARIABLES query, tasks, listeners, view, raised, events, muted, answers, online,
          stream, requests, messages, watched, outstanding, current, pending,
          kept, turns

vars == <<query, tasks, listeners, view, raised, events, muted, answers, online,
          stream, requests, messages, watched, outstanding, current, pending,
          kept, turns>>

app == <<query, tasks, muted, answers>>
marks == <<current, pending, kept>>
link == <<requests, messages, watched, outstanding, marks>>
views == <<view, raised, events>>

-----------------------------------------------------------------------------

kMaxWatchStreamFailures == 1

States == {"Initial", "Starting", "Open", "Error", "Backoff"}

Answers == {"server", "cache"}

IsStarted(s) == s.state \in {"Starting", "Backoff", "Open"}

Closed(state) == [state |-> state, idle |-> FALSE]

Targets == {q \in Queries : view[q] # "none"}

Listening == UNION {listeners[q] : q \in Queries}

Init ==
    /\ query = [g \in Gets |-> NoQuery]
    /\ tasks = <<>>
    /\ listeners = [q \in Queries |-> {}]
    /\ view = [q \in Queries |-> "none"]
    /\ raised = {}
    /\ events = [g \in Gets |-> <<>>]
    /\ muted = {}
    /\ answers = [g \in Gets |-> <<>>]
    /\ online = [state |-> "Unknown", failures |-> 0, timer |-> FALSE]
    /\ stream = Closed("Initial")
    /\ requests = <<>>
    /\ messages = <<>>
    /\ watched = [q \in Queries |-> "no"]
    /\ outstanding = [q \in Queries |-> 0]
    /\ current = {}
    /\ pending = {}
    /\ kept = {}
    /\ turns = 0

Turn ==
    /\ turns < MaxTurns[{query[g] : g \in Gets} \ {NoQuery}]
    /\ turns' = turns + 1

-----------------------------------------------------------------------------
(* OnlineStateTracker: each handler as a function of the tracker            *)

\* Variant of UpdateState: the timer keeps running.
UpdateStateKeepingTimer(o, state) ==
    [o EXCEPT !.state = state, !.failures = 0]

UpdateState(o, state) == [state |-> state, failures |-> 0, timer |-> FALSE]

\* Variant of HandleWatchStreamStart: no timer is armed.
HandleStartUnarmed(o) ==
    IF o.failures # 0 THEN o ELSE [o EXCEPT !.state = "Unknown"]

\* The timer is armed for the first attempt only.
HandleWatchStreamStart(o) ==
    IF o.failures # 0 THEN o
    ELSE [o EXCEPT !.state = "Unknown", !.timer = TRUE]

\* Variant of HandleWatchStreamFailure: the failure is counted, the timer
\* stopped, and the state left as it was.
HandleFailureQuietly(o) ==
    IF o.state = "Online"
    THEN [o EXCEPT !.state = "Unknown"]
    ELSE [o EXCEPT !.failures = @ + 1, !.timer = FALSE]

HandleWatchStreamFailure(o) ==
    IF o.state = "Online"
    THEN [o EXCEPT !.state = "Unknown"]
    ELSE IF o.failures + 1 < kMaxWatchStreamFailures
    THEN [o EXCEPT !.failures = @ + 1]
    ELSE [state |-> "Offline", failures |-> o.failures + 1, timer |-> FALSE]

\* Variant of Announce: only views that change are told of going offline.
AnnounceToSynced(o) ==
    IF o.state = "Offline" /\ online.state # "Offline"
    THEN LET told == {g \in Listening : view[query[g]] = "synced"}
         IN /\ view' = [q \in Queries |-> IF view[q] = "synced" THEN "local"
                                          ELSE view[q]]
            /\ events' = [g \in Gets |-> IF g \in told
                                         THEN Append(events[g], "cache")
                                         ELSE events[g]]
            /\ raised' = raised \cup told
    ELSE UNCHANGED <<view, raised, events>>

\* The tracker's new state is broadcast. Offline, synced views become local,
\* which every listener is told, and those still waiting get what is cached.
Announce(o) ==
    IF o.state = "Offline" /\ online.state # "Offline"
    THEN LET told == {g \in Listening :
                        g \notin raised \/ view[query[g]] = "synced"}
         IN /\ view' = [q \in Queries |-> IF view[q] = "synced" THEN "local"
                                          ELSE view[q]]
            /\ events' = [g \in Gets |-> IF g \in told
                                         THEN Append(events[g], "cache")
                                         ELSE events[g]]
            /\ raised' = raised \cup told
    ELSE UNCHANGED <<view, raised, events>>

-----------------------------------------------------------------------------
(* The application and the main queue                                       *)

\* getDocuments adds its listener on the worker queue.
GetDocuments(g) ==
    /\ query[g] = NoQuery
    /\ \E q \in Asks[g] : query' = [query EXCEPT ![g] = q]
    /\ tasks' = Append(tasks, [kind |-> "add", get |-> g])
    /\ UNCHANGED <<listeners, views, muted, answers, online, stream, link,
                   turns>>

\* Variant of Heard: events of a removed registration are delivered.
HeardAlways(g) == TRUE

Heard(g) == g \notin muted

\* An event runs: the first one removes the registration, on the spot as far
\* as further events go, and calls the completion block.
RunEvent(g) ==
    /\ events[g] # <<>>
    /\ events' = [events EXCEPT ![g] = Tail(@)]
    /\ IF Heard(g)
       THEN /\ muted' = muted \cup {g}
            /\ tasks' = Append(tasks, [kind |-> "remove", get |-> g])
            /\ answers' = [answers EXCEPT ![g] = Append(@, Head(events[g]))]
            /\ UNCHANGED query
       ELSE UNCHANGED app
    /\ UNCHANGED <<listeners, view, raised, online, stream, link, turns>>

-----------------------------------------------------------------------------
(* The worker queue                                                         *)

\* Variant of Sent: an idle stream stays idle.
SentKeepingTimer(s) == s

\* A request on the stream stops its idle timer.
Sent(s) == [s EXCEPT !.idle = FALSE]

\* Variant of Request: an unwatch is not counted as outstanding.
RequestUncounted(kind, q) ==
    /\ requests' = Append(requests, [kind |-> kind, query |-> q])
    /\ outstanding' = [outstanding EXCEPT ![q] =
                            IF kind = "watch" THEN @ + 1 ELSE @]

Request(kind, q) ==
    /\ requests' = Append(requests, [kind |-> kind, query |-> q])
    /\ outstanding' = [outstanding EXCEPT ![q] = @ + 1]

\* A connection that is gone: nothing of it is read any more, and the next
\* one starts with a new WatchChangeAggregator.
NoConnection ==
    /\ requests' = <<>>
    /\ messages' = <<>>
    /\ watched' = [q \in Queries |-> "no"]
    /\ outstanding' = [q \in Queries |-> 0]
    /\ current' = {}
    /\ pending' = {}
    /\ kept' = {}

StartedStream(s) ==
    [s EXCEPT !.state = IF @ = "Error" THEN "Backoff" ELSE "Starting"]

\* addListener: the first listener of a query starts the watch, a later one
\* gets the last snapshot. The first event waits for a synced view unless
\* the client is offline.
RunAdd(g) ==
    LET q == query[g]
        first == listeners[q] = {}
    IN
    /\ listeners' = [listeners EXCEPT ![q] = @ \cup {g}]
    /\ view' = IF first THEN [view EXCEPT ![q] = "local"] ELSE view
    /\ IF view[q] = "synced" \/ online.state = "Offline"
       THEN /\ raised' = raised \cup {g}
            /\ events' = [events EXCEPT ![g] =
                    Append(@, IF view[q] = "synced" THEN "server" ELSE "cache")]
       ELSE UNCHANGED <<raised, events>>
    /\ IF first /\ ~IsStarted(stream)
       THEN /\ stream' = StartedStream(stream)
            /\ online' = HandleWatchStreamStart(online)
            /\ UNCHANGED link
       ELSE IF first /\ stream.state = "Open"
       THEN /\ stream' = Sent(stream)
            /\ Request("watch", q)
            /\ kept' = IF q \in current /\ outstanding[q] > 0
                       THEN kept \cup {q} ELSE kept
            /\ UNCHANGED <<messages, watched, current, pending, online>>
       ELSE UNCHANGED <<stream, online, link>>
    /\ tasks' = Tail(tasks)
    /\ UNCHANGED <<query, muted, answers, turns>>

\* removeListener: the last listener of a query ends the watch. With none
\* left an open stream becomes idle, and the online state of another unknown.
RunRemove(g) ==
    LET q == query[g]
        last == listeners[q] = {g}
        none == \A p \in Queries \ {q} : view[p] = "none"
    IN
    /\ listeners' = [listeners EXCEPT ![q] = @ \ {g}]
    /\ view' = IF last THEN [view EXCEPT ![q] = "none"] ELSE view
    /\ IF last /\ stream.state = "Open"
       THEN /\ Request("unwatch", q)
            /\ stream' = [stream EXCEPT !.idle = none]
            /\ UNCHANGED <<messages, watched, marks, online>>
       ELSE /\ online' = IF last /\ none THEN UpdateState(online, "Unknown")
                         ELSE online
            /\ UNCHANGED <<stream, link>>
    /\ tasks' = Tail(tasks)
    /\ UNCHANGED <<query, raised, events, muted, answers, turns>>

RunTask ==
    /\ tasks # <<>>
    /\ LET task == Head(tasks) IN
       \/ task.kind = "add" /\ RunAdd(task.get)
       \/ task.kind = "remove" /\ RunRemove(task.get)

\* Variant of OpenStream: watches are not sent again.
OpenStreamOnly ==
    /\ requests' = <<>>
    /\ UNCHANGED outstanding

\* OnWatchStreamOpen sends a watch for every query listened to.
OpenStream ==
    /\ requests' = [i \in 1 .. Cardinality(Targets) |->
                        [kind |-> "watch", query |-> SetToSeq(Targets)[i]]]
    /\ outstanding' = [q \in Queries |-> IF q \in Targets THEN 1 ELSE 0]

TokenArrives ==
    /\ stream.state = "Starting"
    /\ stream' = [stream EXCEPT !.state = "Open"]
    /\ OpenStream
    /\ UNCHANGED <<app, listeners, views, online, messages, watched, marks,
                   turns>>

\* The stream fails, for want of a token or on a lost connection. With gets
\* waiting it backs off and tries again.
StreamFails ==
    /\ stream.state \in {"Starting", "Open"}
    /\ Turn
    /\ IF Targets = {}
       THEN /\ stream' = Closed("Error")
            /\ online' = UpdateState(online, "Unknown")
       ELSE /\ stream' = StartedStream(Closed("Error"))
            /\ online' = HandleWatchStreamStart(HandleWatchStreamFailure(online))
    /\ Announce(online')
    /\ NoConnection
    /\ UNCHANGED <<app, listeners>>

\* Not a start of the watch stream as the tracker counts them.
BackoffElapsed ==
    /\ stream.state = "Backoff"
    /\ stream' = [stream EXCEPT !.state = "Starting"]
    /\ UNCHANGED <<app, listeners, views, online, link, turns>>

\* A graceful end of the stream, which must not be needed any more.
StopStream ==
    /\ stream' = Closed("Initial")
    /\ online' = UpdateState(online, "Unknown")
    /\ NoConnection
    /\ UNCHANGED <<app, listeners, views, turns>>

IdleTimeout == stream.idle /\ StopStream

\* The server ends a stream nobody needs, its status OK. Of one that is needed
\* the code asserts that it does not.
ServerEnds == stream.state = "Open" /\ Targets = {} /\ StopStream

OnlineStateTimeout ==
    /\ online.timer
    /\ online' = [online EXCEPT !.state = "Offline", !.timer = FALSE]
    /\ Announce(online')
    /\ UNCHANGED <<app, listeners, stream, link, turns>>

\* HandleCredentialChange stops the stream and starts it again if needed.
UserChanges ==
    LET s == IF IsStarted(stream) THEN Closed("Initial") ELSE stream
        o == UpdateState(online, "Unknown")
    IN
    /\ Turn
    /\ stream' = IF Targets = {} THEN s ELSE StartedStream(s)
    /\ online' = IF Targets = {} THEN o ELSE HandleWatchStreamStart(o)
    /\ NoConnection
    /\ UNCHANGED <<app, listeners, views>>

\* Variant of IsActiveTarget: outstanding responses are not looked at.
IsAnyTarget(q) == q \in Targets

\* A query all of whose requests the server has acknowledged.
IsActiveTarget(q) == q \in Targets /\ outstanding[q] = 0

\* Variant of RemoveTarget: the mark of the target stays.
RemoveTargetKeepingMark(q) ==
    /\ pending' = pending \ {q}
    /\ kept' = kept \ {q}
    /\ UNCHANGED current

\* The target's state is erased.
RemoveTarget(q) ==
    /\ current' = current \ {q}
    /\ pending' = pending \ {q}
    /\ kept' = kept \ {q}

\* A request is acknowledged. A target added with nothing outstanding drops its
\* pending changes, not its mark; one removed is erased.
TargetAdded(q) ==
    /\ outstanding' = [outstanding EXCEPT ![q] = @ - 1]
    /\ pending' = IF outstanding[q] = 1 THEN pending \ {q} ELSE pending
    /\ UNCHANGED <<current, kept>>

TargetRemoved(q) ==
    /\ outstanding' = [outstanding EXCEPT ![q] = @ - 1]
    /\ IF outstanding[q] = 1 THEN RemoveTarget(q) ELSE UNCHANGED marks

TargetCurrent(q) ==
    /\ current' = IF IsActiveTarget(q) THEN current \cup {q} ELSE current
    /\ pending' = IF IsActiveTarget(q) THEN pending \cup {q} ELSE pending
    /\ UNCHANGED <<outstanding, kept>>

\* The views of the changed targets become what the targets are marked, which
\* every listener of theirs hears.
ApplyTargetChanges(changed) ==
    LET synced == {q \in changed : q \in current /\ view[q] = "local"}
        unsynced == {q \in changed : q \notin current /\ view[q] = "synced"}
    IN
    /\ view' = [q \in Queries |-> IF q \in synced THEN "synced"
                                  ELSE IF q \in unsynced THEN "local"
                                  ELSE view[q]]
    /\ raised' = raised \cup UNION {listeners[q] : q \in synced}
    /\ events' = [g \in Gets |->
            IF \E q \in synced : g \in listeners[q]
            THEN Append(events[g], "server")
            ELSE IF \E q \in unsynced : g \in listeners[q]
            THEN Append(events[g], "cache")
            ELSE events[g]]

\* A global snapshot: of the active targets, those with pending changes, be it
\* the mark or the documents and the token read with the snapshot.
RaiseWatchSnapshot ==
    /\ \E touched \in SUBSET Queries :
        LET changed == {q \in touched \cup pending : IsActiveTarget(q)} IN
        /\ ApplyTargetChanges(changed)
        /\ pending' = pending \ changed
    /\ UNCHANGED <<outstanding, current, kept>>

\* Any message proves the client online.
OnWatchStreamChange ==
    /\ messages # <<>>
    /\ messages' = Tail(messages)
    /\ online' = UpdateState(online, "Online")
    /\ LET m == Head(messages) IN
       \/ m.kind = "added" /\ TargetAdded(m.query) /\ UNCHANGED views
       \/ m.kind = "removed" /\ TargetRemoved(m.query) /\ UNCHANGED views
       \/ m.kind = "current" /\ TargetCurrent(m.query) /\ UNCHANGED views
       \/ m.kind = "snapshot" /\ RaiseWatchSnapshot
    /\ UNCHANGED <<app, listeners, stream, requests, watched, turns>>

-----------------------------------------------------------------------------
(* The server                                                               *)

\* Requests are acknowledged one by one.
ServerTakes ==
    /\ requests # <<>>
    /\ LET r == Head(requests)
           watch == r.kind = "watch"
       IN
       /\ messages' = Append(messages,
                [kind |-> IF watch THEN "added" ELSE "removed",
                 query |-> r.query])
       /\ watched' = [watched EXCEPT ![r.query] =
                        IF watch THEN "yes" ELSE "no"]
    /\ requests' = Tail(requests)
    /\ UNCHANGED <<app, listeners, views, online, stream, outstanding, marks,
                   turns>>

\* All of a query being watched has been sent.
ServerCurrent(q) ==
    /\ watched[q] = "yes"
    /\ watched' = [watched EXCEPT ![q] = "current"]
    /\ messages' = Append(messages, [kind |-> "current", query |-> q])
    /\ UNCHANGED <<app, listeners, views, online, stream, requests,
                   outstanding, marks, turns>>

NewlyCurrent == {q \in Queries : watched[q] = "current"}

\* A consistent snapshot of all queries follows, or is sent in between.
ServerSnapshot ==
    /\ \E q \in Queries : watched[q] # "no"
    /\ IF NewlyCurrent = {} THEN Turn ELSE UNCHANGED turns
    /\ watched' = [q \in Queries |->
                    IF q \in NewlyCurrent THEN "synced" ELSE watched[q]]
    /\ messages' = Append(messages, [kind |-> "snapshot", query |-> NoQuery])
    /\ UNCHANGED <<app, listeners, views, online, stream, requests,
                   outstanding, marks>>

Server ==
    \/ ServerTakes
    \/ \E q \in Queries : ServerCurrent(q)
    \/ ServerSnapshot

Next ==
    \/ \E g \in Gets : GetDocuments(g) \/ RunEvent(g)
    \/ RunTask \/ OnWatchStreamChange
    \/ TokenArrives \/ StreamFails \/ BackoffElapsed
    \/ IdleTimeout \/ ServerEnds \/ OnlineStateTimeout
    \/ UserChanges
    \/ Server

Spec == Init /\ [][Next]_vars

\* The main queue and the worker queue run what they hold, timers expire and
\* a token is given. Nothing makes the server or the application act.
Fairness ==
    /\ \A g \in Gets : WF_vars(RunEvent(g))
    /\ WF_vars(RunTask) /\ WF_vars(OnWatchStreamChange)
    /\ WF_vars(TokenArrives) /\ WF_vars(BackoffElapsed)
    /\ WF_vars(OnlineStateTimeout)

FairSpec == Spec /\ Fairness

-----------------------------------------------------------------------------

TypeOK ==
    /\ query \in [Gets -> Queries \cup {NoQuery}]
    /\ tasks \in Seq([kind : {"add", "remove"}, get : Gets])
    /\ \A q \in Queries : listeners[q] \subseteq {g \in Gets : query[g] = q}
    /\ view \in [Queries -> {"none", "local", "synced"}]
    /\ \A q \in Queries : view[q] = "none" <=> listeners[q] = {}
    /\ raised \subseteq {g \in Gets : query[g] # NoQuery} /\ muted \subseteq raised
    /\ events \in [Gets -> Seq(Answers)]
    /\ answers \in [Gets -> Seq(Answers)]
    /\ online \in [state : {"Unknown", "Online", "Offline"},
                   failures : Nat, timer : BOOLEAN]
    /\ stream \in [state : States, idle : BOOLEAN]
    /\ requests \in Seq([kind : {"watch", "unwatch"}, query : Queries])
    /\ messages \in Seq([kind : {"added", "removed", "current", "snapshot"},
                         query : Queries \cup {NoQuery}])
    /\ watched \in [Queries -> {"no", "yes", "current", "synced"}]
    /\ outstanding \in [Queries -> Nat]
    /\ pending \subseteq current /\ current \subseteq Queries
    /\ kept \subseteq current
    /\ turns \in Nat

\* A completion block is called at most once, however many events a change of
\* the online state posts before the registration is removed.
AnsweredOnce == \A g \in Gets : Len(answers[g]) <= 1

\* The tracker's assertions: the timer runs only while the state is unknown
\* and an attempt is being made, and a client that is online has no failure
\* on its count ("Timer should be canceled if we transitioned to a different
\* state", "watch_stream_failures_ must be 0").
TrackerConsistent ==
    /\ online.timer => online.state = "Unknown" /\ online.failures = 0
    /\ online.timer => IsStarted(stream)
    /\ online.state = "Online" => online.failures = 0

\* While any query is listened to the stream is on its way or open, and never
\* about to be closed as idle: the application never stops it gracefully while
\* it is still needed ("Watch stream was stopped gracefully while still
\* needed"). That the server does not, the code takes for granted.
StreamRunsWhileNeeded ==
    /\ Targets # {} => IsStarted(stream)
    /\ stream.idle => Targets = {} /\ stream.state = "Open"

\* Nobody is kept waiting offline: every listener has had its first event and
\* no view claims to be synced.
OfflineAnswersAll ==
    online.state = "Offline" =>
        \A q \in Queries : listeners[q] \subseteq raised /\ view[q] # "synced"

\* Online state, stream, listeners and views agree with one another.
OnlineStateAgrees ==
    TrackerConsistent /\ StreamRunsWhileNeeded /\ OfflineAnswersAll

\* The server has said, and the client has read, that all of the present watch
\* of q was sent.
Confirmed(q) ==
    /\ watched[q] \in {"current", "synced"}
    /\ [kind |-> "current", query |-> q] \notin ToSet(messages)

\* A view becomes synced only when the server has confirmed its present watch,
\* never on the word of an earlier watch of the query; but for a query watched
\* again before the end of the earlier watch was acknowledged, whose mark the
\* code keeps ("we need to reset any state that we had previously").
SyncIsForThisWatch ==
    [][\A q \in Queries :
        view[q] = "local" /\ view'[q] = "synced"
            => Confirmed(q) \/ q \in kept]_vars

Waiting(g) == g \in Listening \ raised

\* A server that answers, however slowly, or a timer that is running, ends
\* the wait of every get.
EveryGetAnswered ==
    WF_vars(Server) => \A g \in Gets : query[g] # NoQuery ~> answers[g] # <<>>

\* With the timer running even a silent server does not keep a get waiting:
\* it is answered, or the client has heard from the server.
TimerEndsTheWait ==
    \A g \in Gets :
        Waiting(g) /\ online.timer
            ~> answers[g] # <<>> \/ online.state = "Online"

\* The timer is armed whenever the state becomes unknown or the stream is
\* started with queries listened to, and stops only with an answer to the
\* question it asks. A get that joins a stream left starting by the one before
\* it has none.
TimerIsArmed ==
    [][Targets' # {} /\ online'.state = "Unknown"
        /\ (online.timer \/ online.state # "Unknown" \/ ~IsStarted(stream))
            => online'.timer]_vars

\* No get is left waiting, by a server that answers or by one that does not.
GetsAreAnswered == EveryGetAnswered /\ TimerEndsTheWait /\ TimerIsArmed
=============================================================================
