--------------------------- MODULE QueryGetsProofs ---------------------------
(***************************************************************************)
(* Proofs about QueryGets, for any gets, any finite set of queries and     *)
(* every bound on faults, user changes and snapshots.                      *)
(***************************************************************************)
EXTENDS QueryGets, FiniteSetTheorems, TLAPS

-----------------------------------------------------------------------------
(* The inductive invariant.                                                 *)

TaskType == [kind : {"add", "remove"}, get : Gets]

RequestType == [kind : {"watch", "unwatch"}, query : Queries]

MessageType == [kind : {"added", "removed", "current", "snapshot"},
                query : Queries \cup {NoQuery}]

IsAck(m, q) == m.kind \in {"added", "removed"} /\ m.query = q

OnlineType == [state : {"Unknown", "Online", "Offline"}, failures : Nat,
               timer : BOOLEAN]

StreamType == [state : States, idle : BOOLEAN]

\* A task is about a get that has been called.
TasksCalled == \A i \in 1 .. Len(tasks) : query[tasks[i].get] \in Queries

\* An event posted was raised, and a get with an answer hears no more of them.
EventsCounted ==
    \A g \in Gets : /\ events[g] # <<>> => g \in raised
                    /\ answers[g] # <<>> => g \in muted
                    /\ Len(answers[g]) <= 1

\* Whoever listens to a synced view has been told.
SyncedTold == \A q \in Queries : view[q] = "synced" => listeners[q] \subseteq raised

\* The requests and acknowledgements on the connection that are about q.
RequestsFor(q) == {i \in 1 .. Len(requests) : requests[i].query = q}

AcksFor(q) == {i \in 1 .. Len(messages) : IsAck(messages[i], q)}

\* A query's count is what the connection still holds for it.
CountedOK ==
    \A q \in Queries :
        outstanding[q] = Cardinality(RequestsFor(q)) + Cardinality(AcksFor(q))

\* A connection there is not holds nothing.
ClosedOK ==
    stream.state # "Open" =>
        /\ requests = <<>> /\ messages = <<>>
        /\ \A q \in Queries : watched[q] = "no"
        /\ current = {}

LinkType ==
    /\ requests \in Seq(RequestType)
    /\ messages \in Seq(MessageType)
    /\ watched \in [Queries -> {"no", "yes", "current", "synced"}]
    /\ outstanding \in [Queries -> Nat]
    /\ pending \subseteq current /\ kept \subseteq current
    /\ current \subseteq Queries

LinkOK == LinkType /\ CountedOK /\ ClosedOK

IInv ==
    /\ TypeOK
    /\ listeners \in [Queries -> SUBSET Gets]
    /\ TasksCalled /\ EventsCounted /\ SyncedTold /\ OnlineStateAgrees /\ LinkOK

-----------------------------------------------------------------------------
(* Sequences, and a set as a sequence.                                      *)

LEMMA Appended ==
    ASSUME NEW S, NEW s \in Seq(S), NEW x \in S
    PROVE  /\ Append(s, x) \in Seq(S) /\ Append(s, x) # <<>>
           /\ Len(Append(s, x)) = Len(s) + 1 /\ Len(s) \in Nat
           /\ Append(s, x)[Len(s) + 1] = x
           /\ \A i \in 1 .. Len(s) : Append(s, x)[i] = s[i]
  OBVIOUS

LEMMA Taken ==
    ASSUME NEW S, NEW s \in Seq(S), s # <<>>
    PROVE  /\ Head(s) = s[1] /\ Head(s) \in S /\ Len(s) \in Nat \ {0}
           /\ Tail(s) \in Seq(S) /\ Len(Tail(s)) = Len(s) - 1
           /\ \A i \in 1 .. Len(s) - 1 : Tail(s)[i] = s[i + 1]
  OBVIOUS

LEMMA SetAsSequence ==
    ASSUME NEW S, IsFiniteSet(S)
    PROVE  /\ Cardinality(S) \in Nat
           /\ SetToSeq(S) \in [1 .. Cardinality(S) -> S]
           /\ \A i, j \in 1 .. Cardinality(S) :
                SetToSeq(S)[i] = SetToSeq(S)[j] => i = j
           /\ \A x \in S : \E i \in 1 .. Cardinality(S) : SetToSeq(S)[i] = x
  <1>1. /\ Cardinality(S) \in Nat
        /\ ExistsBijection(1 .. Cardinality(S), S)
    BY FS_CardinalityType
  <1>2. PICK f \in [1 .. Cardinality(S) -> S] : IsInjective(f)
    BY <1>1 DEF ExistsBijection, Bijection, Injection
  <1>3. /\ SetToSeq(S) \in [1 .. Cardinality(S) -> S]
        /\ IsInjective(SetToSeq(S))
    BY <1>2 DEF SetToSeq
  <1>4. SetToSeq(S) \in Injection(1 .. Cardinality(S), S)
    BY <1>3 DEF Injection
  <1>5. Cardinality(1 .. Cardinality(S)) = Cardinality(S)
    BY <1>1, FS_Interval
  <1>6. SetToSeq(S) \in Surjection(1 .. Cardinality(S), S)
    BY <1>4, <1>5, FS_Injection
  <1>7. \A i, j \in 1 .. Cardinality(S) :
            SetToSeq(S)[i] = SetToSeq(S)[j] => i = j
    BY <1>3 DEF IsInjective
  <1> QED BY <1>1, <1>3, <1>6, <1>7 DEF Surjection

LEMMA TargetsFinite == IsFiniteSet(Targets)
  BY FS_Subset, QueryAssumption DEF Targets

-----------------------------------------------------------------------------
(* Parts of a step.                                                         *)

LEMMA OnlineTypes ==
    ASSUME NEW o \in OnlineType
    PROVE  /\ HandleWatchStreamStart(o) \in OnlineType
           /\ HandleWatchStreamFailure(o) \in OnlineType
           /\ \A state \in {"Unknown", "Online", "Offline"} :
                UpdateState(o, state) \in OnlineType
  <1>1. HandleWatchStreamStart(o) \in OnlineType
    BY DEF HandleWatchStreamStart, OnlineType
  <1>2. HandleWatchStreamFailure(o) \in OnlineType
    BY DEF HandleWatchStreamFailure, OnlineType, kMaxWatchStreamFailures
  <1>3. \A state \in {"Unknown", "Online", "Offline"} :
            UpdateState(o, state) \in OnlineType
    BY DEF UpdateState, OnlineType
  <1> QED BY <1>1, <1>2, <1>3

Timers(o, s) ==
    /\ o.timer => o.state = "Unknown" /\ o.failures = 0
    /\ o.timer => IsStarted(s)
    /\ o.state = "Online" => o.failures = 0

\* The tracker's handlers keep its assertions: a start leaves the stream
\* started, and a failure or a new state stops the timer.
LEMMA TrackerHandlers ==
    ASSUME NEW o \in OnlineType, NEW s, NEW t, Timers(o, s)
    PROVE  /\ IsStarted(t) => Timers(HandleWatchStreamStart(o), t)
           /\ \A state : Timers(UpdateState(o, state), t)
           /\ IsStarted(t) => Timers(HandleWatchStreamStart(
                                        HandleWatchStreamFailure(o)), t)
  <1>1. IsStarted(t) => Timers(HandleWatchStreamStart(o), t)
    BY DEF Timers, HandleWatchStreamStart, OnlineType
  <1>2. \A state : Timers(UpdateState(o, state), t)
    BY DEF Timers, UpdateState
  <1>3. ASSUME IsStarted(t)
        PROVE  Timers(HandleWatchStreamStart(HandleWatchStreamFailure(o)), t)
    BY <1>3 DEF Timers, HandleWatchStreamStart, HandleWatchStreamFailure,
                OnlineType, kMaxWatchStreamFailures
  <1> QED BY <1>1, <1>2, <1>3

LEMMA StreamTypes ==
    ASSUME NEW s \in StreamType
    PROVE  /\ StartedStream(s) \in StreamType
           /\ IsStarted(StartedStream(s)) /\ StartedStream(s).idle = s.idle
           /\ Sent(s) \in StreamType /\ Sent(s).state = s.state /\ ~Sent(s).idle
  <1>1. s = [state |-> s.state, idle |-> s.idle] /\ s.state \in States
        /\ s.idle \in BOOLEAN
    BY DEF StreamType
  <1>2. StartedStream(s) =
            [state |-> IF s.state = "Error" THEN "Backoff" ELSE "Starting",
             idle |-> s.idle]
    BY <1>1 DEF StartedStream
  <1>3. /\ StartedStream(s) \in StreamType /\ IsStarted(StartedStream(s))
        /\ StartedStream(s).idle = s.idle
    BY <1>1, <1>2 DEF StreamType, States, IsStarted
  <1>4. Sent(s) \in StreamType /\ Sent(s).state = s.state /\ ~Sent(s).idle
    BY DEF Sent, StreamType
  <1> QED BY <1>3, <1>4

LEMMA ClosedTypes ==
    ASSUME NEW state \in States
    PROVE  Closed(state) \in StreamType /\ ~Closed(state).idle
  BY DEF Closed, StreamType

\* What Announce does: views only turn local, listeners are told, and offline
\* nobody waits.
LEMMA AnnounceType ==
    ASSUME IInv, NEW o \in OnlineType, Announce(o)
    PROVE  /\ view' \in [Queries -> {"none", "local", "synced"}]
           /\ \A q \in Queries : view'[q] = "none" <=> view[q] = "none"
           /\ \A q \in Queries : view'[q] = "synced" => view[q] = "synced"
           /\ raised \subseteq raised'
           /\ raised' \subseteq {g \in Gets : query[g] # NoQuery}
           /\ events' \in [Gets -> Seq(Answers)]
           /\ \A g \in Gets : events'[g] # <<>> => g \in raised'
           /\ o.state = "Offline" =>
                \A q \in Queries : listeners[q] \subseteq raised' /\ view'[q] # "synced"
  <1>1. /\ view \in [Queries -> {"none", "local", "synced"}]
        /\ events \in [Gets -> Seq(Answers)]
        /\ raised \subseteq {g \in Gets : query[g] # NoQuery}
        /\ \A q \in Queries : listeners[q] \subseteq {g \in Gets : query[g] = q}
        /\ \A g \in Gets : events[g] # <<>> => g \in raised
    BY DEF IInv, TypeOK, EventsCounted
  <1>2. CASE o.state = "Offline" /\ online.state # "Offline"
    <2> DEFINE told == {g \in Listening :
                            g \notin raised \/ view[query[g]] = "synced"}
    <2>1. /\ view' = [q \in Queries |-> IF view[q] = "synced" THEN "local"
                                        ELSE view[q]]
          /\ events' = [g \in Gets |-> IF g \in told
                                       THEN Append(events[g], "cache")
                                       ELSE events[g]]
          /\ raised' = raised \cup told
      BY <1>2 DEF Announce
    <2>2. Listening \subseteq {g \in Gets : query[g] # NoQuery}
      BY <1>1, QueryAssumption DEF Listening
    <2>3. \A g \in Gets : Append(events[g], "cache") \in Seq(Answers)
      BY <1>1, Appended DEF Answers
    <2>4. \A q \in Queries : listeners[q] \subseteq raised'
      BY <2>1 DEF Listening
    <2>5. view' \in [Queries -> {"none", "local", "synced"}]
      BY <1>1, <2>1
    <2>6. \A g \in Gets : events'[g] # <<>> => g \in raised'
      BY <1>1, <2>1
    <2>7. events' \in [Gets -> Seq(Answers)]
      BY <1>1, <2>1, <2>3
    <2>8. raised' \subseteq {g \in Gets : query[g] # NoQuery}
      BY <1>1, <2>1, <2>2
    <2> QED BY <1>1, <2>1, <2>4, <2>5, <2>6, <2>7, <2>8
  <1>3. CASE ~(o.state = "Offline" /\ online.state # "Offline")
    <2>1. UNCHANGED <<view, raised, events>>
      BY <1>3 DEF Announce
    <2> QED BY <1>1, <1>3, <2>1 DEF IInv, OnlineStateAgrees, OfflineAnswersAll
  <1> QED BY <1>2, <1>3

-----------------------------------------------------------------------------
(* Counting what the connection holds.                                      *)

Places(s, S) == {i \in 1 .. Len(s) : s[i] \in S}

LEMMA PlacesFinite ==
    ASSUME NEW X, NEW s \in Seq(X), NEW S
    PROVE  IsFiniteSet(Places(s, S)) /\ Cardinality(Places(s, S)) \in Nat
  <1>1. IsFiniteSet(1 .. Len(s))
    BY FS_Interval
  <1>2. IsFiniteSet(Places(s, S))
    BY <1>1, FS_Subset DEF Places
  <1> QED BY <1>2, FS_CardinalityType

LEMMA PlacesAppended ==
    ASSUME NEW X, NEW s \in Seq(X), NEW x \in X, NEW S
    PROVE  Cardinality(Places(Append(s, x), S)) =
                Cardinality(Places(s, S)) + (IF x \in S THEN 1 ELSE 0)
  <1> DEFINE n == Len(s) + 1
             t == Append(s, x)
  <1>1. /\ Len(t) = n /\ Len(s) \in Nat /\ t[n] = x
        /\ \A i \in 1 .. Len(s) : t[i] = s[i]
    BY Appended
  <1>2. \A i : i \in 1 .. n <=> i \in 1 .. Len(s) \/ i = n
    BY <1>1
  <1>3. n \notin Places(s, S)
    BY <1>1 DEF Places
  <1> HIDE DEF t
  <1>4. CASE x \in S
    <2>1. Places(t, S) = Places(s, S) \cup {n}
      BY <1>1, <1>2, <1>4 DEF Places
    <2> QED BY <1>3, <1>4, <2>1, PlacesFinite, FS_AddElement DEF t
  <1>5. CASE x \notin S
    <2>1. Places(t, S) = Places(s, S)
      BY <1>1, <1>2, <1>5 DEF Places
    <2> QED BY <1>5, <2>1, PlacesFinite DEF t
  <1> QED BY <1>4, <1>5

LEMMA PlacesTaken ==
    ASSUME NEW X, NEW s \in Seq(X), s # <<>>, NEW S
    PROVE  Cardinality(Places(Tail(s), S)) =
                Cardinality(Places(s, S)) - (IF Head(s) \in S THEN 1 ELSE 0)
  <1> DEFINE t == Tail(s)
             later == Places(s, S) \ {1}
             f == [i \in Places(t, S) |-> i + 1]
  <1>1. /\ Head(s) = s[1] /\ Len(s) \in Nat \ {0} /\ Len(t) = Len(s) - 1
        /\ \A i \in 1 .. Len(s) - 1 : t[i] = s[i + 1]
    BY Taken
  <1>2. /\ \A i \in 1 .. Len(t) : i \in Nat /\ i + 1 \in 1 .. Len(s) /\ i + 1 # 1
        /\ \A i \in 1 .. Len(s) : i # 1 => i \in Nat /\ i - 1 \in 1 .. Len(t)
                                           /\ (i - 1) + 1 = i
    BY <1>1
  <1>3. \A i \in 1 .. Len(t) : t[i] = s[i + 1]
    BY <1>1
  <1> HIDE DEF t
  <1>4. \A i \in Places(t, S) : i + 1 \in later
    BY <1>2, <1>3 DEF Places
  <1>5. \A i \in later : i - 1 \in Places(t, S) /\ (i - 1) + 1 = i
    BY <1>2, <1>3 DEF Places
  <1>6. \A i, j \in Places(t, S) : i + 1 = j + 1 => i = j
    BY <1>2 DEF Places
  <1>7. f \in Bijection(Places(t, S), later)
    <2>1. f \in [Places(t, S) -> later]
      BY <1>4
    <2>2. IsInjective(f)
      BY <1>6 DEF IsInjective
    <2>3. \A i \in later : \E j \in Places(t, S) : f[j] = i
      BY <1>5
    <2> QED BY <2>1, <2>2, <2>3 DEF Bijection, Injection, Surjection
  <1>8. IsFiniteSet(Places(t, S))
    BY PlacesFinite, Taken DEF t
  <1>9. Cardinality(later) = Cardinality(Places(t, S))
    BY <1>7, <1>8, FS_Bijection DEF ExistsBijection
  <1>10. /\ IsFiniteSet(Places(s, S))
         /\ Cardinality(later) = IF 1 \in Places(s, S)
                                 THEN Cardinality(Places(s, S)) - 1
                                 ELSE Cardinality(Places(s, S))
    BY PlacesFinite, FS_RemoveElement
  <1>11. 1 \in Places(s, S) <=> Head(s) \in S
    BY <1>1 DEF Places
  <1>12. Cardinality(Places(s, S)) \in Nat
    BY PlacesFinite
  <1> QED BY <1>9, <1>10, <1>11, <1>12 DEF t

-----------------------------------------------------------------------------
(* The invariant holds at first and is kept by every action.                *)

LEMMA InvInit == Init => IInv
  <1> SUFFICES ASSUME Init PROVE IInv
    OBVIOUS
  <1>1. Targets = {} /\ ~stream.idle
    BY DEF Init, Targets, Closed
  <1>2. TypeOK
    BY DEF Init, TypeOK, Closed, States
  <1>3. /\ listeners \in [Queries -> SUBSET Gets]
        /\ TasksCalled /\ EventsCounted /\ SyncedTold
    BY DEF Init, TasksCalled, EventsCounted, SyncedTold
  <1>4. OnlineStateAgrees
    BY <1>1 DEF Init, OnlineStateAgrees, TrackerConsistent,
                StreamRunsWhileNeeded, OfflineAnswersAll
  <1>5. /\ \A q \in Queries : RequestsFor(q) = {} /\ AcksFor(q) = {}
        /\ Cardinality({}) = 0
    BY FS_EmptySet DEF Init, RequestsFor, AcksFor
  <1>6. LinkOK
    <2>1. LinkType /\ ClosedOK
      BY DEF Init, LinkType, ClosedOK
    <2>2. \A q \in Queries :
            outstanding[q] = Cardinality(RequestsFor(q)) + Cardinality(AcksFor(q))
      <3> TAKE q \in Queries
      <3>1. Cardinality(RequestsFor(q)) = 0 /\ Cardinality(AcksFor(q)) = 0
        BY <1>5
      <3> QED BY <3>1 DEF Init
    <2> QED BY <2>1, <2>2 DEF LinkOK, CountedOK
  <1> QED BY <1>2, <1>3, <1>4, <1>6 DEF IInv

\* Queueing a task about a get that has been called.
LEMMA TaskQueued ==
    ASSUME IInv, NEW kind \in {"add", "remove"}, NEW g \in Gets,
           tasks' = Append(tasks, [kind |-> kind, get |-> g]),
           query'[g] \in Queries,
           \A h \in Gets : query[h] \in Queries => query'[h] = query[h]
    PROVE  tasks' \in Seq(TaskType) /\ TasksCalled'
  <1> DEFINE t == [kind |-> kind, get |-> g]
  <1>1. tasks \in Seq(TaskType) /\ t \in TaskType /\ t.get = g
    BY DEF IInv, TypeOK, TaskType
  <1> HIDE DEF t
  <1>2. /\ tasks' \in Seq(TaskType) /\ Len(tasks') = Len(tasks) + 1
        /\ Len(tasks) \in Nat /\ tasks'[Len(tasks) + 1] = t
        /\ \A i \in 1 .. Len(tasks) : tasks'[i] = tasks[i]
    BY <1>1, Appended DEF t
  <1>3. ASSUME NEW i \in 1 .. Len(tasks') PROVE query'[tasks'[i].get] \in Queries
    <2>1. CASE i \in 1 .. Len(tasks)
      <3>1. tasks'[i] = tasks[i] /\ tasks[i] \in TaskType
        BY <1>1, <1>2, <2>1
      <3> QED BY <2>1, <3>1 DEF IInv, TasksCalled, TaskType
    <2>2. CASE i = Len(tasks) + 1
      BY <1>1, <1>2, <2>2
    <2> QED BY <1>2, <2>1, <2>2
  <1> QED BY <1>2, <1>3 DEF TasksCalled

LEMMA TaskTaken ==
    ASSUME IInv, tasks # <<>>, tasks' = Tail(tasks), query' = query
    PROVE  /\ Head(tasks) \in TaskType /\ query[Head(tasks).get] \in Queries
           /\ tasks' \in Seq(TaskType) /\ TasksCalled'
  <1>1. tasks \in Seq(TaskType)
    BY DEF IInv, TypeOK, TaskType
  <1>2. /\ Head(tasks) = tasks[1] /\ Head(tasks) \in TaskType
        /\ Len(tasks) \in Nat \ {0}
        /\ tasks' \in Seq(TaskType) /\ Len(tasks') = Len(tasks) - 1
        /\ \A i \in 1 .. Len(tasks) - 1 : tasks'[i] = tasks[i + 1]
    BY <1>1, Taken
  <1>3. 1 \in 1 .. Len(tasks)
        /\ \A i \in 1 .. Len(tasks') : i \in 1 .. Len(tasks) - 1
                                       /\ i + 1 \in 1 .. Len(tasks)
    BY <1>2
  <1> QED BY <1>2, <1>3 DEF IInv, TasksCalled

LEMMA LinkKept ==
    ASSUME LinkOK, UNCHANGED link, stream'.state = stream.state
    PROVE  LinkOK'
  <1>1. UNCHANGED <<requests, messages, watched, outstanding, current, pending,
                    kept>>
    BY DEF link, marks
  <1>2. \A q : RequestsFor(q)' = RequestsFor(q) /\ AcksFor(q)' = AcksFor(q)
    BY <1>1 DEF RequestsFor, AcksFor
  <1>3. LinkType' /\ ClosedOK'
    BY <1>1 DEF LinkOK, LinkType, ClosedOK
  <1>4. CountedOK'
    BY <1>1, <1>2 DEF LinkOK, CountedOK
  <1> QED BY <1>3, <1>4 DEF LinkOK

\* A stream on its way holds nothing, before and after.
LEMMA LinkClosed ==
    ASSUME LinkOK, UNCHANGED link, stream.state # "Open", stream'.state # "Open"
    PROVE  LinkOK'
  <1>1. UNCHANGED <<requests, messages, watched, outstanding, current, pending,
                    kept>>
    BY DEF link, marks
  <1>2. \A q : RequestsFor(q)' = RequestsFor(q) /\ AcksFor(q)' = AcksFor(q)
    BY <1>1 DEF RequestsFor, AcksFor
  <1>3. LinkType' /\ CountedOK'
    BY <1>1, <1>2 DEF LinkOK, LinkType, CountedOK
  <1> QED BY <1>1, <1>3 DEF LinkOK, ClosedOK

LEMMA GetDocumentsKeeps ==
    ASSUME IInv, NEW g \in Gets, GetDocuments(g)
    PROVE  IInv'
  <1>1. PICK q \in Asks[g] : query' = [query EXCEPT ![g] = q]
    BY DEF GetDocuments
  <1>11. q \in Queries
    BY QueryAssumption
  <1>12. /\ query[g] = NoQuery /\ query'[g] = q
        /\ query' \in [Gets -> Queries \cup {NoQuery}]
        /\ \A h \in Gets : query[h] # NoQuery => query'[h] = query[h]
    BY <1>1, <1>11 DEF GetDocuments, IInv, TypeOK
  <1>2. /\ tasks' = Append(tasks, [kind |-> "add", get |-> g])
        /\ UNCHANGED <<listeners, view, raised, events, muted, answers, online,
                       stream, link, turns>>
    BY DEF GetDocuments, views
  <1>3. tasks' \in Seq(TaskType) /\ TasksCalled'
    BY <1>11, <1>12, <1>2, QueryAssumption, TaskQueued
  <1>4. \A p \in Queries : listeners[p] \subseteq {h \in Gets : query'[h] = p}
    BY <1>12, QueryAssumption DEF IInv, TypeOK
  <1>5. raised \subseteq {h \in Gets : query'[h] # NoQuery}
    BY <1>12 DEF IInv, TypeOK
  <1>6. TypeOK'
    BY <1>12, <1>2, <1>3, <1>4, <1>5 DEF IInv, TypeOK, TaskType, link, marks
  <1>7. EventsCounted' /\ SyncedTold' /\ OnlineStateAgrees'
    BY <1>2 DEF IInv, EventsCounted, SyncedTold, OnlineStateAgrees,
                TrackerConsistent, StreamRunsWhileNeeded, OfflineAnswersAll, Targets
  <1>8. LinkOK'
    BY <1>2, LinkKept DEF IInv
  <1> QED BY <1>2, <1>3, <1>6, <1>7, <1>8 DEF IInv

LEMMA RunEventKeeps ==
    ASSUME IInv, NEW g \in Gets, RunEvent(g)
    PROVE  IInv'
  <1>1. /\ events[g] # <<>> /\ events' = [events EXCEPT ![g] = Tail(@)]
        /\ UNCHANGED <<query, listeners, view, raised, online, stream, link,
                       turns>>
    BY DEF RunEvent, app
  <1>2. /\ events[g] \in Seq(Answers) /\ Head(events[g]) \in Answers
        /\ Tail(events[g]) \in Seq(Answers) /\ g \in raised
    BY <1>1, Taken DEF IInv, TypeOK, EventsCounted
  <1>3. events' \in [Gets -> Seq(Answers)]
        /\ \A h \in Gets : events'[h] # <<>> => h \in raised
    BY <1>1, <1>2 DEF IInv, TypeOK, EventsCounted
  <1>4. query[g] \in Queries
    BY <1>2 DEF IInv, TypeOK
  <1>5. /\ tasks' \in Seq(TaskType) /\ TasksCalled'
        /\ muted \subseteq muted' /\ muted' \subseteq raised
        /\ answers' \in [Gets -> Seq(Answers)]
        /\ \A h \in Gets : /\ answers'[h] # <<>> => h \in muted'
                           /\ Len(answers'[h]) <= 1
    <2>1. CASE g \in muted
      <3>1. UNCHANGED <<tasks, muted, answers>>
        BY <2>1 DEF RunEvent, Heard, app
      <3>2. tasks' \in Seq(TaskType) /\ TasksCalled'
        BY <1>1, <3>1 DEF IInv, TypeOK, TaskType, TasksCalled
      <3> QED BY <3>1, <3>2 DEF IInv, TypeOK, EventsCounted
    <2>2. CASE g \notin muted
      <3>1. /\ muted' = muted \cup {g}
            /\ tasks' = Append(tasks, [kind |-> "remove", get |-> g])
            /\ answers' = [answers EXCEPT ![g] = Append(@, Head(events[g]))]
        BY <2>2 DEF RunEvent, Heard
      <3>2. answers[g] = <<>> /\ answers \in [Gets -> Seq(Answers)]
        BY <2>2 DEF IInv, EventsCounted, TypeOK
      <3>3. answers'[g] = <<Head(events[g])>> /\ Len(answers'[g]) = 1
            /\ \A h \in Gets \ {g} : answers'[h] = answers[h]
        BY <3>1, <3>2
      <3>4. answers' \in [Gets -> Seq(Answers)]
        BY <1>2, <3>1, <3>2, Appended
      <3>5. tasks' \in Seq(TaskType) /\ TasksCalled'
        BY <1>1, <1>4, <3>1, TaskQueued
      <3>6. muted \subseteq muted' /\ muted' \subseteq raised
        BY <1>2, <3>1 DEF IInv, TypeOK
      <3>7. ASSUME NEW h \in Gets
            PROVE  (answers'[h] # <<>> => h \in muted') /\ Len(answers'[h]) <= 1
        <4>1. CASE h = g
          <5>1. h \in muted'
            BY <3>1, <4>1
          <5>2. Len(answers'[h]) = 1
            BY <3>3, <4>1
          <5> QED BY <5>1, <5>2
        <4>2. CASE h # g
          <5>1. answers'[h] = answers[h]
            BY <3>3, <4>2
          <5>2. (answers[h] # <<>> => h \in muted) /\ Len(answers[h]) <= 1
            BY DEF IInv, EventsCounted
          <5> QED BY <3>6, <5>1, <5>2
        <4> QED BY <4>1, <4>2
      <3> QED BY <3>4, <3>5, <3>6, <3>7
    <2> QED BY <2>1, <2>2
  <1>6. TypeOK'
    BY <1>1, <1>3, <1>5 DEF IInv, TypeOK, TaskType, link, marks
  <1>7. EventsCounted' /\ SyncedTold'
    BY <1>1, <1>3, <1>5 DEF EventsCounted, SyncedTold, IInv
  <1>8. OnlineStateAgrees'
    BY <1>1 DEF IInv, OnlineStateAgrees, TrackerConsistent,
                StreamRunsWhileNeeded, OfflineAnswersAll, Targets
  <1>9. LinkOK'
    BY <1>1, LinkKept DEF IInv
  <1> QED BY <1>1, <1>5, <1>6, <1>7, <1>8, <1>9 DEF IInv

\* Steps of the stream and its connection: the application's part and the
\* listeners stay as they are, and views change as Announce changes them.
LEMMA StreamStepKeeps ==
    ASSUME IInv, UNCHANGED <<app, listeners>>,
           view' \in [Queries -> {"none", "local", "synced"}],
           \A q \in Queries : view'[q] = "none" <=> view[q] = "none",
           raised \subseteq raised',
           raised' \subseteq {g \in Gets : query[g] # NoQuery},
           events' \in [Gets -> Seq(Answers)],
           \A g \in Gets : events'[g] # <<>> => g \in raised',
           SyncedTold',
           online' \in OnlineType, stream' \in StreamType,
           LinkOK',
           turns' \in Nat,
           Timers(online', stream'),
           Targets # {} => IsStarted(stream'),
           stream'.idle => Targets = {} /\ stream'.state = "Open",
           online'.state = "Offline" =>
                \A q \in Queries : listeners[q] \subseteq raised'
                                   /\ view'[q] # "synced"
    PROVE  IInv'
  <1>1. Targets' = Targets
    BY DEF Targets
  <1>5. UNCHANGED <<query, tasks, muted, answers, listeners>>
    BY DEF app
  <1>6. /\ query' \in [Gets -> Queries \cup {NoQuery}]
        /\ tasks' \in Seq([kind : {"add", "remove"}, get : Gets])
        /\ \A q \in Queries : listeners'[q] \subseteq {g \in Gets : query'[g] = q}
        /\ \A q \in Queries : view'[q] = "none" <=> listeners'[q] = {}
        /\ muted' \subseteq raised' /\ answers' \in [Gets -> Seq(Answers)]
    BY <1>5 DEF IInv, TypeOK
  <1>7. /\ requests' \in Seq(RequestType) /\ messages' \in Seq(MessageType)
        /\ watched' \in [Queries -> {"no", "yes", "current", "synced"}]
        /\ outstanding' \in [Queries -> Nat]
        /\ pending' \subseteq current' /\ kept' \subseteq current'
        /\ current' \subseteq Queries
    BY DEF LinkOK, LinkType
  <1>2. TypeOK'
    BY <1>5, <1>6, <1>7
    DEF TypeOK, OnlineType, StreamType, RequestType, MessageType
  <1>3. TasksCalled' /\ EventsCounted' /\ listeners' \in [Queries -> SUBSET Gets]
    BY <1>5 DEF IInv, TasksCalled, EventsCounted
  <1>4. OnlineStateAgrees'
    BY <1>1 DEF OnlineStateAgrees, TrackerConsistent, Timers,
                StreamRunsWhileNeeded, OfflineAnswersAll
  <1> QED BY <1>2, <1>3, <1>4 DEF IInv

-----------------------------------------------------------------------------
(* The connection after a step.                                             *)

RequestsAbout(q) == {r \in RequestType : r.query = q}

AcksAbout(q) == {m \in MessageType : IsAck(m, q)}

LEMMA AsPlaces ==
    ASSUME LinkType, NEW q
    PROVE  /\ RequestsFor(q) = Places(requests, RequestsAbout(q))
           /\ AcksFor(q) = Places(messages, AcksAbout(q))
  <1>1. /\ \A i \in 1 .. Len(requests) : requests[i] \in RequestType
        /\ \A i \in 1 .. Len(messages) : messages[i] \in MessageType
    BY DEF LinkType
  <1> QED BY <1>1 DEF RequestsFor, AcksFor, Places, RequestsAbout, AcksAbout

LEMMA Counts ==
    ASSUME LinkType, NEW q
    PROVE  /\ Cardinality(RequestsFor(q)) \in Nat /\ Cardinality(AcksFor(q)) \in Nat
           /\ IsFiniteSet(RequestsFor(q)) /\ IsFiniteSet(AcksFor(q))
           /\ RequestsFor(q) # {} => Cardinality(RequestsFor(q)) > 0
           /\ AcksFor(q) # {} => Cardinality(AcksFor(q)) > 0
  <1>1. /\ IsFiniteSet(RequestsFor(q)) /\ Cardinality(RequestsFor(q)) \in Nat
        /\ IsFiniteSet(AcksFor(q)) /\ Cardinality(AcksFor(q)) \in Nat
    BY AsPlaces, PlacesFinite DEF LinkType
  <1>2. /\ Cardinality(RequestsFor(q)) = 0 <=> RequestsFor(q) = {}
        /\ Cardinality(AcksFor(q)) = 0 <=> AcksFor(q) = {}
    BY <1>1, FS_EmptySet
  <1> QED BY <1>1, <1>2

LEMMA NoConnectionLink ==
    ASSUME NoConnection
    PROVE  LinkOK'
  <1>1. /\ requests' = <<>> /\ messages' = <<>>
        /\ watched' = [q \in Queries |-> "no"]
        /\ outstanding' = [q \in Queries |-> 0]
        /\ current' = {} /\ pending' = {} /\ kept' = {}
    BY DEF NoConnection
  <1>2. \A q : RequestsFor(q)' = {} /\ AcksFor(q)' = {}
    BY <1>1 DEF RequestsFor, AcksFor
  <1>3. ASSUME NEW q \in Queries
        PROVE  outstanding'[q] = Cardinality(RequestsFor(q)') + Cardinality(AcksFor(q)')
    <2>1. Cardinality(RequestsFor(q)') = 0 /\ Cardinality(AcksFor(q)') = 0
      BY <1>2, FS_EmptySet
    <2> QED BY <1>1, <2>1
  <1>4. LinkType' /\ ClosedOK'
    BY <1>1 DEF LinkType, ClosedOK
  <1> QED BY <1>3, <1>4 DEF LinkOK, CountedOK

\* Another request on the wire.
LEMMA RequestLink ==
    ASSUME LinkOK, stream'.state = "Open",
           NEW kind \in {"watch", "unwatch"}, NEW q \in Queries, Request(kind, q),
           UNCHANGED <<watched, messages, current, pending>>,
           kept' \subseteq current
    PROVE  LinkOK'
  <1> DEFINE r == [kind |-> kind, query |-> q]
  <1>1. /\ requests' = Append(requests, r)
        /\ outstanding' = [outstanding EXCEPT ![q] = @ + 1]
    BY DEF Request
  <1>2. r \in RequestType /\ r.query = q
    BY DEF RequestType
  <1>3. LinkType
    BY DEF LinkOK
  <1> HIDE DEF r
  <1>4. LinkType'
    BY <1>1, <1>2, <1>3, Appended DEF LinkType
  <1>5. \A p : AcksFor(p)' = AcksFor(p)
    BY DEF AcksFor
  <1>6. ASSUME NEW p \in Queries
        PROVE  Cardinality(RequestsFor(p)') =
                    Cardinality(RequestsFor(p)) + (IF p = q THEN 1 ELSE 0)
    <2>1. RequestsFor(p)' = Places(Append(requests, r), RequestsAbout(p))
      BY <1>1, <1>4, AsPlaces DEF RequestsFor, Places, RequestsAbout, LinkType
    <2>2. RequestsFor(p) = Places(requests, RequestsAbout(p))
      BY <1>3, AsPlaces
    <2>3. r \in RequestsAbout(p) <=> p = q
      BY <1>2 DEF RequestsAbout
    <2>4. requests \in Seq(RequestType)
      BY <1>3 DEF LinkType
    <2> QED BY <1>2, <2>1, <2>2, <2>3, <2>4, PlacesAppended
  <1>7. CountedOK'
    <2> SUFFICES ASSUME NEW p \in Queries
        PROVE  outstanding'[p] = Cardinality(RequestsFor(p)') + Cardinality(AcksFor(p)')
      BY DEF CountedOK
    <2>1. outstanding[p] = Cardinality(RequestsFor(p)) + Cardinality(AcksFor(p))
      BY DEF LinkOK, CountedOK
    <2>2. outstanding'[p] = outstanding[p] + (IF p = q THEN 1 ELSE 0)
      BY <1>1, <1>3 DEF LinkType
    <2>3. Cardinality(RequestsFor(p)) \in Nat /\ Cardinality(AcksFor(p)) \in Nat
      BY <1>3, Counts
    <2> QED BY <1>5, <1>6, <2>1, <2>2, <2>3
  <1> QED BY <1>4, <1>7 DEF LinkOK, ClosedOK

\* The watches sent when the stream opens: one for each query listened to.
LEMMA OpenLink ==
    ASSUME IInv, TokenArrives
    PROVE  LinkOK'
  <1> DEFINE n == Cardinality(Targets)
             qs == SetToSeq(Targets)
  <1>1. /\ requests' = [i \in 1 .. n |-> [kind |-> "watch", query |-> qs[i]]]
        /\ outstanding' = [q \in Queries |-> IF q \in Targets THEN 1 ELSE 0]
        /\ messages' = messages /\ watched' = watched
        /\ current' = current /\ pending' = pending /\ kept' = kept
        /\ stream.state = "Starting" /\ stream'.state = "Open"
    BY DEF TokenArrives, OpenStream, IInv, TypeOK, marks
  <1>2. /\ messages = <<>> /\ LinkType
    BY <1>1 DEF IInv, LinkOK, ClosedOK
  <1>3. /\ n \in Nat /\ qs \in [1 .. n -> Targets]
        /\ \A i, j \in 1 .. n : qs[i] = qs[j] => i = j
        /\ \A q \in Targets : \E i \in 1 .. n : qs[i] = q
    BY TargetsFinite, SetAsSequence
  <1>4. Targets \subseteq Queries
    BY DEF Targets
  <1> HIDE DEF n, qs
  <1>5. /\ requests' \in Seq(RequestType) /\ Len(requests') = n
        /\ \A i \in 1 .. n : requests'[i].query = qs[i]
    BY <1>1, <1>3, <1>4 DEF RequestType
  <1>6. LinkType'
    BY <1>1, <1>2, <1>5 DEF LinkType
  <1>7. \A q : AcksFor(q)' = {}
    BY <1>1, <1>2 DEF AcksFor
  <1>8. ASSUME NEW q \in Queries
        PROVE  Cardinality(RequestsFor(q)') = IF q \in Targets THEN 1 ELSE 0
    <2>1. RequestsFor(q)' = {i \in 1 .. n : qs[i] = q}
      BY <1>5 DEF RequestsFor
    <2>2. CASE q \in Targets
      <3>1. PICK i \in 1 .. n : qs[i] = q
        BY <1>3, <2>2
      <3>2. RequestsFor(q)' = {i}
        BY <1>3, <2>1, <3>1
      <3> QED BY <2>2, <3>2, FS_Singleton
    <2>3. CASE q \notin Targets
      <3>1. RequestsFor(q)' = {}
        BY <1>3, <2>1, <2>3
      <3> QED BY <2>3, <3>1, FS_EmptySet
    <2> QED BY <2>2, <2>3
  <1>9. CountedOK'
    <2> SUFFICES ASSUME NEW q \in Queries
        PROVE  outstanding'[q] = Cardinality(RequestsFor(q)') + Cardinality(AcksFor(q)')
      BY DEF CountedOK
    <2>1. Cardinality(AcksFor(q)') = 0
      BY <1>7, FS_EmptySet
    <2> QED BY <1>1, <1>8, <2>1
  <1>10. ClosedOK'
    BY <1>1 DEF ClosedOK
  <1> QED BY <1>6, <1>9, <1>10 DEF LinkOK

LEMMA ServerTakesLink ==
    ASSUME LinkOK, ServerTakes
    PROVE  LinkOK'
  <1>1. requests # <<>> /\ LinkType /\ stream.state = "Open"
    BY DEF ServerTakes, LinkOK, ClosedOK
  <1>2. PICK r : r = Head(requests)
    OBVIOUS
  <1>3. PICK m : m = [kind |-> IF r.kind = "watch" THEN "added" ELSE "removed",
                      query |-> r.query]
    OBVIOUS
  <1>4. /\ requests' = Tail(requests) /\ messages' = Append(messages, m)
        /\ watched' = [watched EXCEPT ![r.query] =
                            IF r.kind = "watch" THEN "yes" ELSE "no"]
        /\ outstanding' = outstanding /\ stream' = stream
        /\ UNCHANGED <<current, pending, kept>>
    BY <1>2, <1>3 DEF ServerTakes, marks
  <1>5. /\ requests \in Seq(RequestType) /\ messages \in Seq(MessageType)
        /\ r \in RequestType /\ r.query \in Queries
    <2>1. requests \in Seq(RequestType) /\ messages \in Seq(MessageType)
      BY <1>1 DEF LinkType
    <2>2. r \in RequestType
      BY <1>1, <1>2, <2>1, Taken
    <2> QED BY <2>1, <2>2 DEF RequestType
  <1>6. m \in MessageType /\ IsAck(m, r.query) /\ m.query = r.query
    BY <1>3, <1>5 DEF MessageType, IsAck
  <1>7. LinkType'
    BY <1>1, <1>4, <1>5, <1>6, Taken, Appended DEF LinkType
  <1>8. ASSUME NEW q \in Queries
        PROVE  /\ Cardinality(RequestsFor(q)') =
                    Cardinality(RequestsFor(q)) - (IF q = r.query THEN 1 ELSE 0)
               /\ Cardinality(AcksFor(q)') =
                    Cardinality(AcksFor(q)) + (IF q = r.query THEN 1 ELSE 0)
    <2>1. /\ RequestsFor(q)' = Places(Tail(requests), RequestsAbout(q))
          /\ AcksFor(q)' = Places(Append(messages, m), AcksAbout(q))
      <3>1. /\ \A i \in 1 .. Len(requests') : requests'[i] \in RequestType
            /\ \A i \in 1 .. Len(messages') : messages'[i] \in MessageType
        BY <1>7 DEF LinkType
      <3> QED BY <1>4, <3>1 DEF RequestsFor, AcksFor, Places, RequestsAbout, AcksAbout
    <2>2. /\ RequestsFor(q) = Places(requests, RequestsAbout(q))
          /\ AcksFor(q) = Places(messages, AcksAbout(q))
      BY <1>1, AsPlaces
    <2>3. /\ r \in RequestsAbout(q) <=> q = r.query
          /\ m \in AcksAbout(q) <=> q = r.query
      BY <1>5, <1>6 DEF RequestsAbout, AcksAbout, IsAck
    <2> QED BY <1>1, <1>2, <1>5, <1>6, <2>1, <2>2, <2>3, PlacesTaken, PlacesAppended
  <1>9. CountedOK'
    <2> SUFFICES ASSUME NEW q \in Queries
        PROVE  outstanding'[q] = Cardinality(RequestsFor(q)') + Cardinality(AcksFor(q)')
      BY DEF CountedOK
    <2>1. outstanding[q] = Cardinality(RequestsFor(q)) + Cardinality(AcksFor(q))
      BY DEF LinkOK, CountedOK
    <2>2. Cardinality(RequestsFor(q)) \in Nat /\ Cardinality(AcksFor(q)) \in Nat
      BY <1>1, Counts
    <2> QED BY <1>4, <1>8, <2>1, <2>2
  <1> QED BY <1>1, <1>4, <1>7, <1>9 DEF LinkOK, ClosedOK

\* The server sends CURRENT or a snapshot.
LEMMA SentLink ==
    ASSUME LinkOK, NEW m \in MessageType, m.kind \in {"current", "snapshot"},
           messages' = Append(messages, m),
           watched' \in [Queries -> {"no", "yes", "current", "synced"}],
           UNCHANGED <<requests, outstanding, current, pending, kept, stream>>,
           stream.state = "Open"
    PROVE  LinkOK'
  <1>1. LinkType /\ messages \in Seq(MessageType)
    BY DEF LinkOK, LinkType
  <1>2. /\ Len(messages') = Len(messages) + 1 /\ Len(messages) \in Nat
        /\ messages'[Len(messages) + 1] = m /\ messages' \in Seq(MessageType)
        /\ \A k \in 1 .. Len(messages) : messages'[k] = messages[k]
    BY <1>1, Appended
  <1>3. \A p : RequestsFor(p)' = RequestsFor(p)
    BY DEF RequestsFor
  <1>4. \A p : ~IsAck(m, p)
    BY DEF IsAck
  <1>5. \A p : AcksFor(p)' = AcksFor(p)
    BY <1>2, <1>4 DEF AcksFor
  <1>6. LinkType' /\ CountedOK'
    BY <1>1, <1>2, <1>3, <1>5 DEF LinkOK, LinkType, CountedOK
  <1> QED BY <1>6 DEF LinkOK, ClosedOK

\* A message is read, and an acknowledgement counted.
LEMMA ChangeLink ==
    ASSUME LinkOK, OnWatchStreamChange
    PROVE  LinkOK'
  <1>1. messages # <<>> /\ LinkType /\ stream.state = "Open"
    BY DEF OnWatchStreamChange, LinkOK, ClosedOK
  <1>2. PICK m : m = Head(messages)
    OBVIOUS
  <1>3. /\ messages' = Tail(messages) /\ requests' = requests
        /\ watched' = watched /\ stream' = stream
        /\ outstanding' = IF m.kind \in {"added", "removed"}
                          THEN [outstanding EXCEPT ![m.query] = @ - 1]
                          ELSE outstanding
    BY <1>2 DEF OnWatchStreamChange, TargetAdded, TargetRemoved, TargetCurrent,
                RaiseWatchSnapshot
  <1>4. /\ messages \in Seq(MessageType) /\ m \in MessageType
        /\ outstanding \in [Queries -> Nat]
    BY <1>1, <1>2, Taken DEF LinkType
  <1>5. /\ m = messages[1] /\ Len(messages) \in Nat \ {0}
        /\ Len(messages') = Len(messages) - 1 /\ messages' \in Seq(MessageType)
        /\ \A i \in 1 .. Len(messages) - 1 : messages'[i] = messages[i + 1]
    BY <1>1, <1>2, <1>3, <1>4, Taken
  <1>6. /\ pending' \subseteq current' /\ kept' \subseteq current'
        /\ current' \subseteq Queries
    <2>1. /\ pending \subseteq current /\ kept \subseteq current
          /\ current \subseteq Queries
      BY <1>1 DEF LinkType
    <2>2. CASE TargetAdded(m.query)
      BY <2>1, <2>2 DEF TargetAdded
    <2>3. CASE TargetRemoved(m.query)
      BY <2>1, <2>3 DEF TargetRemoved, RemoveTarget, marks
    <2>4. CASE TargetCurrent(m.query)
      BY <2>1, <2>4 DEF TargetCurrent, IsActiveTarget, Targets
    <2>5. CASE RaiseWatchSnapshot
      BY <2>1, <2>5 DEF RaiseWatchSnapshot
    <2> QED BY <1>2, <2>2, <2>3, <2>4, <2>5 DEF OnWatchStreamChange
  <1>7. \A p : RequestsFor(p)' = RequestsFor(p)
    BY <1>3 DEF RequestsFor
  <1>8. ASSUME NEW p \in Queries
        PROVE  Cardinality(AcksFor(p)') = Cardinality(AcksFor(p))
                    - (IF IsAck(m, p) THEN 1 ELSE 0)
    <2>1. AcksFor(p)' = Places(Tail(messages), AcksAbout(p))
      <3>1. \A i \in 1 .. Len(messages') : messages'[i] \in MessageType
        BY <1>5
      <3> QED BY <1>3, <3>1 DEF AcksFor, Places, AcksAbout
    <2>2. AcksFor(p) = Places(messages, AcksAbout(p))
      BY <1>1, AsPlaces
    <2>3. m \in AcksAbout(p) <=> IsAck(m, p)
      BY <1>4 DEF AcksAbout
    <2> QED BY <1>1, <1>2, <1>4, <2>1, <2>2, <2>3, PlacesTaken
  <1>9. ASSUME NEW p \in Queries
        PROVE  /\ outstanding'[p] \in Nat
               /\ outstanding'[p] = Cardinality(RequestsFor(p)')
                                    + Cardinality(AcksFor(p)')
    <2>1. outstanding[p] = Cardinality(RequestsFor(p)) + Cardinality(AcksFor(p))
      BY DEF LinkOK, CountedOK
    <2>2. /\ Cardinality(RequestsFor(p)) \in Nat /\ Cardinality(AcksFor(p)) \in Nat
          /\ AcksFor(p) # {} => Cardinality(AcksFor(p)) > 0
      BY <1>1, Counts
    <2>3. CASE IsAck(m, p)
      <3>1. 1 \in AcksFor(p)
        BY <1>5, <2>3 DEF AcksFor
      <3>2. outstanding'[p] = outstanding[p] - 1
        BY <1>3, <1>4, <2>3 DEF IsAck
      <3> QED BY <1>7, <1>8, <2>1, <2>2, <2>3, <3>1, <3>2
    <2>4. CASE ~IsAck(m, p)
      <3>1. outstanding'[p] = outstanding[p]
        BY <1>3, <1>4, <2>4 DEF IsAck
      <3> QED BY <1>7, <1>8, <2>1, <2>2, <2>4, <3>1
    <2> QED BY <2>3, <2>4
  <1>10. outstanding' \in [Queries -> Nat]
    <2>1. CASE m.kind \in {"added", "removed"}
      <3>1. outstanding' = [outstanding EXCEPT ![m.query] = @ - 1]
        BY <1>3, <2>1
      <3>2. outstanding' = [p \in Queries |-> outstanding'[p]]
        BY <1>4, <3>1
      <3> QED BY <1>9, <3>2
    <2>2. CASE m.kind \notin {"added", "removed"}
      BY <1>3, <1>4, <2>2
    <2> QED BY <2>1, <2>2
  <1>11. LinkType' /\ CountedOK'
    BY <1>1, <1>3, <1>5, <1>6, <1>9, <1>10 DEF LinkType, CountedOK
  <1> QED BY <1>1, <1>3, <1>11 DEF LinkOK, ClosedOK

-----------------------------------------------------------------------------
(* The steps of the worker queue.                                           *)

\* What the invariant says of the tracker, the stream and those who wait.
LEMMA Parts ==
    ASSUME IInv
    PROVE  /\ online \in OnlineType /\ stream \in StreamType
           /\ Timers(online, stream) /\ LinkOK
           /\ Targets # {} => IsStarted(stream)
           /\ stream.idle => Targets = {} /\ stream.state = "Open"
           /\ view \in [Queries -> {"none", "local", "synced"}]
           /\ \A q \in Queries : view[q] = "none" <=> listeners[q] = {}
           /\ raised \subseteq {g \in Gets : query[g] # NoQuery}
           /\ events \in [Gets -> Seq(Answers)]
           /\ \A g \in Gets : events[g] # <<>> => g \in raised
           /\ SyncedTold
           /\ turns \in Nat
           /\ online.state = "Offline" =>
                \A q \in Queries : listeners[q] \subseteq raised /\ view[q] # "synced"
  BY DEF IInv, TypeOK, OnlineType, StreamType, OnlineStateAgrees, EventsCounted,
         TrackerConsistent, Timers, StreamRunsWhileNeeded, OfflineAnswersAll

LEMMA TokenArrivesKeeps ==
    ASSUME IInv, TokenArrives
    PROVE  IInv'
  <1>1. /\ UNCHANGED <<app, listeners, view, raised, events, online, turns>>
        /\ stream.state = "Starting" /\ stream' = [stream EXCEPT !.state = "Open"]
    BY DEF TokenArrives, views
  <1>2. stream' \in StreamType /\ IsStarted(stream') /\ stream'.idle = stream.idle
    BY <1>1, Parts DEF StreamType, States, IsStarted
  <1>3. Timers(online', stream') /\ ~stream'.idle
    BY <1>1, <1>2, Parts DEF Timers
  <1>4. LinkOK'
    BY OpenLink
  <1>20. SyncedTold'
    <2>1. \A q \in Queries : view[q] = "synced" => listeners[q] \subseteq raised
      BY Parts DEF SyncedTold
    <2> QED BY <1>1, <2>1 DEF SyncedTold
  <1> QED BY <1>20, <1>1, <1>2, <1>3, <1>4, Parts, StreamStepKeeps

LEMMA StreamFailsKeeps ==
    ASSUME IInv, StreamFails
    PROVE  IInv'
  <1>1. /\ UNCHANGED <<app, listeners>> /\ Announce(online') /\ NoConnection
        /\ turns' = turns + 1
    BY DEF StreamFails, Turn
  <1>2. turns' \in Nat
    BY <1>1, Parts
  <1>3. LinkOK'
    BY <1>1, NoConnectionLink
  <1>4. Closed("Error") \in StreamType /\ ~Closed("Error").idle
    BY ClosedTypes DEF States
  <1>5. /\ online' \in OnlineType /\ stream' \in StreamType
        /\ Timers(online', stream') /\ ~stream'.idle
        /\ Targets # {} => IsStarted(stream')
    <2>1. CASE Targets = {}
      <3>1. stream' = Closed("Error") /\ online' = UpdateState(online, "Unknown")
        BY <2>1 DEF StreamFails
      <3> QED BY <1>4, <2>1, <3>1, Parts, OnlineTypes, TrackerHandlers
    <2>2. CASE Targets # {}
      <3>1. /\ stream' = StartedStream(Closed("Error"))
            /\ online' = HandleWatchStreamStart(HandleWatchStreamFailure(online))
        BY <2>2 DEF StreamFails
      <3>2. stream' \in StreamType /\ IsStarted(stream') /\ ~stream'.idle
        BY <1>4, <3>1, StreamTypes
      <3>3. HandleWatchStreamFailure(online) \in OnlineType
        BY Parts, OnlineTypes
      <3> QED BY <3>1, <3>2, <3>3, Parts, OnlineTypes, TrackerHandlers
    <2> QED BY <2>1, <2>2
  <1> HIDE DEF Announce
  <1>6. PICK o : o = online'
    OBVIOUS
  <1>7. Announce(o) /\ o \in OnlineType
    BY <1>1, <1>5, <1>6
  <1>20. SyncedTold'
    <2>1. \A q \in Queries : view[q] = "synced" => listeners[q] \subseteq raised
      BY Parts DEF SyncedTold
    <2>2. UNCHANGED listeners
      BY <1>1
    <2>3. \A q \in Queries : view'[q] = "synced" => listeners'[q] \subseteq raised'
      BY <1>7, <2>1, <2>2, AnnounceType
    <2> QED BY <2>3 DEF SyncedTold
  <1> QED BY <1>20, <1>1, <1>2, <1>3, <1>5, <1>6, <1>7, AnnounceType, StreamStepKeeps

LEMMA BackoffElapsedKeeps ==
    ASSUME IInv, BackoffElapsed
    PROVE  IInv'
  <1>1. /\ UNCHANGED <<app, listeners, view, raised, events, online, link, turns>>
        /\ stream.state = "Backoff"
        /\ stream' = [stream EXCEPT !.state = "Starting"]
    BY DEF BackoffElapsed, views
  <1>2. /\ stream' \in StreamType /\ IsStarted(stream') /\ stream'.idle = stream.idle
        /\ stream'.state = "Starting"
    BY <1>1, Parts DEF StreamType, States, IsStarted
  <1>3. Timers(online', stream') /\ ~stream'.idle
    BY <1>1, <1>2, Parts DEF Timers
  <1>4. LinkOK'
    BY <1>1, <1>2, Parts, LinkClosed
  <1>20. SyncedTold'
    <2>1. \A q \in Queries : view[q] = "synced" => listeners[q] \subseteq raised
      BY Parts DEF SyncedTold
    <2> QED BY <1>1, <2>1 DEF SyncedTold
  <1> QED BY <1>20, <1>1, <1>2, <1>3, <1>4, Parts, StreamStepKeeps

LEMMA StopStreamKeeps ==
    ASSUME IInv, IdleTimeout \/ ServerEnds
    PROVE  IInv'
  <1>1. /\ UNCHANGED <<app, listeners, view, raised, events, turns>>
        /\ stream.idle \/ Targets = {}
        /\ NoConnection
        /\ stream' = Closed("Initial") /\ online' = UpdateState(online, "Unknown")
    BY DEF IdleTimeout, ServerEnds, StopStream, views
  <1>2. stream' \in StreamType /\ ~stream'.idle
    BY <1>1, ClosedTypes DEF States
  <1>3. /\ online' \in OnlineType /\ Timers(online', stream')
        /\ online'.state # "Offline"
    BY <1>1, Parts, OnlineTypes, TrackerHandlers DEF UpdateState
  <1>4. LinkOK' /\ Targets = {}
    BY <1>1, NoConnectionLink, Parts
  <1>20. SyncedTold'
    <2>1. \A q \in Queries : view[q] = "synced" => listeners[q] \subseteq raised
      BY Parts DEF SyncedTold
    <2> QED BY <1>1, <2>1 DEF SyncedTold
  <1> QED BY <1>20, <1>1, <1>2, <1>3, <1>4, Parts, StreamStepKeeps

LEMMA OnlineStateTimeoutKeeps ==
    ASSUME IInv, OnlineStateTimeout
    PROVE  IInv'
  <1>1. /\ UNCHANGED <<app, listeners, stream, link, turns>> /\ Announce(online')
        /\ online' = [online EXCEPT !.state = "Offline", !.timer = FALSE]
    BY DEF OnlineStateTimeout
  <1>2. online' \in OnlineType /\ Timers(online', stream')
    BY <1>1, Parts DEF OnlineType, Timers
  <1>3. LinkOK'
    BY <1>1, Parts, LinkKept
  <1> HIDE DEF Announce
  <1>4. PICK o : o = online'
    OBVIOUS
  <1>5. Announce(o) /\ o \in OnlineType
    BY <1>1, <1>2, <1>4
  <1>20. SyncedTold'
    <2>1. \A q \in Queries : view[q] = "synced" => listeners[q] \subseteq raised
      BY Parts DEF SyncedTold
    <2>2. UNCHANGED listeners
      BY <1>1
    <2>3. \A q \in Queries : view'[q] = "synced" => listeners'[q] \subseteq raised'
      BY <1>5, <2>1, <2>2, AnnounceType
    <2> QED BY <2>3 DEF SyncedTold
  <1> QED BY <1>20, <1>1, <1>2, <1>3, <1>4, <1>5, Parts, AnnounceType, StreamStepKeeps

LEMMA UserChangesKeeps ==
    ASSUME IInv, UserChanges
    PROVE  IInv'
  <1>1. /\ UNCHANGED <<app, listeners, view, raised, events>> /\ NoConnection
        /\ turns' = turns + 1
    BY DEF UserChanges, Turn, views
  <1>2. turns' \in Nat
    BY <1>1, Parts
  <1>3. LinkOK'
    BY <1>1, NoConnectionLink
  <1>4. PICK s : s = IF IsStarted(stream) THEN Closed("Initial") ELSE stream
    OBVIOUS
  <1>5. PICK o : o = UpdateState(online, "Unknown")
    OBVIOUS
  <1>6. /\ stream' = IF Targets = {} THEN s ELSE StartedStream(s)
        /\ online' = IF Targets = {} THEN o ELSE HandleWatchStreamStart(o)
    BY <1>4, <1>5 DEF UserChanges
  <1>7. s \in StreamType /\ ~s.idle
    <2>1. CASE IsStarted(stream)
      BY <1>4, <2>1, ClosedTypes DEF States
    <2>2. CASE ~IsStarted(stream)
      BY <1>4, <2>2, Parts DEF IsStarted
    <2> QED BY <2>1, <2>2
  <1>8. o \in OnlineType /\ Timers(o, stream) /\ o.state = "Unknown" /\ o.failures = 0
    BY <1>5, Parts, OnlineTypes, TrackerHandlers DEF UpdateState
  <1>9. /\ online' \in OnlineType /\ stream' \in StreamType
        /\ Timers(online', stream') /\ ~stream'.idle
        /\ Targets # {} => IsStarted(stream')
        /\ online'.state # "Offline"
    <2>1. CASE Targets = {}
      <3>1. stream' = s /\ online' = UpdateState(online, "Unknown")
        BY <1>5, <1>6, <2>1
      <3> QED BY <1>5, <1>7, <1>8, <2>1, <3>1, Parts, TrackerHandlers
    <2>2. CASE Targets # {}
      <3>1. stream' = StartedStream(s) /\ online' = HandleWatchStreamStart(o)
        BY <1>6, <2>2
      <3>2. stream' \in StreamType /\ IsStarted(stream') /\ ~stream'.idle
        BY <1>7, <3>1, StreamTypes
      <3>3. online' \in OnlineType /\ Timers(online', stream')
        BY <1>8, <3>1, <3>2, OnlineTypes, TrackerHandlers
      <3>4. online'.state = "Unknown"
        BY <1>8, <3>1 DEF HandleWatchStreamStart, OnlineType
      <3> QED BY <3>2, <3>3, <3>4
    <2> QED BY <2>1, <2>2
  <1>20. SyncedTold'
    <2>1. \A q \in Queries : view[q] = "synced" => listeners[q] \subseteq raised
      BY Parts DEF SyncedTold
    <2> QED BY <1>1, <2>1 DEF SyncedTold
  <1> QED BY <1>20, <1>1, <1>2, <1>3, <1>9, Parts, StreamStepKeeps

LEMMA ServerKeeps ==
    ASSUME IInv, Server
    PROVE  IInv'
  <1>0. UNCHANGED <<view, raised, listeners>> => SyncedTold'
    BY Parts DEF SyncedTold
  <1>1. LinkOK /\ \A q \in Queries : watched[q] # "no" => stream.state = "Open"
    BY Parts DEF LinkOK, ClosedOK
  <1>2. watched \in [Queries -> {"no", "yes", "current", "synced"}]
    BY <1>1 DEF LinkOK, LinkType
  <1>3. CASE ServerTakes
    <2>1. UNCHANGED <<app, listeners, view, raised, events, online, stream, turns>>
      BY <1>3 DEF ServerTakes, views
    <2>2. LinkOK'
      BY <1>1, <1>3, ServerTakesLink
    <2> QED BY <1>0, <2>1, <2>2, Parts, StreamStepKeeps
  <1>4. ASSUME NEW q \in Queries, ServerCurrent(q) PROVE IInv'
    <2>1. /\ UNCHANGED <<app, listeners, view, raised, events, online, stream, turns>>
          /\ UNCHANGED <<requests, outstanding, current, pending, kept>>
          /\ watched[q] = "yes" /\ watched' = [watched EXCEPT ![q] = "current"]
          /\ messages' = Append(messages, [kind |-> "current", query |-> q])
      BY <1>4 DEF ServerCurrent, views, marks
    <2>2. [kind |-> "current", query |-> q] \in MessageType
      BY DEF MessageType
    <2>3. watched' \in [Queries -> {"no", "yes", "current", "synced"}]
      BY <1>2, <2>1
    <2>4. LinkOK'
      BY <1>1, <2>1, <2>2, <2>3, SentLink
    <2> QED BY <1>0, <2>1, <2>4, Parts, StreamStepKeeps
  <1>5. CASE ServerSnapshot
    <2>1. /\ UNCHANGED <<app, listeners, view, raised, events, online, stream>>
          /\ UNCHANGED <<requests, outstanding, current, pending, kept>>
          /\ \E q \in Queries : watched[q] # "no"
          /\ watched' = [q \in Queries |->
                            IF q \in NewlyCurrent THEN "synced" ELSE watched[q]]
          /\ messages' = Append(messages, [kind |-> "snapshot", query |-> NoQuery])
      BY <1>5 DEF ServerSnapshot, views, marks
    <2>2. turns' \in Nat
      BY <1>5, Parts DEF ServerSnapshot, Turn
    <2>3. [kind |-> "snapshot", query |-> NoQuery] \in MessageType
      BY DEF MessageType
    <2>4. watched' \in [Queries -> {"no", "yes", "current", "synced"}]
      BY <1>2, <2>1
    <2>5. LinkOK'
      BY <1>1, <2>1, <2>3, <2>4, SentLink
    <2> QED BY <1>0, <2>1, <2>2, <2>5, Parts, StreamStepKeeps
  <1> QED BY <1>3, <1>4, <1>5 DEF Server

\* What a snapshot does to the views of the targets it changes: a view there is
\* stays, and those who are told have had an event.
LEMMA TargetChangesType ==
    ASSUME IInv, NEW changed, changed \subseteq Queries, ApplyTargetChanges(changed)
    PROVE  /\ view' \in [Queries -> {"none", "local", "synced"}]
           /\ \A p \in Queries : view'[p] = "none" <=> view[p] = "none"
           /\ raised \subseteq raised'
           /\ raised' \subseteq {g \in Gets : query[g] # NoQuery}
           /\ events' \in [Gets -> Seq(Answers)]
           /\ \A g \in Gets : events'[g] # <<>> => g \in raised'
  <1>1. PICK synced : synced = {q \in changed : q \in current /\ view[q] = "local"}
    OBVIOUS
  <1>2. PICK unsynced :
            unsynced = {q \in changed : q \notin current /\ view[q] = "synced"}
    OBVIOUS
  <1>3. /\ view' = [q \in Queries |-> IF q \in synced THEN "synced"
                                      ELSE IF q \in unsynced THEN "local"
                                      ELSE view[q]]
        /\ raised' = raised \cup UNION {listeners[q] : q \in synced}
        /\ events' = [g \in Gets |->
                IF \E q \in synced : g \in listeners[q]
                THEN Append(events[g], "server")
                ELSE IF \E q \in unsynced : g \in listeners[q]
                THEN Append(events[g], "cache")
                ELSE events[g]]
    BY <1>1, <1>2 DEF ApplyTargetChanges
  <1>4. \A q \in Queries : listeners[q] \subseteq {g \in Gets : query[g] # NoQuery}
    BY QueryAssumption DEF IInv, TypeOK
  <1>5. view' \in [Queries -> {"none", "local", "synced"}]
        /\ \A p \in Queries : view'[p] = "none" <=> view[p] = "none"
    BY <1>1, <1>2, <1>3, Parts
  <1>6. synced \subseteq Queries /\ unsynced \subseteq Queries
    BY <1>1, <1>2
  <1>7. raised' \subseteq {g \in Gets : query[g] # NoQuery}
    BY <1>3, <1>4, <1>6, Parts
  <1>8. ASSUME NEW g \in Gets
        PROVE  events'[g] \in Seq(Answers) /\ (events'[g] # <<>> => g \in raised')
    <2>1. events[g] \in Seq(Answers) /\ (events[g] # <<>> => g \in raised)
      BY Parts
    <2>2. /\ Append(events[g], "server") \in Seq(Answers)
          /\ Append(events[g], "cache") \in Seq(Answers)
      BY <2>1, Appended DEF Answers
    <2>3. CASE \E q \in synced : g \in listeners[q]
      BY <1>3, <2>2, <2>3
    <2>4. CASE /\ ~\E q \in synced : g \in listeners[q]
               /\ \E q \in unsynced : g \in listeners[q]
      <3>1. events'[g] = Append(events[g], "cache")
        BY <1>3, <2>4
      <3>2. g \in raised
        BY <1>2, <1>6, <2>4 DEF IInv, SyncedTold
      <3> QED BY <1>3, <2>2, <3>1, <3>2
    <2>5. CASE /\ ~\E q \in synced : g \in listeners[q]
               /\ ~\E q \in unsynced : g \in listeners[q]
      BY <1>3, <2>1, <2>5
    <2> QED BY <2>3, <2>4, <2>5
  <1>9. events' \in [Gets -> Seq(Answers)]
    BY <1>3, <1>8
  <1> QED BY <1>3, <1>5, <1>7, <1>8, <1>9

\* What of a snapshot matters to the views: the targets it changes are active.
LEMMA ChangeCases ==
    ASSUME OnWatchStreamChange
    PROVE  \/ UNCHANGED <<view, raised, events>>
           \/ /\ Head(messages).kind = "snapshot"
              /\ \E changed \in SUBSET {q \in Queries : IsActiveTarget(q)} :
                    ApplyTargetChanges(changed)
              /\ UNCHANGED <<current, kept, outstanding>>
  <1>1. PICK m : m = Head(messages)
    OBVIOUS
  <1>2. CASE UNCHANGED views
    BY <1>2 DEF views
  <1>3. CASE m.kind = "snapshot" /\ RaiseWatchSnapshot
    <2>1. PICK touched \in SUBSET Queries :
            ApplyTargetChanges({q \in touched \cup pending : IsActiveTarget(q)})
      BY <1>3 DEF RaiseWatchSnapshot
    <2>2. {q \in touched \cup pending : IsActiveTarget(q)}
                \in SUBSET {q \in Queries : IsActiveTarget(q)}
      BY DEF IsActiveTarget, Targets
    <2>3. UNCHANGED <<current, kept, outstanding>>
      BY <1>3 DEF RaiseWatchSnapshot
    <2> QED BY <1>1, <1>3, <2>1, <2>2, <2>3
  <1> QED BY <1>1, <1>2, <1>3 DEF OnWatchStreamChange

LEMMA OnWatchStreamChangeKeeps ==
    ASSUME IInv, OnWatchStreamChange
    PROVE  IInv'
  <1>1. /\ UNCHANGED <<app, listeners, stream, turns>>
        /\ online' = UpdateState(online, "Online")
    BY DEF OnWatchStreamChange
  <1>2. LinkOK'
    BY Parts, ChangeLink
  <1>3. /\ online' \in OnlineType /\ Timers(online', stream')
        /\ online'.state # "Offline"
    BY <1>1, Parts, OnlineTypes, TrackerHandlers DEF UpdateState
  <1>4. /\ view' \in [Queries -> {"none", "local", "synced"}]
        /\ \A p \in Queries : view'[p] = "none" <=> view[p] = "none"
        /\ raised \subseteq raised'
        /\ raised' \subseteq {g \in Gets : query[g] # NoQuery}
        /\ events' \in [Gets -> Seq(Answers)]
        /\ \A g \in Gets : events'[g] # <<>> => g \in raised'
        /\ SyncedTold'
    <2>1. CASE UNCHANGED <<view, raised, events>>
      BY <1>1, <2>1, Parts DEF SyncedTold
    <2>2. CASE ~UNCHANGED <<view, raised, events>>
      <3>1. PICK changed \in SUBSET {q \in Queries : IsActiveTarget(q)} :
                ApplyTargetChanges(changed)
        BY <2>2, ChangeCases
      <3>2. changed \subseteq Queries
        OBVIOUS
      <3>3. SyncedTold'
        BY <1>1, <3>1, Parts DEF SyncedTold, ApplyTargetChanges
      <3> QED BY <3>1, <3>2, <3>3, TargetChangesType
    <2> QED BY <2>1, <2>2
  <1> QED BY <1>1, <1>2, <1>3, <1>4, Parts, StreamStepKeeps

\* Tasks of the worker queue: a listener comes or goes, and the tracker and
\* the stream follow.
LEMMA TaskStepKeeps ==
    ASSUME IInv, tasks # <<>>, tasks' = Tail(tasks),
           UNCHANGED <<query, muted, answers, turns>>,
           listeners' \in [Queries -> SUBSET Gets],
           \A q \in Queries : listeners'[q] \subseteq {g \in Gets : query[g] = q},
           view' \in [Queries -> {"none", "local", "synced"}],
           \A q \in Queries : view'[q] = "none" <=> listeners'[q] = {},
           raised \subseteq raised',
           raised' \subseteq {g \in Gets : query[g] # NoQuery},
           events' \in [Gets -> Seq(Answers)],
           \A g \in Gets : events'[g] # <<>> => g \in raised',
           SyncedTold',
           online' \in OnlineType, stream' \in StreamType,
           LinkOK',
           Timers(online', stream'),
           Targets' # {} => IsStarted(stream'),
           stream'.idle => Targets' = {} /\ stream'.state = "Open",
           online'.state = "Offline" =>
                \A q \in Queries : listeners'[q] \subseteq raised'
                                   /\ view'[q] # "synced"
    PROVE  IInv'
  <1>1. tasks' \in Seq(TaskType) /\ TasksCalled'
    BY TaskTaken
  <1>2. /\ query' \in [Gets -> Queries \cup {NoQuery}]
        /\ muted' \subseteq raised' /\ answers' \in [Gets -> Seq(Answers)]
        /\ turns' \in Nat
    BY DEF IInv, TypeOK
  <1>3. /\ requests' \in Seq(RequestType) /\ messages' \in Seq(MessageType)
        /\ watched' \in [Queries -> {"no", "yes", "current", "synced"}]
        /\ outstanding' \in [Queries -> Nat]
        /\ pending' \subseteq current' /\ kept' \subseteq current'
        /\ current' \subseteq Queries
    BY DEF LinkOK, LinkType
  <1>4. TypeOK'
    BY <1>1, <1>2, <1>3
    DEF TypeOK, TaskType, OnlineType, StreamType, RequestType, MessageType
  <1>5. EventsCounted'
    BY DEF IInv, EventsCounted
  <1>6. OnlineStateAgrees'
    BY DEF OnlineStateAgrees, TrackerConsistent, Timers,
           StreamRunsWhileNeeded, OfflineAnswersAll
  <1> QED BY <1>1, <1>4, <1>5, <1>6 DEF IInv

LEMMA RunAddKeeps ==
    ASSUME IInv, tasks # <<>>, NEW g \in Gets, query[g] \in Queries, RunAdd(g)
    PROVE  IInv'
  <1>1. PICK q : q = query[g]
    OBVIOUS
  <1>2. PICK first \in BOOLEAN : first <=> listeners[q] = {}
    OBVIOUS
  <1>3. /\ q \in Queries
        /\ listeners' = [listeners EXCEPT ![q] = @ \cup {g}]
        /\ view' = IF first THEN [view EXCEPT ![q] = "local"] ELSE view
        /\ tasks' = Tail(tasks) /\ UNCHANGED <<query, muted, answers, turns>>
    BY <1>1, <1>2 DEF RunAdd
  <1>4. /\ listeners \in [Queries -> SUBSET Gets]
        /\ \A p \in Queries : listeners[p] \subseteq {h \in Gets : query[h] = p}
    BY DEF IInv, TypeOK
  <1>5. /\ listeners' \in [Queries -> SUBSET Gets]
        /\ listeners'[q] = listeners[q] \cup {g}
        /\ \A p \in Queries : p # q => listeners'[p] = listeners[p]
        /\ \A p \in Queries : listeners'[p] \subseteq {h \in Gets : query[h] = p}
    BY <1>1, <1>3, <1>4
  <1>6. /\ view' \in [Queries -> {"none", "local", "synced"}]
        /\ \A p \in Queries : view'[p] = "none" <=> listeners'[p] = {}
        /\ \A p \in Queries : view'[p] = "synced" => view[p] = "synced"
    <2>1. CASE first
      BY <1>2, <1>3, <1>5, <2>1, Parts
    <2>2. CASE ~first
      BY <1>2, <1>3, <1>5, <2>2, Parts
    <2> QED BY <2>1, <2>2
  <1>7. /\ raised \subseteq raised'
        /\ raised' \subseteq {h \in Gets : query[h] # NoQuery}
        /\ events' \in [Gets -> Seq(Answers)]
        /\ \A h \in Gets : events'[h] # <<>> => h \in raised'
        /\ view[q] = "synced" \/ online.state = "Offline" => g \in raised'
    <2>1. CASE view[q] = "synced" \/ online.state = "Offline"
      <3>1. PICK a \in Answers : /\ raised' = raised \cup {g}
                                 /\ events' = [events EXCEPT ![g] = Append(@, a)]
        BY <1>1, <2>1 DEF RunAdd, Answers
      <3>2. Append(events[g], a) \in Seq(Answers)
        BY Parts, Appended
      <3> QED BY <1>1, <1>3, <3>1, <3>2, Parts, QueryAssumption
    <2>2. CASE ~(view[q] = "synced" \/ online.state = "Offline")
      <3>1. UNCHANGED <<raised, events>>
        BY <1>1, <2>2 DEF RunAdd
      <3> QED BY <2>2, <3>1, Parts
    <2> QED BY <2>1, <2>2
  <1>8. /\ first /\ ~IsStarted(stream) =>
            /\ stream' = StartedStream(stream)
            /\ online' = HandleWatchStreamStart(online) /\ UNCHANGED link
        /\ first /\ stream.state = "Open" =>
            /\ stream' = Sent(stream) /\ Request("watch", q)
            /\ UNCHANGED <<messages, watched, current, pending, online>>
            /\ kept' = IF q \in current /\ outstanding[q] > 0
                       THEN kept \cup {q} ELSE kept
        /\ ~(first /\ ~IsStarted(stream)) /\ ~(first /\ stream.state = "Open") =>
            UNCHANGED <<stream, online, link>>
    BY <1>1, <1>2 DEF RunAdd, IsStarted
  <1>9. /\ online' \in OnlineType /\ stream' \in StreamType
        /\ LinkOK' /\ Timers(online', stream')
        /\ IsStarted(stream') /\ ~stream'.idle
        /\ online'.state = "Offline" => online.state = "Offline"
    <2>1. CASE first /\ ~IsStarted(stream)
      <3>1. /\ stream' = StartedStream(stream) /\ UNCHANGED link
            /\ online' = HandleWatchStreamStart(online)
        BY <1>8, <2>1
      <3>2. /\ stream' \in StreamType /\ IsStarted(stream')
            /\ stream'.idle = stream.idle /\ stream'.state # "Open"
        BY <3>1, Parts, StreamTypes DEF StartedStream, StreamType
      <3>3. ~stream.idle /\ stream.state # "Open"
        BY <2>1, Parts DEF IsStarted
      <3>4. LinkOK'
        BY <3>1, <3>2, <3>3, Parts, LinkClosed
      <3>5. online' \in OnlineType /\ Timers(online', stream')
        BY <3>1, <3>2, Parts, OnlineTypes, TrackerHandlers
      <3>6. online'.state = "Offline" => online.state = "Offline"
        BY <3>1, Parts DEF HandleWatchStreamStart, OnlineType
      <3> QED BY <3>2, <3>3, <3>4, <3>5, <3>6
    <2>2. CASE first /\ stream.state = "Open"
      <3>1. /\ stream' = Sent(stream) /\ Request("watch", q)
            /\ UNCHANGED <<messages, watched, current, pending, online>>
            /\ kept' = IF q \in current /\ outstanding[q] > 0
                       THEN kept \cup {q} ELSE kept
        BY <1>8, <2>2
      <3>2. stream' \in StreamType /\ stream'.state = "Open" /\ ~stream'.idle
        BY <2>2, <3>1, Parts, StreamTypes
      <3>3. Timers(online', stream') /\ IsStarted(stream')
        BY <3>1, <3>2, Parts DEF Timers, IsStarted
      <3>4. kept' \subseteq current
        BY <3>1, Parts DEF LinkOK, LinkType
      <3>5. LinkOK'
        BY <1>3, <3>1, <3>2, <3>4, Parts, RequestLink
      <3> QED BY <3>1, <3>2, <3>3, <3>5, Parts
    <2>3. CASE ~(first /\ ~IsStarted(stream)) /\ ~(first /\ stream.state = "Open")
      <3>1. UNCHANGED <<stream, online, link>>
        BY <1>8, <2>3
      <3>2. IsStarted(stream) /\ ~stream.idle
        <4>1. CASE first
          BY <2>3, <4>1, Parts
        <4>2. CASE ~first
          BY <1>2, <1>3, <4>2, Parts DEF Targets
        <4> QED BY <4>1, <4>2
      <3> QED BY <3>1, <3>2, Parts, LinkKept
    <2> QED BY <2>1, <2>2, <2>3
  <1>10. online'.state = "Offline" =>
            \A p \in Queries : listeners'[p] \subseteq raised' /\ view'[p] # "synced"
    BY <1>3, <1>5, <1>6, <1>7, <1>9, Parts
  <1>11. SyncedTold'
    <2>1. \A p \in Queries : view[p] = "synced" => listeners[p] \subseteq raised
      BY Parts DEF SyncedTold
    <2>2. \A p \in Queries : view'[p] = "synced" => listeners'[p] \subseteq raised'
      BY <1>3, <1>5, <1>6, <1>7, <2>1
    <2> QED BY <2>2 DEF SyncedTold
  <1> QED BY <1>3, <1>5, <1>6, <1>7, <1>9, <1>10, <1>11, TaskStepKeeps

LEMMA RunRemoveKeeps ==
    ASSUME IInv, tasks # <<>>, NEW g \in Gets, query[g] \in Queries, RunRemove(g)
    PROVE  IInv'
  <1>1. PICK q : q = query[g]
    OBVIOUS
  <1>2. PICK last \in BOOLEAN : last <=> listeners[q] = {g}
    OBVIOUS
  <1>3. PICK none \in BOOLEAN : none <=> \A p \in Queries \ {q} : view[p] = "none"
    OBVIOUS
  <1>4. /\ q \in Queries
        /\ listeners' = [listeners EXCEPT ![q] = @ \ {g}]
        /\ view' = IF last THEN [view EXCEPT ![q] = "none"] ELSE view
        /\ tasks' = Tail(tasks)
        /\ UNCHANGED <<query, raised, events, muted, answers, turns>>
    BY <1>1, <1>2 DEF RunRemove
  <1>5. /\ listeners \in [Queries -> SUBSET Gets]
        /\ \A p \in Queries : listeners[p] \subseteq {h \in Gets : query[h] = p}
    BY DEF IInv, TypeOK
  <1>6. /\ listeners' \in [Queries -> SUBSET Gets]
        /\ listeners'[q] = listeners[q] \ {g}
        /\ \A p \in Queries : p # q => listeners'[p] = listeners[p]
        /\ \A p \in Queries : listeners'[p] \subseteq listeners[p]
    BY <1>4, <1>5
  <1>7. /\ view' \in [Queries -> {"none", "local", "synced"}]
        /\ \A p \in Queries : view'[p] = "none" <=> listeners'[p] = {}
        /\ \A p \in Queries : view'[p] # view[p] => last /\ p = q /\ view'[p] = "none"
    <2>1. CASE last
      <3>1. /\ view' \in [Queries -> {"none", "local", "synced"}]
            /\ view'[q] = "none" /\ \A p \in Queries : p # q => view'[p] = view[p]
        BY <1>4, <2>1, Parts
      <3>2. listeners'[q] = {}
        BY <1>2, <1>6, <2>1
      <3>3. \A p \in Queries : view'[p] = "none" <=> listeners'[p] = {}
        BY <1>6, <3>1, <3>2, Parts
      <3> QED BY <2>1, <3>1, <3>3
    <2>2. CASE ~last
      <3>1. listeners'[q] = {} <=> listeners[q] = {}
        BY <1>2, <1>6, <2>2
      <3>2. \A p \in Queries : view'[p] = "none" <=> listeners'[p] = {}
        BY <1>4, <1>6, <2>2, <3>1, Parts
      <3> QED BY <1>4, <2>2, <3>2, Parts
    <2> QED BY <2>1, <2>2
  <1>8. /\ Targets' \subseteq Targets
        /\ last /\ none => Targets' = {}
        /\ ~last => Targets' = Targets
    BY <1>3, <1>4, <1>7 DEF Targets
  <1>9. /\ last /\ stream.state = "Open" =>
            /\ Request("unwatch", q)
            /\ stream' = [stream EXCEPT !.idle = none]
            /\ UNCHANGED <<messages, watched, current, pending, kept, online>>
        /\ ~(last /\ stream.state = "Open") =>
            /\ online' = IF last /\ none THEN UpdateState(online, "Unknown")
                         ELSE online
            /\ UNCHANGED <<stream, link>>
    BY <1>1, <1>2, <1>3 DEF RunRemove, marks
  <1>10. /\ online' \in OnlineType /\ stream' \in StreamType
         /\ LinkOK' /\ Timers(online', stream')
         /\ Targets' # {} => IsStarted(stream')
         /\ stream'.idle => Targets' = {} /\ stream'.state = "Open"
         /\ online'.state = "Offline" => online.state = "Offline"
    <2>1. CASE last /\ stream.state = "Open"
      <3>1. /\ Request("unwatch", q) /\ UNCHANGED online
            /\ UNCHANGED <<messages, watched, current, pending, kept>>
            /\ stream' = [stream EXCEPT !.idle = none]
        BY <1>9, <2>1
      <3>2. /\ stream' \in StreamType /\ stream'.state = "Open"
            /\ stream'.idle = none
        BY <2>1, <3>1, Parts DEF StreamType
      <3>3. IsStarted(stream') /\ IsStarted(stream)
        BY <2>1, <3>2 DEF IsStarted
      <3>4. Timers(online', stream')
        BY <3>1, <3>3, Parts DEF Timers
      <3>5. kept' \subseteq current
        BY <3>1, Parts DEF LinkOK, LinkType
      <3>6. LinkOK'
        BY <1>4, <3>1, <3>2, <3>5, Parts, RequestLink
      <3> QED BY <1>8, <2>1, <3>1, <3>2, <3>3, <3>4, <3>6, Parts
    <2>2. CASE ~(last /\ stream.state = "Open")
      <3>1. /\ UNCHANGED <<stream, link>>
            /\ online' = IF last /\ none THEN UpdateState(online, "Unknown")
                         ELSE online
        BY <1>9, <2>2
      <3>2. LinkOK'
        BY <3>1, Parts, LinkKept
      <3>3. Targets' # {} => IsStarted(stream')
        BY <1>8, <3>1, Parts
      <3>4. stream'.idle => Targets' = {} /\ stream'.state = "Open"
        BY <1>8, <3>1, Parts
      <3>5. CASE last /\ none
        <4>1. online' = UpdateState(online, "Unknown")
          BY <3>1, <3>5
        <4>2. online' \in OnlineType /\ Timers(online', stream')
              /\ online'.state # "Offline"
          BY <4>1, Parts, OnlineTypes, TrackerHandlers DEF UpdateState
        <4> QED BY <3>1, <3>2, <3>3, <3>4, <4>2, Parts
      <3>6. CASE ~(last /\ none)
        BY <3>1, <3>2, <3>3, <3>4, <3>6, Parts
      <3> QED BY <3>5, <3>6
    <2> QED BY <2>1, <2>2
  <1>11. online'.state = "Offline" =>
            \A p \in Queries : listeners'[p] \subseteq raised' /\ view'[p] # "synced"
    BY <1>4, <1>6, <1>7, <1>10, Parts
  <1>12. \A p \in Queries : listeners'[p] \subseteq {h \in Gets : query[h] = p}
    BY <1>5, <1>6
  <1>13. SyncedTold'
    <2>1. \A p \in Queries : view[p] = "synced" => listeners[p] \subseteq raised
      BY Parts DEF SyncedTold
    <2>2. \A p \in Queries : view'[p] = "synced" => listeners'[p] \subseteq raised'
      BY <1>4, <1>6, <1>7, <2>1
    <2> QED BY <2>2 DEF SyncedTold
  <1> QED BY <1>4, <1>6, <1>7, <1>10, <1>11, <1>12, <1>13, Parts, TaskStepKeeps

-----------------------------------------------------------------------------
(* The invariant, and what follows from it.                                 *)

LEMMA InvNext == IInv /\ [Next]_vars => IInv'
  <1> SUFFICES ASSUME IInv, [Next]_vars PROVE IInv'
    OBVIOUS
  <1>1. ASSUME NEW g \in Gets, GetDocuments(g) \/ RunEvent(g) PROVE IInv'
    BY <1>1, GetDocumentsKeeps, RunEventKeeps
  <1>2. CASE RunTask
    <2>1. PICK task : task = Head(tasks)
      OBVIOUS
    <2>2. /\ tasks # <<>>
          /\ \/ task.kind = "add" /\ RunAdd(task.get)
             \/ task.kind = "remove" /\ RunRemove(task.get)
      BY <1>2, <2>1 DEF RunTask
    <2>3. tasks \in Seq(TaskType)
      BY DEF IInv, TypeOK, TaskType
    <2>4. task \in TaskType /\ task = tasks[1] /\ 1 \in 1 .. Len(tasks)
      BY <2>1, <2>2, <2>3, Taken
    <2>5. task.get \in Gets /\ query[task.get] \in Queries
      BY <2>4 DEF TaskType, IInv, TasksCalled
    <2> QED BY <2>2, <2>5, RunAddKeeps, RunRemoveKeeps
  <1>3. CASE OnWatchStreamChange
    BY <1>3, OnWatchStreamChangeKeeps
  <1>4. CASE TokenArrives \/ StreamFails \/ BackoffElapsed
    BY <1>4, TokenArrivesKeeps, StreamFailsKeeps, BackoffElapsedKeeps
  <1>5. CASE IdleTimeout \/ ServerEnds \/ OnlineStateTimeout \/ UserChanges \/ Server
    BY <1>5, StopStreamKeeps, OnlineStateTimeoutKeeps, UserChangesKeeps,
       ServerKeeps
  <1>6. CASE UNCHANGED vars
    <2>1. /\ UNCHANGED <<query, tasks, listeners, view, raised, events, muted,
                         answers, online, stream, turns>>
          /\ UNCHANGED <<requests, messages, watched, outstanding, current,
                         pending, kept>>
      BY <1>6 DEF vars
    <2>2. UNCHANGED <<app, listeners>> /\ UNCHANGED link
      BY <2>1 DEF app, link, marks
    <2>3. LinkOK' /\ SyncedTold'
      BY <2>1, <2>2, Parts, LinkKept DEF SyncedTold
    <2> QED BY <2>1, <2>2, <2>3, Parts, StreamStepKeeps
  <1> QED BY <1>1, <1>2, <1>3, <1>4, <1>5, <1>6 DEF Next

LEMMA Invariant == Spec => []IInv
  BY InvInit, InvNext, PTL DEF Spec

\* Types: the queues, the views and the connection hold what they may, nobody
\* listens to a query without a view, and only called gets are raised.
THEOREM TypeCorrect == Spec => []TypeOK
  <1>1. IInv => TypeOK
    BY DEF IInv
  <1> QED BY <1>1, Invariant, PTL

\* The completion block of getDocuments runs once at most: its listener's
\* registration is removed by the event that calls it.
THEOREM AnsweredAtMostOnce == Spec => []AnsweredOnce
  <1>1. IInv => AnsweredOnce
    BY DEF IInv, EventsCounted, AnsweredOnce
  <1> QED BY <1>1, Invariant, PTL

\* The assertions of OnlineStateTracker and of RemoteStore hold after every
\* step, whatever fails, expires or changes: the timer runs only in an attempt
\* to connect, a stream that is needed runs, and nobody waits offline.
THEOREM OnlineStateIsConsistent == Spec => []OnlineStateAgrees
  <1>1. IInv => OnlineStateAgrees
    BY DEF IInv
  <1> QED BY <1>1, Invariant, PTL

-----------------------------------------------------------------------------
(* Marks and watches: what CURRENT on the connection says of the server.    *)

IsCurrent(m, q) == m.kind = "current" /\ m.query = q

AckAfter(q, i) == \E j \in 1 .. Len(messages) : i < j /\ IsAck(messages[j], q)

UnwatchSent(q) ==
    \E j \in 1 .. Len(requests) : requests[j].kind = "unwatch" /\ requests[j].query = q

\* A CURRENT that the server would not send again is followed by the
\* acknowledgement of the request that changed that.
SaidOK ==
    \A q \in Queries : \A i \in 1 .. Len(messages) :
        IsCurrent(messages[i], q) /\ watched[q] \notin {"current", "synced"}
            => AckAfter(q, i)

\* Between two CURRENTs of a query lies an acknowledgement.
OnceOK ==
    \A q \in Queries : \A i, j \in 1 .. Len(messages) :
        i < j /\ IsCurrent(messages[i], q) /\ IsCurrent(messages[j], q) =>
            \E k \in 1 .. Len(messages) : i < k /\ k < j /\ IsAck(messages[k], q)

\* The last word on a query nobody listens to is an unwatch, on its way to the
\* server or on its way back.
EndsOK ==
    \A q \in Queries : q \notin Targets =>
        /\ \A i \in 1 .. Len(requests) :
            requests[i].kind = "watch" /\ requests[i].query = q =>
                \E j \in 1 .. Len(requests) : /\ i < j
                                              /\ requests[j].kind = "unwatch"
                                              /\ requests[j].query = q
        /\ \A i \in 1 .. Len(messages) :
            messages[i].kind = "added" /\ messages[i].query = q =>
                \/ UnwatchSent(q)
                \/ \E j \in 1 .. Len(messages) : /\ i < j
                                                 /\ messages[j].kind = "removed"
                                                 /\ messages[j].query = q

\* The mark of a target listened to is the server's word on its present watch,
\* unless it was kept; the mark of another is going to be erased.
MarksOK ==
    \A q \in Queries : q \in current =>
        /\ q \in Targets /\ q \notin kept => outstanding[q] = 0 /\ Confirmed(q)
        /\ q \notin Targets => outstanding[q] > 0

WatchInv == SaidOK /\ OnceOK /\ EndsOK /\ MarksOK

LEMMA NoCurrent ==
    ASSUME NEW s \in Seq(MessageType), NEW q \in Queries
    PROVE  [kind |-> "current", query |-> q] \notin ToSet(s)
                <=> \A i \in 1 .. Len(s) : ~IsCurrent(s[i], q)
  <1>1. \A m \in MessageType :
            m = [kind |-> "current", query |-> q] <=> IsCurrent(m, q)
    BY DEF MessageType, IsCurrent
  <1>2. PICK c : c = [kind |-> "current", query |-> q]
    OBVIOUS
  <1>3. \A i \in 1 .. Len(s) : s[i] \in MessageType
    OBVIOUS
  <1>4. c \in ToSet(s) <=> \E i \in 1 .. Len(s) : s[i] = c
    BY DEF ToSet
  <1> QED BY <1>1, <1>2, <1>3, <1>4

\* What it takes for Confirmed to hold, before a step and after it.
LEMMA ConfirmedMeans ==
    ASSUME LinkType, LinkType', NEW q \in Queries
    PROVE  /\ Confirmed(q) <=>
                /\ watched[q] \in {"current", "synced"}
                /\ \A i \in 1 .. Len(messages) : ~IsCurrent(messages[i], q)
           /\ Confirmed(q)' <=>
                /\ watched'[q] \in {"current", "synced"}
                /\ \A i \in 1 .. Len(messages') : ~IsCurrent(messages'[i], q)
  <1>1. messages \in Seq(MessageType) /\ messages' \in Seq(MessageType)
    BY DEF LinkType
  <1>2. [kind |-> "current", query |-> q] \notin ToSet(messages)
            <=> \A i \in 1 .. Len(messages) : ~IsCurrent(messages[i], q)
    BY <1>1, NoCurrent
  <1>3. [kind |-> "current", query |-> q] \notin ToSet(messages')
            <=> \A i \in 1 .. Len(messages') : ~IsCurrent(messages'[i], q)
    BY <1>1, NoCurrent
  <1> QED BY <1>2, <1>3 DEF Confirmed

\* With nothing outstanding the connection holds nothing about the query.
LEMMA NothingOutstanding ==
    ASSUME LinkOK, NEW q \in Queries
    PROVE  /\ outstanding[q] \in Nat
           /\ outstanding[q] = 0 =>
                /\ \A i \in 1 .. Len(requests) : requests[i].query # q
                /\ \A i \in 1 .. Len(messages) : ~IsAck(messages[i], q)
  <1>1. LinkType /\ outstanding[q] \in Nat
        /\ outstanding[q] = Cardinality(RequestsFor(q)) + Cardinality(AcksFor(q))
    BY DEF LinkOK, CountedOK, LinkType
  <1>2. outstanding[q] = 0 => RequestsFor(q) = {} /\ AcksFor(q) = {}
    BY <1>1, Counts
  <1> QED BY <1>1, <1>2 DEF RequestsFor, AcksFor

LEMMA WatchKept ==
    ASSUME WatchInv, UNCHANGED link, Targets' = Targets
    PROVE  WatchInv'
  <1>1. UNCHANGED <<requests, messages, watched, outstanding, current, pending,
                    kept>>
    BY DEF link, marks
  <1> QED BY <1>1 DEF WatchInv, SaidOK, OnceOK, EndsOK, MarksOK, AckAfter,
                      UnwatchSent, Confirmed

\* A connection just opened, or none.
LEMMA WatchFresh ==
    ASSUME messages' = <<>>, current' = {},
           \A i \in 1 .. Len(requests') : requests'[i].query \in Targets'
    PROVE  WatchInv'
  <1>1. Len(messages') = 0 /\ 1 .. Len(messages') = {}
    OBVIOUS
  <1> QED BY <1>1 DEF WatchInv, SaidOK, OnceOK, EndsOK, MarksOK

LEMMA WatchRequested ==
    ASSUME IInv, WatchInv, NEW q \in Queries, q \notin Targets, Request("watch", q),
           UNCHANGED <<messages, watched, current>>,
           kept' = IF q \in current /\ outstanding[q] > 0 THEN kept \cup {q} ELSE kept,
           Targets' = Targets \cup {q}
    PROVE  WatchInv'
  <1>1. PICK r : r = [kind |-> "watch", query |-> q]
    OBVIOUS
  <1>2. LinkType /\ requests \in Seq(RequestType) /\ r \in RequestType /\ r.query = q
    BY <1>1, Parts DEF LinkOK, LinkType, RequestType
  <1>3. requests' = Append(requests, r)
        /\ outstanding' = [outstanding EXCEPT ![q] = @ + 1]
    BY <1>1 DEF Request
  <1>4. /\ Len(requests') = Len(requests) + 1 /\ Len(requests) \in Nat
        /\ requests'[Len(requests) + 1] = r
        /\ \A i \in 1 .. Len(requests) :
                requests'[i] = requests[i] /\ i \in 1 .. Len(requests')
        /\ \A i \in 1 .. Len(requests') :
                i \in 1 .. Len(requests) \/ i = Len(requests) + 1
    BY <1>2, <1>3, Appended
  <1>5. SaidOK' /\ OnceOK'
    BY DEF WatchInv, SaidOK, OnceOK, AckAfter
  <1>6. \A p : UnwatchSent(p) => UnwatchSent(p)'
    BY <1>4 DEF UnwatchSent
  <1>7. ASSUME NEW p \in Queries, p \notin Targets', NEW i \in 1 .. Len(requests'),
               requests'[i].kind = "watch", requests'[i].query = p
        PROVE  \E j \in 1 .. Len(requests') : /\ i < j
                                              /\ requests'[j].kind = "unwatch"
                                              /\ requests'[j].query = p
    <2>1. p # q /\ p \notin Targets
      BY <1>7
    <2>2. i \in 1 .. Len(requests) /\ requests'[i] = requests[i]
      BY <1>2, <1>4, <1>7, <2>1
    <2>3. PICK j \in 1 .. Len(requests) : /\ i < j
                                          /\ requests[j].kind = "unwatch"
                                          /\ requests[j].query = p
      BY <1>7, <2>1, <2>2 DEF WatchInv, EndsOK
    <2> QED BY <1>4, <2>3
  <1>8. EndsOK'
    BY <1>6, <1>7 DEF WatchInv, EndsOK
  <1>9. MarksOK'
    <2> SUFFICES ASSUME NEW p \in Queries, p \in current
                 PROVE  /\ p \in Targets' /\ p \notin kept' =>
                                outstanding'[p] = 0 /\ Confirmed(p)'
                        /\ p \notin Targets' => outstanding'[p] > 0
      BY DEF MarksOK
    <2>1. CASE p = q
      <3>1. outstanding[q] > 0
        BY <2>1 DEF WatchInv, MarksOK
      <3> QED BY <2>1, <3>1
    <2>2. CASE p # q
      <3>1. outstanding'[p] = outstanding[p]
        BY <1>2, <1>3, <2>2 DEF LinkType
      <3>2. Confirmed(p)' <=> Confirmed(p)
        BY DEF Confirmed
      <3> QED BY <2>2, <3>1, <3>2 DEF WatchInv, MarksOK
    <2> QED BY <2>1, <2>2
  <1> QED BY <1>5, <1>8, <1>9 DEF WatchInv

LEMMA UnwatchRequested ==
    ASSUME IInv, WatchInv, NEW q \in Queries, Request("unwatch", q),
           UNCHANGED <<messages, watched, current, kept>>,
           Targets' = Targets \ {q}
    PROVE  WatchInv'
  <1>1. PICK r : r = [kind |-> "unwatch", query |-> q]
    OBVIOUS
  <1>2. LinkType /\ requests \in Seq(RequestType) /\ r \in RequestType
        /\ r.query = q /\ r.kind = "unwatch"
    BY <1>1, Parts DEF LinkOK, LinkType, RequestType
  <1>3. requests' = Append(requests, r)
        /\ outstanding' = [outstanding EXCEPT ![q] = @ + 1]
    BY <1>1 DEF Request
  <1>4. /\ Len(requests') = Len(requests) + 1 /\ Len(requests) \in Nat
        /\ requests'[Len(requests) + 1] = r
        /\ Len(requests) + 1 \in 1 .. Len(requests')
        /\ \A i \in 1 .. Len(requests) : /\ requests'[i] = requests[i]
                                         /\ i \in 1 .. Len(requests')
                                         /\ i < Len(requests) + 1
        /\ \A i \in 1 .. Len(requests') :
                i \in 1 .. Len(requests) \/ i = Len(requests) + 1
    BY <1>2, <1>3, Appended
  <1>5. SaidOK' /\ OnceOK'
    BY DEF WatchInv, SaidOK, OnceOK, AckAfter
  <1>6. /\ UnwatchSent(q)'
        /\ \A p : UnwatchSent(p) => UnwatchSent(p)'
    BY <1>2, <1>4 DEF UnwatchSent
  <1>7. ASSUME NEW p \in Queries, p \notin Targets', NEW i \in 1 .. Len(requests'),
               requests'[i].kind = "watch", requests'[i].query = p
        PROVE  \E j \in 1 .. Len(requests') : /\ i < j
                                              /\ requests'[j].kind = "unwatch"
                                              /\ requests'[j].query = p
    <2>1. i \in 1 .. Len(requests) /\ requests'[i] = requests[i]
      BY <1>2, <1>4, <1>7
    <2>2. CASE p = q
      BY <1>2, <1>4, <2>1, <2>2
    <2>3. CASE p # q
      <3>1. PICK j \in 1 .. Len(requests) : /\ i < j
                                            /\ requests[j].kind = "unwatch"
                                            /\ requests[j].query = p
        BY <1>7, <2>1, <2>3 DEF WatchInv, EndsOK
      <3> QED BY <1>4, <3>1
    <2> QED BY <2>2, <2>3
  <1>8. EndsOK'
    BY <1>6, <1>7 DEF WatchInv, EndsOK
  <1>9. MarksOK'
    <2> SUFFICES ASSUME NEW p \in Queries, p \in current
                 PROVE  /\ p \in Targets' /\ p \notin kept' =>
                                outstanding'[p] = 0 /\ Confirmed(p)'
                        /\ p \notin Targets' => outstanding'[p] > 0
      BY DEF MarksOK
    <2>1. outstanding \in [Queries -> Nat]
      BY <1>2 DEF LinkType
    <2>2. CASE p = q
      BY <1>3, <2>1, <2>2
    <2>3. CASE p # q
      <3>1. outstanding'[p] = outstanding[p]
        BY <1>3, <2>1, <2>3
      <3>2. Confirmed(p)' <=> Confirmed(p)
        BY DEF Confirmed
      <3> QED BY <2>3, <3>1, <3>2 DEF WatchInv, MarksOK
    <2> QED BY <2>2, <2>3
  <1> QED BY <1>5, <1>8, <1>9 DEF WatchInv

\* What a message at the end leaves as it was.
LEMMA MessageAdded ==
    ASSUME LinkType, NEW m \in MessageType, messages' = Append(messages, m)
    PROVE  /\ Len(messages) \in Nat /\ Len(messages') = Len(messages) + 1
           /\ messages'[Len(messages) + 1] = m
           /\ Len(messages) + 1 \in 1 .. Len(messages')
           /\ \A i \in 1 .. Len(messages) : /\ messages'[i] = messages[i]
                                            /\ i \in 1 .. Len(messages')
                                            /\ i < Len(messages) + 1
           /\ \A i \in 1 .. Len(messages') :
                i \in 1 .. Len(messages) \/ i = Len(messages) + 1
           /\ \A q, i : AckAfter(q, i) => AckAfter(q, i)'
  <1>1. messages \in Seq(MessageType)
    BY DEF LinkType
  <1>2. /\ Len(messages) \in Nat /\ Len(messages') = Len(messages) + 1
        /\ messages'[Len(messages) + 1] = m
        /\ \A i \in 1 .. Len(messages) : messages'[i] = messages[i]
    BY <1>1, Appended
  <1>3. /\ Len(messages) + 1 \in 1 .. Len(messages')
        /\ \A i \in 1 .. Len(messages) : /\ i \in 1 .. Len(messages')
                                         /\ i < Len(messages) + 1
        /\ \A i \in 1 .. Len(messages') :
                i \in 1 .. Len(messages) \/ i = Len(messages) + 1
    BY <1>2
  <1> QED BY <1>2, <1>3 DEF AckAfter

LEMMA TakesKeepsWatches ==
    ASSUME IInv, WatchInv, ServerTakes
    PROVE  WatchInv'
  <1>1. LinkOK /\ LinkType /\ requests # <<>>
    BY Parts DEF LinkOK, ServerTakes
  <1>2. PICK r : r = Head(requests)
    OBVIOUS
  <1>3. PICK m : m = [kind |-> IF r.kind = "watch" THEN "added" ELSE "removed",
                      query |-> r.query]
    OBVIOUS
  <1>4. PICK n : n = Len(messages) + 1
    OBVIOUS
  <1>5. /\ requests' = Tail(requests) /\ messages' = Append(messages, m)
        /\ watched' = [watched EXCEPT ![r.query] =
                            IF r.kind = "watch" THEN "yes" ELSE "no"]
        /\ UNCHANGED <<outstanding, current, kept>> /\ Targets' = Targets
    BY <1>2, <1>3 DEF ServerTakes, marks, views, Targets
  <1>6. requests \in Seq(RequestType) /\ r \in RequestType
    BY <1>1, <1>2, Taken DEF LinkType
  <1>7. /\ m \in MessageType /\ m.query = r.query
        /\ m.kind = IF r.kind = "watch" THEN "added" ELSE "removed"
    BY <1>3, <1>6 DEF RequestType, MessageType
  <1>8. \A q : (IsAck(m, q) <=> q = r.query) /\ ~IsCurrent(m, q)
    BY <1>7 DEF IsAck, IsCurrent
  <1>9. /\ n \in 1 .. Len(messages') /\ messages'[n] = m
        /\ \A i \in 1 .. Len(messages) :
                messages'[i] = messages[i] /\ i \in 1 .. Len(messages') /\ i < n
        /\ \A i \in 1 .. Len(messages') : i \in 1 .. Len(messages) \/ i = n
        /\ \A q, i : AckAfter(q, i) => AckAfter(q, i)'
    BY <1>1, <1>4, <1>5, <1>7, MessageAdded
  <1>10. /\ r = requests[1] /\ 1 \in 1 .. Len(requests)
         /\ \A i \in 1 .. Len(requests') : /\ requests'[i] = requests[i + 1]
                                           /\ i + 1 \in 1 .. Len(requests)
         /\ \A j \in 1 .. Len(requests) : j # 1 =>
                j - 1 \in 1 .. Len(requests') /\ requests'[j - 1] = requests[j]
    <2>1. /\ r = requests[1] /\ Len(requests) \in Nat \ {0}
          /\ Len(requests') = Len(requests) - 1
          /\ \A i \in 1 .. Len(requests) - 1 : requests'[i] = requests[i + 1]
      BY <1>1, <1>2, <1>5, <1>6, Taken
    <2>2. \A j \in 1 .. Len(requests) : j # 1 =>
                j - 1 \in 1 .. Len(requests) - 1 /\ (j - 1) + 1 = j
      BY <2>1
    <2>3. \A i \in 1 .. Len(requests) - 1 : i + 1 \in 1 .. Len(requests)
      BY <2>1
    <2>4. 1 \in 1 .. Len(requests)
      BY <2>1
    <2>5. \A j \in 1 .. Len(requests) : j # 1 => requests'[j - 1] = requests[j]
      BY <2>1, <2>2
    <2> QED BY <2>1, <2>2, <2>3, <2>4, <2>5
  <1>11. SaidOK'
    <2> SUFFICES ASSUME NEW q \in Queries, NEW i \in 1 .. Len(messages'),
                        IsCurrent(messages'[i], q),
                        watched'[q] \notin {"current", "synced"}
                 PROVE  AckAfter(q, i)'
      BY DEF SaidOK
    <2>1. i \in 1 .. Len(messages) /\ messages'[i] = messages[i] /\ i < n
      BY <1>8, <1>9
    <2>2. CASE q = r.query
      BY <1>8, <1>9, <2>1, <2>2 DEF AckAfter
    <2>3. CASE q # r.query
      <3>1. watched'[q] = watched[q]
        BY <1>1, <1>5, <2>3 DEF LinkType
      <3>2. AckAfter(q, i)
        BY <2>1, <3>1 DEF WatchInv, SaidOK
      <3> QED BY <1>9, <3>2
    <2> QED BY <2>2, <2>3
  <1>12. OnceOK'
    <2> SUFFICES ASSUME NEW q \in Queries, NEW i \in 1 .. Len(messages'),
                        NEW j \in 1 .. Len(messages'), i < j,
                        IsCurrent(messages'[i], q), IsCurrent(messages'[j], q)
                 PROVE  \E k \in 1 .. Len(messages') :
                            i < k /\ k < j /\ IsAck(messages'[k], q)
      BY DEF OnceOK
    <2>1. /\ i \in 1 .. Len(messages) /\ messages'[i] = messages[i]
          /\ j \in 1 .. Len(messages) /\ messages'[j] = messages[j]
      BY <1>8, <1>9
    <2> QED BY <1>9, <2>1 DEF WatchInv, OnceOK
  <1>13. EndsOK'
    <2> SUFFICES ASSUME NEW q \in Queries, q \notin Targets
                 PROVE
        /\ \A i \in 1 .. Len(requests') :
            requests'[i].kind = "watch" /\ requests'[i].query = q =>
                \E j \in 1 .. Len(requests') : /\ i < j
                                               /\ requests'[j].kind = "unwatch"
                                               /\ requests'[j].query = q
        /\ \A i \in 1 .. Len(messages') :
            messages'[i].kind = "added" /\ messages'[i].query = q =>
                \/ UnwatchSent(q)'
                \/ \E j \in 1 .. Len(messages') : /\ i < j
                                                  /\ messages'[j].kind = "removed"
                                                  /\ messages'[j].query = q
      BY <1>5 DEF EndsOK
    <2>1. ASSUME NEW i \in 1 .. Len(requests'),
                 requests'[i].kind = "watch", requests'[i].query = q
          PROVE  \E j \in 1 .. Len(requests') : /\ i < j
                                                /\ requests'[j].kind = "unwatch"
                                                /\ requests'[j].query = q
      <3>1. PICK j \in 1 .. Len(requests) : /\ i + 1 < j
                                            /\ requests[j].kind = "unwatch"
                                            /\ requests[j].query = q
        BY <1>10, <2>1 DEF WatchInv, EndsOK
      <3>2. j # 1 /\ i < j - 1
        BY <3>1
      <3> QED BY <1>10, <3>1, <3>2
    <2>2. ASSUME NEW i \in 1 .. Len(messages'),
                 messages'[i].kind = "added", messages'[i].query = q
          PROVE  \/ UnwatchSent(q)'
                 \/ \E j \in 1 .. Len(messages') : /\ i < j
                                                   /\ messages'[j].kind = "removed"
                                                   /\ messages'[j].query = q
      <3>1. CASE i = n
        <4>1. r.kind = "watch" /\ r.query = q
          BY <1>7, <1>9, <2>2, <3>1
        <4>2. requests[1].kind = "watch" /\ requests[1].query = q
          BY <1>10, <4>1
        <4>3. PICK j \in 1 .. Len(requests) : /\ 1 < j
                                              /\ requests[j].kind = "unwatch"
                                              /\ requests[j].query = q
          BY <1>10, <4>2 DEF WatchInv, EndsOK
        <4> QED BY <1>10, <4>3 DEF UnwatchSent
      <3>2. CASE i \in 1 .. Len(messages)
        <4>1. \/ UnwatchSent(q)
              \/ \E j \in 1 .. Len(messages) : /\ i < j
                                               /\ messages[j].kind = "removed"
                                               /\ messages[j].query = q
          BY <1>9, <2>2, <3>2 DEF WatchInv, EndsOK
        <4>2. CASE UnwatchSent(q)
          <5>1. PICK j \in 1 .. Len(requests) : /\ requests[j].kind = "unwatch"
                                                /\ requests[j].query = q
            BY <4>2 DEF UnwatchSent
          <5>2. CASE j = 1
            <6>1. m.kind = "removed" /\ m.query = q
              BY <1>7, <1>10, <5>1, <5>2
            <6> QED BY <1>9, <3>2, <6>1
          <5>3. CASE j # 1
            BY <1>10, <5>1, <5>3 DEF UnwatchSent
          <5> QED BY <5>2, <5>3
        <4> QED BY <1>9, <4>1, <4>2
      <3> QED BY <1>9, <3>1, <3>2
    <2> QED BY <2>1, <2>2
  <1>14. MarksOK'
    <2> SUFFICES ASSUME NEW q \in Queries, q \in current
                 PROVE  /\ q \in Targets /\ q \notin kept =>
                                outstanding[q] = 0 /\ Confirmed(q)'
                        /\ q \notin Targets => outstanding[q] > 0
      BY <1>5 DEF MarksOK
    <2>1. ASSUME q \in Targets, q \notin kept
          PROVE  outstanding[q] = 0 /\ Confirmed(q)'
      <3>1. outstanding[q] = 0 /\ Confirmed(q)
        BY <2>1 DEF WatchInv, MarksOK
      <3>2. q # r.query
        BY <1>1, <1>10, <3>1, NothingOutstanding
      <3>3. watched'[q] = watched[q]
        BY <1>1, <1>5, <3>2 DEF LinkType
      <3>4. LinkType'
        BY <1>1, ServerTakesLink DEF LinkOK
      <3>5. /\ watched[q] \in {"current", "synced"}
            /\ \A i \in 1 .. Len(messages) : ~IsCurrent(messages[i], q)
        BY <1>1, <3>1, <3>4, ConfirmedMeans
      <3>6. \A i \in 1 .. Len(messages') : ~IsCurrent(messages'[i], q)
        BY <1>8, <1>9, <3>5
      <3> QED BY <1>1, <3>1, <3>3, <3>4, <3>5, <3>6, ConfirmedMeans
    <2> QED BY <2>1 DEF WatchInv, MarksOK
  <1> QED BY <1>11, <1>12, <1>13, <1>14 DEF WatchInv

\* CURRENT of a query p newly sent, or a snapshot: no query but p has its watch
\* change, and only for the better.
LEMMA SendKeepsWatches ==
    ASSUME IInv, WatchInv, LinkType', NEW m \in MessageType,
           m.kind \in {"current", "snapshot"}, messages' = Append(messages, m),
           UNCHANGED <<requests, outstanding, current, kept>>, Targets' = Targets,
           \A q \in Queries : IsCurrent(m, q) => watched[q] = "yes",
           \A q \in Queries : IsCurrent(m, q) => watched'[q] = "current",
           \A q \in Queries : ~IsCurrent(m, q) =>
                (watched'[q] \in {"current", "synced"}
                    <=> watched[q] \in {"current", "synced"})
    PROVE  WatchInv'
  <1>1. LinkOK /\ LinkType
    BY Parts DEF LinkOK
  <1>2. PICK n : n = Len(messages) + 1
    OBVIOUS
  <1>3. /\ n \in 1 .. Len(messages') /\ messages'[n] = m
        /\ \A i \in 1 .. Len(messages) :
                messages'[i] = messages[i] /\ i \in 1 .. Len(messages') /\ i < n
        /\ \A i \in 1 .. Len(messages') : i \in 1 .. Len(messages) \/ i = n
        /\ \A q, i : AckAfter(q, i) => AckAfter(q, i)'
    BY <1>1, <1>2, MessageAdded
  <1>4. SaidOK'
    <2> SUFFICES ASSUME NEW q \in Queries, NEW i \in 1 .. Len(messages'),
                        IsCurrent(messages'[i], q),
                        watched'[q] \notin {"current", "synced"}
                 PROVE  AckAfter(q, i)'
      BY DEF SaidOK
    <2>1. ~IsCurrent(m, q)
      OBVIOUS
    <2>2. i \in 1 .. Len(messages) /\ messages'[i] = messages[i]
      BY <1>3, <2>1
    <2>3. AckAfter(q, i)
      BY <2>1, <2>2 DEF WatchInv, SaidOK
    <2> QED BY <1>3, <2>3
  <1>5. OnceOK'
    <2> SUFFICES ASSUME NEW q \in Queries, NEW i \in 1 .. Len(messages'),
                        NEW j \in 1 .. Len(messages'), i < j,
                        IsCurrent(messages'[i], q), IsCurrent(messages'[j], q)
                 PROVE  \E k \in 1 .. Len(messages') :
                            i < k /\ k < j /\ IsAck(messages'[k], q)
      BY DEF OnceOK
    <2>0. n \in Nat /\ \A k \in 1 .. Len(messages') : k \in Nat
      BY <1>1, <1>2 DEF LinkType
    <2>1. i \in 1 .. Len(messages) /\ messages'[i] = messages[i]
      <3>1. CASE i = n
        <4>1. j \in 1 .. Len(messages) \/ j = n
          BY <1>3
        <4> QED BY <1>3, <2>0, <3>1, <4>1
      <3> QED BY <1>3, <3>1
    <2>2. CASE j \in 1 .. Len(messages)
      <3>1. PICK k \in 1 .. Len(messages) :
                i < k /\ k < j /\ IsAck(messages[k], q)
        BY <1>3, <2>1, <2>2 DEF WatchInv, OnceOK
      <3> QED BY <1>3, <3>1
    <2>3. CASE j = n
      <3>1. AckAfter(q, i)
        BY <1>3, <2>1, <2>3 DEF WatchInv, SaidOK
      <3>2. PICK k \in 1 .. Len(messages) : i < k /\ IsAck(messages[k], q)
        BY <3>1 DEF AckAfter
      <3> QED BY <1>3, <2>3, <3>2
    <2> QED BY <1>3, <2>2, <2>3
  <1>6. EndsOK'
    <2> SUFFICES ASSUME NEW q \in Queries, q \notin Targets,
                        NEW i \in 1 .. Len(messages'),
                        messages'[i].kind = "added", messages'[i].query = q
                 PROVE  \/ UnwatchSent(q)'
                        \/ \E j \in 1 .. Len(messages') :
                                /\ i < j
                                /\ messages'[j].kind = "removed"
                                /\ messages'[j].query = q
      BY DEF WatchInv, EndsOK
    <2>1. i \in 1 .. Len(messages) /\ messages'[i] = messages[i]
      BY <1>3
    <2>2. \/ UnwatchSent(q)
          \/ \E j \in 1 .. Len(messages) : /\ i < j
                                           /\ messages[j].kind = "removed"
                                           /\ messages[j].query = q
      BY <2>1 DEF WatchInv, EndsOK
    <2>3. UnwatchSent(q)' <=> UnwatchSent(q)
      BY DEF UnwatchSent
    <2> QED BY <1>3, <2>2, <2>3
  <1>7. ASSUME NEW q \in Queries, Confirmed(q) PROVE Confirmed(q)'
    <2>1. /\ watched[q] \in {"current", "synced"}
          /\ \A i \in 1 .. Len(messages) : ~IsCurrent(messages[i], q)
      BY <1>1, <1>7, ConfirmedMeans
    <2>2. ~IsCurrent(m, q)
      BY <2>1
    <2>3. /\ watched'[q] \in {"current", "synced"}
          /\ \A i \in 1 .. Len(messages') : ~IsCurrent(messages'[i], q)
      BY <1>3, <2>1, <2>2
    <2> QED BY <1>1, <2>3, ConfirmedMeans
  <1>8. MarksOK'
    BY <1>7 DEF WatchInv, MarksOK
  <1> QED BY <1>4, <1>5, <1>6, <1>8 DEF WatchInv

\* What is left of the messages when one has been read.
LEMMA MessageRead ==
    ASSUME LinkType, messages # <<>>, messages' = Tail(messages)
    PROVE  /\ Head(messages) \in MessageType /\ Head(messages) = messages[1]
           /\ 1 \in 1 .. Len(messages)
           /\ \A i \in 1 .. Len(messages') : /\ messages'[i] = messages[i + 1]
                                             /\ i + 1 \in 1 .. Len(messages)
                                             /\ i \in Nat /\ 1 < i + 1
           /\ \A j \in 1 .. Len(messages) : j # 1 =>
                j - 1 \in 1 .. Len(messages') /\ messages'[j - 1] = messages[j]
  <1>1. messages \in Seq(MessageType)
    BY DEF LinkType
  <1>2. /\ Head(messages) \in MessageType /\ Head(messages) = messages[1]
        /\ Len(messages) \in Nat \ {0} /\ Len(messages') = Len(messages) - 1
        /\ \A i \in 1 .. Len(messages) - 1 : messages'[i] = messages[i + 1]
    BY <1>1, Taken
  <1>3. /\ \A j \in 1 .. Len(messages) : j # 1 =>
                j - 1 \in 1 .. Len(messages) - 1 /\ (j - 1) + 1 = j
        /\ \A i \in 1 .. Len(messages) - 1 :
                i + 1 \in 1 .. Len(messages) /\ i \in Nat /\ 1 < i + 1
        /\ 1 \in 1 .. Len(messages)
    BY <1>2
  <1>4. \A j \in 1 .. Len(messages) : j # 1 => messages'[j - 1] = messages[j]
    BY <1>2, <1>3
  <1> QED BY <1>2, <1>3, <1>4

LEMMA ReadKeepsOrder ==
    ASSUME LinkType, WatchInv, messages # <<>>, messages' = Tail(messages),
           UNCHANGED <<requests, watched>>, Targets' = Targets
    PROVE  SaidOK' /\ OnceOK' /\ EndsOK'
  <1>1. SaidOK'
    <2> SUFFICES ASSUME NEW q \in Queries, NEW i \in 1 .. Len(messages'),
                        IsCurrent(messages'[i], q),
                        watched'[q] \notin {"current", "synced"}
                 PROVE  AckAfter(q, i)'
      BY DEF SaidOK
    <2>1. /\ messages'[i] = messages[i + 1] /\ i + 1 \in 1 .. Len(messages)
          /\ i \in Nat /\ 1 < i + 1
      BY MessageRead
    <2>2. AckAfter(q, i + 1)
      BY <2>1 DEF WatchInv, SaidOK
    <2>3. PICK j \in 1 .. Len(messages) : i + 1 < j /\ IsAck(messages[j], q)
      BY <2>2 DEF AckAfter
    <2>4. j # 1 /\ i < j - 1
      BY <2>1, <2>3
    <2>5. j - 1 \in 1 .. Len(messages') /\ messages'[j - 1] = messages[j]
      BY <2>4, MessageRead
    <2> QED BY <2>3, <2>4, <2>5 DEF AckAfter
  <1>2. OnceOK'
    <2> SUFFICES ASSUME NEW q \in Queries, NEW i \in 1 .. Len(messages'),
                        NEW j \in 1 .. Len(messages'), i < j,
                        IsCurrent(messages'[i], q), IsCurrent(messages'[j], q)
                 PROVE  \E k \in 1 .. Len(messages') :
                            i < k /\ k < j /\ IsAck(messages'[k], q)
      BY DEF OnceOK
    <2>1. /\ messages'[i] = messages[i + 1] /\ i + 1 \in 1 .. Len(messages)
          /\ messages'[j] = messages[j + 1] /\ j + 1 \in 1 .. Len(messages)
          /\ i \in Nat /\ j \in Nat /\ i + 1 < j + 1
      BY MessageRead
    <2>2. PICK k \in 1 .. Len(messages) :
                i + 1 < k /\ k < j + 1 /\ IsAck(messages[k], q)
      BY <2>1 DEF WatchInv, OnceOK
    <2>3. k # 1 /\ i < k - 1 /\ k - 1 < j
      BY <2>1, <2>2
    <2>4. k - 1 \in 1 .. Len(messages') /\ messages'[k - 1] = messages[k]
      BY <2>3, MessageRead
    <2> QED BY <2>2, <2>3, <2>4
  <1>3. EndsOK'
    <2>1. ASSUME NEW q \in Queries, q \notin Targets,
                 NEW i \in 1 .. Len(messages'),
                 messages'[i].kind = "added", messages'[i].query = q,
                 ~UnwatchSent(q)
          PROVE  \E j \in 1 .. Len(messages') : /\ i < j
                                                /\ messages'[j].kind = "removed"
                                                /\ messages'[j].query = q
      <3>1. /\ messages'[i] = messages[i + 1] /\ i + 1 \in 1 .. Len(messages)
            /\ i \in Nat
        BY MessageRead
      <3>2. PICK j \in 1 .. Len(messages) : /\ i + 1 < j
                                            /\ messages[j].kind = "removed"
                                            /\ messages[j].query = q
        BY <2>1, <3>1 DEF WatchInv, EndsOK
      <3>3. j # 1 /\ i < j - 1
        BY <3>1, <3>2
      <3>4. j - 1 \in 1 .. Len(messages') /\ messages'[j - 1] = messages[j]
        BY <3>3, MessageRead
      <3> QED BY <3>2, <3>3, <3>4
    <2>2. ASSUME NEW q \in Queries, q \notin Targets, NEW i \in 1 .. Len(requests),
                 requests[i].kind = "watch", requests[i].query = q
          PROVE  \E j \in 1 .. Len(requests) : /\ i < j
                                               /\ requests[j].kind = "unwatch"
                                               /\ requests[j].query = q
      BY <2>2 DEF WatchInv, EndsOK
    <2>3. ASSUME NEW q \in Queries, q \notin Targets,
                 NEW i \in 1 .. Len(messages'),
                 messages'[i].kind = "added", messages'[i].query = q
          PROVE  \/ UnwatchSent(q)'
                 \/ \E j \in 1 .. Len(messages') : /\ i < j
                                                   /\ messages'[j].kind = "removed"
                                                   /\ messages'[j].query = q
      <3>1. CASE UnwatchSent(q)
        BY <3>1 DEF UnwatchSent
      <3>2. CASE ~UnwatchSent(q)
        BY <2>1, <2>3, <3>2
      <3> QED BY <3>1, <3>2
    <2>4. requests' = requests /\ Targets' = Targets
      OBVIOUS
    <2> QED BY <2>2, <2>3, <2>4 DEF EndsOK
  <1> QED BY <1>1, <1>2, <1>3

\* The same of the state after a step.
LEMMA StillOutstanding ==
    ASSUME LinkOK', NEW q \in Queries, outstanding'[q] = 0
    PROVE  /\ \A i \in 1 .. Len(requests') : requests'[i].query # q
           /\ \A i \in 1 .. Len(messages') : ~IsAck(messages'[i], q)
  <1>1. /\ requests' \in Seq(RequestType) /\ messages' \in Seq(MessageType)
        /\ outstanding'[q] = Cardinality(RequestsFor(q)') + Cardinality(AcksFor(q)')
    BY DEF LinkOK, CountedOK, LinkType
  <1>2. /\ RequestsFor(q)' \subseteq 1 .. Len(requests')
        /\ AcksFor(q)' \subseteq 1 .. Len(messages')
    BY DEF RequestsFor, AcksFor
  <1>3. IsFiniteSet(RequestsFor(q)') /\ IsFiniteSet(AcksFor(q)')
    <2>1. IsFiniteSet(1 .. Len(requests')) /\ IsFiniteSet(1 .. Len(messages'))
      BY <1>1, FS_Interval
    <2> QED BY <1>2, <2>1, FS_Subset
  <1>4. Cardinality(RequestsFor(q)') \in Nat /\ Cardinality(AcksFor(q)') \in Nat
    BY <1>3, FS_CardinalityType
  <1>5. Cardinality(RequestsFor(q)') = 0 /\ Cardinality(AcksFor(q)') = 0
    BY <1>1, <1>4
  <1>6. RequestsFor(q)' = {} /\ AcksFor(q)' = {}
    BY <1>3, <1>5, FS_EmptySet
  <1> QED BY <1>6 DEF RequestsFor, AcksFor

\* A message read: CURRENT marks a target only when nothing about its query is
\* on its way, and an erased mark was the mark of an earlier watch.
LEMMA ChangeKeepsWatches ==
    ASSUME IInv, WatchInv, OnWatchStreamChange
    PROVE  WatchInv'
  <1>1. PICK m : m = Head(messages)
    OBVIOUS
  <1>2. /\ messages # <<>> /\ messages' = Tail(messages)
        /\ UNCHANGED <<requests, watched>>
    BY DEF OnWatchStreamChange
  <1>3. LinkOK /\ LinkType /\ LinkOK' /\ LinkType'
    BY Parts, ChangeLink DEF LinkOK
  <1>4. /\ m \in MessageType /\ m = messages[1] /\ 1 \in 1 .. Len(messages)
        /\ \A i \in 1 .. Len(messages') : /\ messages'[i] = messages[i + 1]
                                          /\ i + 1 \in 1 .. Len(messages)
                                          /\ i \in Nat /\ 1 < i + 1
        /\ \A j \in 1 .. Len(messages) : j # 1 =>
                j - 1 \in 1 .. Len(messages') /\ messages'[j - 1] = messages[j]
    BY <1>1, <1>2, <1>3, MessageRead
  <1>5. Targets' = Targets
    <2>1. CASE UNCHANGED <<view, raised, events>>
      BY <2>1 DEF Targets
    <2>2. CASE ~UNCHANGED <<view, raised, events>>
      <3>1. PICK changed \in SUBSET {q \in Queries : IsActiveTarget(q)} :
                ApplyTargetChanges(changed)
        BY <2>2, ChangeCases
      <3>2. changed \subseteq Queries
        OBVIOUS
      <3> QED BY <3>1, <3>2, TargetChangesType DEF Targets
    <2> QED BY <2>1, <2>2
  <1>6. SaidOK' /\ OnceOK' /\ EndsOK'
    BY <1>2, <1>3, <1>5, ReadKeepsOrder
  <1>7. ASSUME NEW q \in Queries, Confirmed(q) PROVE Confirmed(q)'
    <2>1. /\ watched[q] \in {"current", "synced"}
          /\ \A i \in 1 .. Len(messages) : ~IsCurrent(messages[i], q)
      BY <1>3, <1>7, ConfirmedMeans
    <2>2. \A i \in 1 .. Len(messages') : ~IsCurrent(messages'[i], q)
      BY <1>4, <2>1
    <2> QED BY <1>2, <1>3, <2>1, <2>2, ConfirmedMeans
  <1>8. outstanding \in [Queries -> Nat]
    BY <1>3 DEF LinkType
  <1>9. \A q \in Queries : IsAck(m, q) => outstanding[q] # 0
    BY <1>3, <1>4, NothingOutstanding
  <1>10. CASE m.kind = "added" /\ TargetAdded(m.query)
    <2>1. /\ outstanding' = [outstanding EXCEPT ![m.query] = @ - 1]
          /\ UNCHANGED <<current, kept>>
      BY <1>10 DEF TargetAdded
    <2> SUFFICES ASSUME NEW q \in Queries, q \in current
                 PROVE  /\ q \in Targets /\ q \notin kept =>
                                outstanding'[q] = 0 /\ Confirmed(q)'
                        /\ q \notin Targets => outstanding'[q] > 0
      BY <1>5, <1>6, <2>1 DEF WatchInv, MarksOK
    <2>2. CASE q # m.query
      <3>1. outstanding'[q] = outstanding[q]
        BY <1>8, <2>1, <2>2
      <3> QED BY <1>7, <3>1 DEF WatchInv, MarksOK
    <2>3. CASE q = m.query
      <3>1. IsAck(m, q) /\ outstanding[q] # 0
        BY <1>9, <1>10, <2>3 DEF IsAck
      <3>2. ~(q \in Targets /\ q \notin kept)
        BY <3>1 DEF WatchInv, MarksOK
      <3>3. ASSUME q \notin Targets, outstanding'[q] = 0 PROVE FALSE
        <4>1. messages[1].kind = "added" /\ messages[1].query = q
          BY <1>4, <1>10, <2>3
        <4>2. \/ UnwatchSent(q)
              \/ \E j \in 1 .. Len(messages) : /\ 1 < j
                                               /\ messages[j].kind = "removed"
                                               /\ messages[j].query = q
          BY <1>4, <3>3, <4>1 DEF WatchInv, EndsOK
        <4>3. ~UnwatchSent(q)
          BY <1>2, <1>3, <3>3, StillOutstanding DEF UnwatchSent
        <4>4. PICK j \in 1 .. Len(messages) : /\ 1 < j
                                              /\ messages[j].kind = "removed"
                                              /\ messages[j].query = q
          BY <4>2, <4>3
        <4>5. j - 1 \in 1 .. Len(messages') /\ IsAck(messages'[j - 1], q)
          BY <1>4, <4>4 DEF IsAck
        <4> QED BY <1>3, <3>3, <4>5, StillOutstanding
      <3>4. outstanding'[q] \in Nat
        BY <1>3 DEF LinkType
      <3> QED BY <3>2, <3>3, <3>4
    <2> QED BY <2>2, <2>3
  <1>11. CASE m.kind = "removed" /\ TargetRemoved(m.query)
    <2>1. /\ outstanding' = [outstanding EXCEPT ![m.query] = @ - 1]
          /\ current' \subseteq current
          /\ outstanding[m.query] = 1 => m.query \notin current'
          /\ \A q : q # m.query => (q \in kept' <=> q \in kept)
      BY <1>11 DEF TargetRemoved, RemoveTarget, marks
    <2> SUFFICES ASSUME NEW q \in Queries, q \in current'
                 PROVE  /\ q \in Targets /\ q \notin kept' =>
                                outstanding'[q] = 0 /\ Confirmed(q)'
                        /\ q \notin Targets => outstanding'[q] > 0
      BY <1>5, <1>6 DEF WatchInv, MarksOK
    <2>2. CASE q # m.query
      <3>1. outstanding'[q] = outstanding[q]
        BY <1>8, <2>1, <2>2
      <3> QED BY <1>7, <2>1, <2>2, <3>1 DEF WatchInv, MarksOK
    <2>3. CASE q = m.query
      <3>1. outstanding[q] # 0 /\ outstanding[q] # 1 /\ outstanding[q] \in Nat
        BY <1>8, <1>9, <1>11, <2>1, <2>3 DEF IsAck
      <3>2. outstanding'[q] = outstanding[q] - 1
        BY <1>8, <2>1, <2>3
      <3>3. kept' = kept
        BY <1>11, <2>3, <3>1 DEF TargetRemoved, marks
      <3>4. ~(q \in Targets /\ q \notin kept)
        BY <2>1, <3>1 DEF WatchInv, MarksOK
      <3> QED BY <3>1, <3>2, <3>3, <3>4
    <2> QED BY <2>2, <2>3
  <1>12. CASE m.kind = "current" /\ TargetCurrent(m.query)
    <2>1. /\ UNCHANGED <<outstanding, kept>>
          /\ current' = IF IsActiveTarget(m.query) THEN current \cup {m.query}
                        ELSE current
      BY <1>12 DEF TargetCurrent
    <2> SUFFICES ASSUME NEW q \in Queries, q \in current'
                 PROVE  /\ q \in Targets /\ q \notin kept =>
                                outstanding[q] = 0 /\ Confirmed(q)'
                        /\ q \notin Targets => outstanding[q] > 0
      BY <1>5, <1>6, <2>1 DEF WatchInv, MarksOK
    <2>2. CASE q \in current
      BY <1>7, <2>2 DEF WatchInv, MarksOK
    <2>3. CASE q \notin current
      <3>1. q = m.query /\ q \in Targets /\ outstanding[q] = 0
        BY <2>1, <2>3 DEF IsActiveTarget
      <3>2. IsCurrent(messages[1], q)
        BY <1>4, <1>12, <3>1 DEF IsCurrent
      <3>3. \A i \in 1 .. Len(messages) : ~IsAck(messages[i], q)
        BY <1>3, <3>1, NothingOutstanding
      <3>4. watched[q] \in {"current", "synced"}
        BY <1>4, <3>2, <3>3 DEF WatchInv, SaidOK, AckAfter
      <3>5. ASSUME NEW i \in 1 .. Len(messages'), IsCurrent(messages'[i], q)
            PROVE  FALSE
        <4>1. /\ IsCurrent(messages[i + 1], q) /\ 1 < i + 1
              /\ i + 1 \in 1 .. Len(messages)
          BY <1>4, <3>5
        <4> QED BY <1>4, <3>2, <3>3, <4>1 DEF WatchInv, OnceOK
      <3>6. Confirmed(q)'
        BY <1>2, <1>3, <3>4, <3>5, ConfirmedMeans
      <3> QED BY <3>1, <3>6
    <2> QED BY <2>2, <2>3
  <1>13. CASE m.kind = "snapshot" /\ RaiseWatchSnapshot
    <2>1. UNCHANGED <<outstanding, current, kept>>
      BY <1>13 DEF RaiseWatchSnapshot
    <2>2. MarksOK'
      BY <1>5, <1>7, <2>1 DEF WatchInv, MarksOK
    <2> QED BY <1>6, <2>2 DEF WatchInv
  <1> QED BY <1>1, <1>10, <1>11, <1>12, <1>13 DEF OnWatchStreamChange

-----------------------------------------------------------------------------
(* The invariant of marks and watches is kept by every step.                *)

LEMMA NotConnected ==
    ASSUME IInv, stream.state # "Open"
    PROVE  requests = <<>> /\ messages = <<>> /\ current = {}
  BY Parts DEF LinkOK, ClosedOK

LEMMA AddKeepsWatches ==
    ASSUME IInv, WatchInv, NEW g \in Gets, query[g] \in Queries, RunAdd(g)
    PROVE  WatchInv'
  <1>1. PICK q : q = query[g]
    OBVIOUS
  <1>2. PICK first \in BOOLEAN : first <=> listeners[q] = {}
    OBVIOUS
  <1>3. q \in Queries /\ view' = IF first THEN [view EXCEPT ![q] = "local"] ELSE view
    BY <1>1, <1>2 DEF RunAdd
  <1>4. CASE first /\ stream.state = "Open"
    <2>1. /\ Request("watch", q) /\ UNCHANGED <<messages, watched, current>>
          /\ kept' = IF q \in current /\ outstanding[q] > 0
                     THEN kept \cup {q} ELSE kept
      BY <1>1, <1>2, <1>4 DEF RunAdd, IsStarted
    <2>2. q \notin Targets /\ Targets' = Targets \cup {q}
      BY <1>2, <1>3, <1>4, Parts DEF Targets
    <2> QED BY <1>3, <2>1, <2>2, WatchRequested
  <1>5. CASE ~(first /\ stream.state = "Open")
    <2>1. UNCHANGED link
      BY <1>1, <1>2, <1>5 DEF RunAdd
    <2>2. CASE first
      <3>1. requests' = <<>> /\ messages' = <<>> /\ current' = {}
        BY <1>5, <2>1, <2>2, NotConnected DEF link, marks
      <3> QED BY <3>1, WatchFresh
    <2>3. CASE ~first
      <3>1. Targets' = Targets
        BY <1>3, <2>3 DEF Targets
      <3> QED BY <2>1, <3>1, WatchKept
    <2> QED BY <2>2, <2>3
  <1> QED BY <1>4, <1>5

LEMMA RemoveKeepsWatches ==
    ASSUME IInv, WatchInv, NEW g \in Gets, query[g] \in Queries, RunRemove(g)
    PROVE  WatchInv'
  <1>1. PICK q : q = query[g]
    OBVIOUS
  <1>2. PICK last \in BOOLEAN : last <=> listeners[q] = {g}
    OBVIOUS
  <1>3. q \in Queries /\ view' = IF last THEN [view EXCEPT ![q] = "none"] ELSE view
    BY <1>1, <1>2 DEF RunRemove
  <1>4. CASE last /\ stream.state = "Open"
    <2>1. /\ Request("unwatch", q)
          /\ UNCHANGED <<messages, watched, current, kept>>
      BY <1>1, <1>2, <1>4 DEF RunRemove, marks
    <2>2. Targets' = Targets \ {q}
      BY <1>3, <1>4, Parts DEF Targets
    <2> QED BY <1>3, <2>1, <2>2, UnwatchRequested
  <1>5. CASE ~(last /\ stream.state = "Open")
    <2>1. UNCHANGED link
      BY <1>1, <1>2, <1>5 DEF RunRemove
    <2>2. CASE last
      <3>1. requests' = <<>> /\ messages' = <<>> /\ current' = {}
        BY <1>5, <2>1, <2>2, NotConnected DEF link, marks
      <3> QED BY <3>1, WatchFresh
    <2>3. CASE ~last
      <3>1. Targets' = Targets
        BY <1>3, <2>3 DEF Targets
      <3> QED BY <2>1, <3>1, WatchKept
    <2> QED BY <2>2, <2>3
  <1> QED BY <1>4, <1>5

LEMMA ServerKeepsWatches ==
    ASSUME IInv, WatchInv, Server
    PROVE  WatchInv'
  <1>1. LinkType /\ LinkType'
    BY Parts, ServerKeeps DEF IInv, LinkOK
  <1>2. watched \in [Queries -> {"no", "yes", "current", "synced"}]
    BY <1>1 DEF LinkType
  <1>3. CASE ServerTakes
    BY <1>3, TakesKeepsWatches
  <1>4. ASSUME NEW p \in Queries, ServerCurrent(p) PROVE WatchInv'
    <2>1. PICK m : m = [kind |-> "current", query |-> p]
      OBVIOUS
    <2>2. /\ m \in MessageType /\ m.kind \in {"current", "snapshot"}
          /\ \A q : IsCurrent(m, q) <=> q = p
      BY <2>1 DEF MessageType, IsCurrent
    <2>3. /\ messages' = Append(messages, m)
          /\ UNCHANGED <<requests, outstanding, current, kept>>
          /\ Targets' = Targets
          /\ watched[p] = "yes" /\ watched' = [watched EXCEPT ![p] = "current"]
      BY <1>4, <2>1 DEF ServerCurrent, views, marks, Targets
    <2>4. watched'[p] = "current" /\ \A q \in Queries : q # p => watched'[q] = watched[q]
      BY <1>2, <2>3
    <2> QED BY <1>1, <2>2, <2>3, <2>4, SendKeepsWatches
  <1>5. CASE ServerSnapshot
    <2>1. PICK m : m = [kind |-> "snapshot", query |-> NoQuery]
      OBVIOUS
    <2>2. /\ m \in MessageType /\ m.kind \in {"current", "snapshot"}
          /\ \A q : ~IsCurrent(m, q)
      BY <2>1 DEF MessageType, IsCurrent
    <2>3. /\ messages' = Append(messages, m)
          /\ UNCHANGED <<requests, outstanding, current, kept>>
          /\ Targets' = Targets
          /\ watched' = [q \in Queries |->
                            IF q \in NewlyCurrent THEN "synced" ELSE watched[q]]
      BY <1>5, <2>1 DEF ServerSnapshot, views, marks, Targets
    <2>4. \A q \in Queries : watched'[q] \in {"current", "synced"}
                                <=> watched[q] \in {"current", "synced"}
      BY <2>3 DEF NewlyCurrent
    <2> QED BY <1>1, <2>2, <2>3, <2>4, SendKeepsWatches
  <1> QED BY <1>3, <1>4, <1>5 DEF Server

LEMMA WatchInit == Init => WatchInv
  <1> SUFFICES ASSUME Init PROVE WatchInv
    OBVIOUS
  <1>1. /\ Len(messages) = 0 /\ Len(requests) = 0 /\ 1 .. 0 = {} /\ current = {}
    BY DEF Init
  <1> QED BY <1>1 DEF WatchInv, SaidOK, OnceOK, EndsOK, MarksOK

LEMMA WatchNext == IInv /\ WatchInv /\ [Next]_vars => WatchInv'
  <1> SUFFICES ASSUME IInv, WatchInv, [Next]_vars PROVE WatchInv'
    OBVIOUS
  <1>1. ASSUME NEW g \in Gets, GetDocuments(g) \/ RunEvent(g) PROVE WatchInv'
    <2>1. UNCHANGED link /\ UNCHANGED view
      BY <1>1 DEF GetDocuments, RunEvent, views
    <2> QED BY <2>1, WatchKept DEF Targets
  <1>2. CASE RunTask
    <2>1. PICK task : task = Head(tasks)
      OBVIOUS
    <2>2. /\ tasks # <<>>
          /\ \/ task.kind = "add" /\ RunAdd(task.get)
             \/ task.kind = "remove" /\ RunRemove(task.get)
      BY <1>2, <2>1 DEF RunTask
    <2>3. tasks \in Seq(TaskType)
      BY DEF IInv, TypeOK, TaskType
    <2>4. task \in TaskType /\ task = tasks[1] /\ 1 \in 1 .. Len(tasks)
      BY <2>1, <2>2, <2>3, Taken
    <2>5. task.get \in Gets /\ query[task.get] \in Queries
      BY <2>4 DEF TaskType, IInv, TasksCalled
    <2> QED BY <2>2, <2>5, AddKeepsWatches, RemoveKeepsWatches
  <1>3. CASE OnWatchStreamChange
    BY <1>3, ChangeKeepsWatches
  <1>4. CASE TokenArrives
    <2>1. /\ stream.state # "Open" /\ UNCHANGED <<view, messages, current>>
          /\ requests' = [i \in 1 .. Cardinality(Targets) |->
                            [kind |-> "watch", query |-> SetToSeq(Targets)[i]]]
      BY <1>4 DEF TokenArrives, OpenStream, views, marks
    <2>2. messages' = <<>> /\ current' = {} /\ Targets' = Targets
      BY <2>1, NotConnected DEF Targets
    <2>3. PICK n : n = Cardinality(Targets)
      OBVIOUS
    <2>4. n \in Nat /\ SetToSeq(Targets) \in [1 .. n -> Targets]
      BY <2>3, TargetsFinite, SetAsSequence
    <2>5. Len(requests') = n /\ \A i \in 1 .. n : requests'[i].query \in Targets
      BY <2>1, <2>3, <2>4
    <2> QED BY <2>2, <2>5, WatchFresh
  <1>5. CASE StreamFails \/ IdleTimeout \/ ServerEnds \/ UserChanges
    <2>1. requests' = <<>> /\ messages' = <<>> /\ current' = {}
      BY <1>5 DEF StreamFails, IdleTimeout, ServerEnds, StopStream, UserChanges,
                  NoConnection
    <2> QED BY <2>1, WatchFresh
  <1>6. CASE BackoffElapsed \/ OnlineStateTimeout
    <2>1. UNCHANGED link /\ (UNCHANGED view \/ OnlineStateTimeout)
      BY <1>6 DEF BackoffElapsed, OnlineStateTimeout, views
    <2>2. Targets' = Targets
      <3>1. CASE UNCHANGED view
        BY <3>1 DEF Targets
      <3>2. CASE OnlineStateTimeout
        <4>1. PICK o : o = online'
          OBVIOUS
        <4>2. /\ Announce(o)
              /\ o = [online EXCEPT !.state = "Offline", !.timer = FALSE]
          BY <3>2, <4>1 DEF OnlineStateTimeout
        <4>3. o \in OnlineType
          BY <4>2, Parts DEF OnlineType
        <4> QED BY <4>2, <4>3, AnnounceType DEF Targets
      <3> QED BY <2>1, <3>1, <3>2
    <2> QED BY <2>1, <2>2, WatchKept
  <1>7. CASE Server
    BY <1>7, ServerKeepsWatches
  <1>8. CASE UNCHANGED vars
    <2>1. UNCHANGED link /\ UNCHANGED view
      BY <1>8 DEF vars, link, marks
    <2> QED BY <2>1, WatchKept DEF Targets
  <1> QED BY <1>1, <1>2, <1>3, <1>4, <1>5, <1>6, <1>7, <1>8 DEF Next

\* Only OnWatchStreamChange makes a view synced.
LEMMA SyncedByChange ==
    ASSUME IInv, [Next]_vars, NEW q \in Queries,
           view[q] = "local", view'[q] = "synced"
    PROVE  OnWatchStreamChange
  <1>1. view'[q] # view[q]
    OBVIOUS
  <1>2. ASSUME Announce(online') PROVE FALSE
    <2>1. view' = view \/ view' = [p \in Queries |-> IF view[p] = "synced"
                                                     THEN "local" ELSE view[p]]
      BY <1>2 DEF Announce
    <2> QED BY <2>1
  <1>3. ASSUME RunTask PROVE FALSE
    <2>1. PICK task : task = Head(tasks)
      OBVIOUS
    <2>2. \/ task.kind = "add" /\ RunAdd(task.get)
          \/ task.kind = "remove" /\ RunRemove(task.get)
      BY <1>3, <2>1 DEF RunTask
    <2>3. PICK p : p = query[task.get]
      OBVIOUS
    <2>4. \/ view' = view \/ view' = [view EXCEPT ![p] = "local"]
          \/ view' = [view EXCEPT ![p] = "none"]
      BY <2>2, <2>3 DEF RunAdd, RunRemove
    <2> QED BY <2>4, Parts
  <1>4. ASSUME view' = view PROVE FALSE
    BY <1>4
  <1> QED BY <1>2, <1>3, <1>4
    DEF Next, GetDocuments, RunEvent, TokenArrives, StreamFails, BackoffElapsed,
        IdleTimeout, ServerEnds, StopStream, OnlineStateTimeout, UserChanges,
        Server, ServerTakes, ServerCurrent, ServerSnapshot, views, vars

\* A view becomes synced by a mark that is the server's word on the present
\* watch of its query: CURRENT is taken only from a target with nothing
\* outstanding, and the mark goes with the last acknowledgement of its watch's
\* end; but for a target watched again before that.
THEOREM SnapshotsAreForThisWatch == Spec => SyncIsForThisWatch
  <1>1. Spec => []WatchInv
    BY WatchInit, WatchNext, Invariant, PTL DEF Spec
  <1>2. IInv /\ WatchInv /\ [Next]_vars =>
            [\A q \in Queries : view[q] = "local" /\ view'[q] = "synced"
                                    => Confirmed(q) \/ q \in kept]_vars
    <2> SUFFICES ASSUME IInv, WatchInv, [Next]_vars, NEW q \in Queries,
                        view[q] = "local", view'[q] = "synced"
                 PROVE  Confirmed(q) \/ q \in kept
      OBVIOUS
    <2>1. OnWatchStreamChange
      BY SyncedByChange
    <2>2. PICK changed \in SUBSET {p \in Queries : IsActiveTarget(p)} :
            ApplyTargetChanges(changed)
      BY <2>1, ChangeCases
    <2>3. q \in current
      BY <2>2 DEF ApplyTargetChanges
    <2>4. q \in Targets
      BY DEF Targets
    <2> QED BY <2>3, <2>4 DEF WatchInv, MarksOK
  <1> QED BY <1>1, <1>2, Invariant, PTL DEF Spec, SyncIsForThisWatch
=============================================================================
