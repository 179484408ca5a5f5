------------------------- MODULE WritePipelineProofs -------------------------
(***************************************************************************)
(* Proofs about WritePipeline, for every set of users and every bound, the *)
(* limit of the pipeline included: first of connections, tokens and        *)
(* answers, then that the pipeline is the front of the user's queue, every *)
(* completion is told the truth and each user's queue is a WriteQueue.     *)
(***************************************************************************)
EXTENDS WritePipeline, FiniteSetTheorems, SequenceTheorems, TLAPS

-----------------------------------------------------------------------------
(***************************************************************************)
(* The inductive invariant. Its parts are predicates of a pipeline p, a    *)
(* stream s, a connection k, requests rs and tasks ts, for the actions     *)
(* change some of these and then go on as FillWritePipeline does.          *)
(***************************************************************************)
RequestType == [fresh : BOOLEAN, live : BOOLEAN]

StreamType == [state : States, handshake : BOOLEAN, idle : BOOLEAN]

Sendable == {Handshake} \cup Writes

LinkType == [as : Users \cup {NoUser}, sent : Seq(Sendable),
             replies : Seq(Sendable), closed : Statuses \cup {"no"}]

\* What a connection carries: for each write of the pipeline its answer or its
\* request, in order, or the handshake. So an answer always finds its write.
LinkOK(p, s, k) ==
    /\ s.handshake \/ s.idle => s.state = "Open"
    /\ s.state # "Open" => k = NoLink
    /\ Len(k.replies) <= IF s.handshake THEN Len(p) ELSE 1
    /\ s.state = "Open" /\ k.closed = "no" =>
        k.replies \o k.sent = IF s.handshake THEN p ELSE <<Handshake>>

IsLiveToken(task) == task.kind = "token" /\ task.live

\* A token that will be used, or the call that will give one, exists only for
\* a stream that is Starting, and only once.
TokenOK(s, rs, ts) ==
    /\ \A r \in rs : r.live => s.state = "Starting"
    /\ \A r1, r2 \in rs : r1.live /\ r2.live => r1 = r2
    /\ \A i \in 1 .. Len(ts) : IsLiveToken(ts[i]) =>
        /\ s.state = "Starting"
        /\ \A r \in rs : ~r.live
        /\ \A j \in 1 .. Len(ts) : IsLiveToken(ts[j]) => i = j

WrittenBy(w, u) == w \in 1 .. Len(author) /\ author[w] = u

OwnedBy(ws, u) == \A i \in 1 .. Len(ws) : ws[i] # Handshake => WrittenBy(ws[i], u)

QueuesOwned == \A u \in Users : OwnedBy(queue[u], u)

\* Pipeline and connection hold writes of the client's user.
AuthorOK(p, s, k) ==
    /\ OwnedBy(p, user) /\ OwnedBy(k.sent, user) /\ OwnedBy(k.replies, user)
    /\ s.state = "Open" => k.as = user

NoChangeBefore(ts, i) == \A j \in 1 .. i - 1 : ts[j].kind # "user"

\* u is the user the client will have when it runs task i of ts, if it has v
\* now.
UserAt(ts, i, v, u) ==
    \/ v = u /\ NoChangeBefore(ts, i)
    \/ \E j \in 1 .. i - 1 :
        /\ ts[j].kind = "user" /\ ts[j].user = u
        /\ \A k \in j + 1 .. i - 1 : ts[k].kind # "user"

\* Writes are queued behind the user who made them, the last change is to the
\* provider's user, and a token that will be used is the client's user's.
TasksOK(ts, v) ==
    /\ UserAt(ts, Len(ts) + 1, v, provider)
    /\ \A i \in 1 .. Len(ts) :
        /\ ts[i].kind = "write" =>
            /\ ts[i].write \in 1 .. Len(author)
            /\ UserAt(ts, i, v, author[ts[i].write])
        /\ IsLiveToken(ts[i]) /\ NoChangeBefore(ts, i) => ts[i].user \in {v, NoUser}

IInv ==
    /\ TypeOK
    /\ LinkOK(pipeline, stream, link)
    /\ TokenOK(stream, requests, tasks)
    /\ QueuesOwned
    /\ AuthorOK(pipeline, stream, link)
    /\ TasksOK(tasks, user)
-----------------------------------------------------------------------------
(* What the helpers on sequences return                                     *)

LEMMA UpToType ==
    ASSUME NEW q \in Seq(Writes), NEW w PROVE UpTo(q, w) \in 0 .. Len(q)
  <1> DEFINE S == {i \in 1 .. Len(q) : q[i] <= w}
  <1>1. /\ IsFiniteSet(1 .. Len(q)) /\ Cardinality(1 .. Len(q)) = Len(q)
        /\ Len(q) \in Nat
    <2>1. 1 \in Int /\ Len(q) \in Int /\ Len(q) \in Nat
      OBVIOUS
    <2>2. /\ IsFiniteSet(1 .. Len(q))
          /\ Cardinality(1 .. Len(q)) = IF 1 > Len(q) THEN 0 ELSE Len(q) - 1 + 1
      BY <2>1, FS_Interval
    <2> QED BY <2>1, <2>2
  <1>2. S \in SUBSET (1 .. Len(q))
    OBVIOUS
  <1>3. IsFiniteSet(S) /\ Cardinality(S) <= Len(q)
    BY <1>1, <1>2, FS_Subset
  <1>4. Cardinality(S) \in Nat
    BY <1>3, FS_CardinalityType
  <1> QED BY <1>1, <1>3, <1>4 DEF UpTo

LEMMA SliceType ==
    ASSUME NEW S, NEW q \in Seq(S), NEW a \in Nat, NEW n \in Nat,
           a + n <= Len(q)
    PROVE  /\ SubSeq(q, a + 1, a + n) \in Seq(S)
           /\ Len(SubSeq(q, a + 1, a + n)) = n
           /\ \A i \in 1 .. n : SubSeq(q, a + 1, a + n)[i] = q[a + i]
  <1> DEFINE first == a + 1
             last == a + n
  <1>1. /\ first \in Int /\ last \in Int
        /\ \A i \in first .. last : q[i] \in S
    OBVIOUS
  <1>2. first <= last <=> n # 0
    OBVIOUS
  <1>3. last - first + 1 = n /\ \A i \in 1 .. n : first + i - 1 = a + i
    OBVIOUS
  <1> HIDE DEF first, last
  <1>4. /\ SubSeq(q, first, last) \in Seq(S)
        /\ Len(SubSeq(q, first, last)) =
              IF first <= last THEN last - first + 1 ELSE 0
        /\ \A i \in 1 .. last - first + 1 :
              SubSeq(q, first, last)[i] = q[first + i - 1]
    BY <1>1, SubSeqProperties
  <1>5. /\ SubSeq(q, first, last) \in Seq(S)
        /\ Len(SubSeq(q, first, last)) = n
        /\ \A i \in 1 .. n : SubSeq(q, first, last)[i] = q[a + i]
    BY <1>2, <1>3, <1>4
  <1> QED BY <1>5 DEF first, last

\* What FillWritePipeline takes are writes of the queue, no more than fit.
LEMMA FreshType ==
    ASSUME NEW q \in Seq(Writes), NEW p \in Seq(Writes),
           Len(p) <= kMaxPendingWrites
    PROVE  /\ Fresh(q, p) \in Seq(Writes)
           /\ Len(p) + Len(Fresh(q, p)) <= kMaxPendingWrites
           /\ \A i \in 1 .. Len(Fresh(q, p)) :
                \E j \in 1 .. Len(q) : Fresh(q, p)[i] = q[j]
  <1> DEFINE from == IF p = <<>> THEN 0 ELSE UpTo(q, p[Len(p)])
             left == Len(q) - from
             n == IF Room(p) < left THEN Room(p) ELSE left
  <1>1. from \in 0 .. Len(q) /\ Len(q) \in Nat
    BY UpToType
  <1>2. Room(p) \in Nat /\ Room(p) = kMaxPendingWrites - Len(p)
    BY BoundsAssumption DEF Room
  <1> HIDE DEF from
  <1>3. n \in Nat /\ n <= Room(p) /\ from + n <= Len(q)
    BY <1>1, <1>2
  <1>4. Fresh(q, p) = SubSeq(q, from + 1, from + n)
    BY DEF Fresh, from
  <1> HIDE DEF n
  <1>6. /\ Fresh(q, p) \in Seq(Writes)
        /\ Len(Fresh(q, p)) = n
        /\ \A i \in 1 .. n : Fresh(q, p)[i] = q[from + i]
    BY <1>1, <1>3, <1>4, SliceType
  <1>7. \A i \in 1 .. n : from + i \in 1 .. Len(q)
    BY <1>1, <1>3
  <1>8. Len(p) + Len(Fresh(q, p)) <= kMaxPendingWrites
    BY <1>2, <1>3, <1>6, BoundsAssumption
  <1>9. \A i \in 1 .. Len(Fresh(q, p)) : \E j \in 1 .. Len(q) : Fresh(q, p)[i] = q[j]
    BY <1>6, <1>7
  <1> QED BY <1>6, <1>8, <1>9

\* Every write left in a queue was in it.
LEMMA WithoutType ==
    ASSUME NEW q \in Seq(Writes), NEW w
    PROVE  /\ Without(q, w) \in Seq(Writes)
           /\ \A i \in 1 .. Len(Without(q, w)) :
                \E j \in 1 .. Len(q) : Without(q, w)[i] = q[j]
  <1> DEFINE n == UpTo(q, w)
             s == SubSeq(q, 1, n - 1)
             t == SubSeq(q, n + 1, Len(q))
  <1>1. n \in 0 .. Len(q) /\ Len(q) \in Nat
    BY UpToType
  <1> HIDE DEF n
  <1>2. /\ s \in Seq(Writes)
        /\ \A i \in 1 .. Len(s) : i \in 1 .. Len(q) /\ s[i] = q[i]
    <2>1. n - 1 \in Int /\ \A i \in 1 .. n - 1 : i \in 1 .. Len(q) /\ q[i] \in Writes
      BY <1>1
    <2>2. /\ s \in Seq(Writes)
          /\ Len(s) = IF 1 <= n - 1 THEN n - 1 - 1 + 1 ELSE 0
          /\ \A i \in 1 .. n - 1 - 1 + 1 : s[i] = q[1 + i - 1]
      BY <2>1, SubSeqProperties
    <2> QED BY <1>1, <2>1, <2>2
  <1>3. /\ t \in Seq(Writes)
        /\ \A i \in 1 .. Len(t) : n + i \in 1 .. Len(q) /\ t[i] = q[n + i]
    <2>1. n + 1 \in Int /\ Len(q) \in Int
          /\ \A i \in n + 1 .. Len(q) : q[i] \in Writes
      BY <1>1
    <2>2. /\ t \in Seq(Writes)
          /\ Len(t) = IF n + 1 <= Len(q) THEN Len(q) - (n + 1) + 1 ELSE 0
          /\ \A i \in 1 .. Len(q) - (n + 1) + 1 : t[i] = q[n + 1 + i - 1]
      BY <2>1, SubSeqProperties
    <2> QED BY <1>1, <2>2
  <1>4. Without(q, w) = s \o t
    BY DEF Without, n
  <1> HIDE DEF s, t
  <1>5. /\ s \o t \in Seq(Writes) /\ Len(s \o t) = Len(s) + Len(t)
        /\ \A i \in 1 .. Len(s) + Len(t) :
            (s \o t)[i] = IF i <= Len(s) THEN s[i] ELSE t[i - Len(s)]
    BY <1>2, <1>3, ConcatProperties
  <1>6. ASSUME NEW i \in 1 .. Len(s) + Len(t)
        PROVE  \E j \in 1 .. Len(q) : (s \o t)[i] = q[j]
    <2>0. Len(s) \in Nat /\ Len(t) \in Nat
      BY <1>2, <1>3
    <2>1. CASE i <= Len(s)
      <3>1. i \in 1 .. Len(s)
        BY <2>0, <2>1
      <3> QED BY <1>2, <1>5, <2>1, <3>1
    <2>2. CASE ~(i <= Len(s))
      <3>1. i - Len(s) \in 1 .. Len(t)
        BY <2>0, <2>2
      <3>2. (s \o t)[i] = q[n + (i - Len(s))] /\ n + (i - Len(s)) \in 1 .. Len(q)
        BY <1>3, <1>5, <2>2, <3>1
      <3> QED BY <3>2
    <2> QED BY <2>1, <2>2
  <1> QED BY <1>4, <1>5, <1>6

LEMMA Associative ==
    \A S : \A a, b, c \in Seq(S) : (a \o b) \o c = a \o (b \o c)
  BY ConcatAssociative

LEMMA HeadAndTail ==
    ASSUME NEW S, NEW s \in Seq(S), s # <<>>
    PROVE  /\ Head(s) \in S /\ Tail(s) \in Seq(S)
           /\ <<Head(s)>> \in Seq(S) /\ s = <<Head(s)>> \o Tail(s)
  <1>1. /\ Head(s) \in S /\ Tail(s) \in Seq(S)
        /\ Len(Tail(s)) = Len(s) - 1 /\ Len(s) \in Nat \ {0} /\ Head(s) = s[1]
        /\ \A i \in 1 .. Len(Tail(s)) : Tail(s)[i] = s[i + 1]
    BY HeadTailProperties
  <1> DEFINE h == <<Head(s)>>
             t == Tail(s)
  <1>2. h \in Seq(S) /\ Len(h) = 1 /\ h[1] = s[1]
    BY <1>1
  <1> HIDE DEF h, t
  <1>3. /\ h \o t \in Seq(S) /\ Len(h \o t) = 1 + Len(t)
        /\ \A i \in 1 .. 1 + Len(t) : (h \o t)[i] = IF i <= 1 THEN h[i] ELSE t[i - 1]
    <2>1. t \in Seq(S)
      BY <1>1 DEF t
    <2>2. /\ h \o t \in Seq(S) /\ Len(h \o t) = Len(h) + Len(t)
          /\ \A i \in 1 .. Len(h) + Len(t) :
                (h \o t)[i] = IF i <= Len(h) THEN h[i] ELSE t[i - Len(h)]
      BY <1>2, <2>1, ConcatProperties
    <2> QED BY <1>2, <2>2
  <1>4. Len(h \o t) = Len(s)
    BY <1>1, <1>3 DEF t
  <1>5. ASSUME NEW i \in 1 .. Len(s) PROVE (h \o t)[i] = s[i]
    <2>1. CASE i = 1
      BY <1>1, <1>2, <1>3, <1>4, <2>1
    <2>2. CASE i # 1
      <3>1. i - 1 \in 1 .. Len(t) /\ i - 1 + 1 = i
        BY <1>1, <2>2 DEF t
      <3> QED BY <1>1, <1>3, <1>4, <2>2, <3>1 DEF t
    <2> QED BY <2>1, <2>2
  <1>6. h \o t = s
    BY <1>3, <1>4, <1>5, SeqEqual
  <1> QED BY <1>1, <1>2, <1>6 DEF h, t

\* Taking the first request and answering it leaves the sequence of both.
LEMMA MoveHead ==
    ASSUME NEW S, NEW a \in Seq(S), NEW b \in Seq(S), b # <<>>
    PROVE  Append(a, Head(b)) \o Tail(b) = a \o b
  <1> DEFINE h == <<Head(b)>>
             t == Tail(b)
  <1>1. /\ h \in Seq(S) /\ t \in Seq(S) /\ b = h \o t
        /\ Append(a, Head(b)) = a \o h
    BY HeadAndTail, AppendIsConcat
  <1> HIDE DEF h
  <1>2. (a \o h) \o t = a \o (h \o t)
    BY <1>1, Associative
  <1> QED BY <1>1, <1>2

LEMMA TailOfConcat ==
    ASSUME NEW S, NEW a \in Seq(S), NEW b \in Seq(S), a # <<>>
    PROVE  a \o b # <<>> /\ Tail(a) \o b = Tail(a \o b)
  <1> DEFINE ab == a \o b
  <1>1. /\ ab \in Seq(S) /\ Len(ab) = Len(a) + Len(b)
        /\ Len(a) \in Nat \ {0} /\ Len(b) \in Nat
    BY ConcatProperties
  <1>2. ab # <<>>
    BY <1>1
  <1>3. Head(ab) = Head(a)
    <2>1. ab[1] = a[1]
      BY <1>1, ConcatProperties
    <2> QED BY <2>1
  <1>4. /\ <<Head(a)>> \in Seq(S) /\ Tail(a) \in Seq(S) /\ a = <<Head(a)>> \o Tail(a)
        /\ Tail(ab) \in Seq(S) /\ ab = <<Head(a)>> \o Tail(ab)
    BY <1>1, <1>2, <1>3, HeadAndTail
  <1> DEFINE h == <<Head(a)>>
             t == Tail(a)
             u == Tail(ab)
  <1>5. (h \o t) \o b = h \o (t \o b)
    BY <1>4, Associative
  <1>6. h \o (t \o b) = h \o u /\ t \o b \in Seq(S)
    BY <1>4, <1>5
  <1>7. \A s1, s2, s3 \in Seq(S) : s1 \o s2 = s1 \o s3 => s2 = s3
    BY ConcatSimplifications
  <1>8. h \in Seq(S) /\ u \in Seq(S)
    BY <1>4
  <1> HIDE DEF h, t, u
  <1>9. t \o b = u
    BY <1>6, <1>7, <1>8
  <1> QED BY <1>2, <1>9 DEF t, u, ab

LEMMA TasksType ==
    /\ \A w \in Writes : WriteTask(w) \in Tasks
    /\ \A u \in Users : UserTask(u) \in Tasks
    /\ \A u \in Users \cup {NoUser}, live \in BOOLEAN : TokenTask(u, live) \in Tasks
  <1>1. ASSUME NEW u \in Users \cup {NoUser}, NEW live \in BOOLEAN
        PROVE  TokenTask(u, live)
                \in {TokenTask(v, l) : v \in Users \cup {NoUser}, l \in BOOLEAN}
    OBVIOUS
  <1> QED BY <1>1 DEF Tasks

LEMMA TaskFields ==
    ASSUME NEW t \in Tasks
    PROVE  /\ t.kind \in {"write", "user", "token"}
           /\ t.kind = "write" => t.write \in Writes /\ t = WriteTask(t.write)
           /\ t.kind = "user" => t.user \in Users /\ t = UserTask(t.user)
           /\ t.kind = "token" => /\ t.user \in Users \cup {NoUser}
                                  /\ t.live \in BOOLEAN
                                  /\ t = TokenTask(t.user, t.live)
  BY DEF Tasks, WriteTask, UserTask, TokenTask

\* Closing a stream keeps every task, but for the worth of its tokens.
LEMMA VoidTasksType ==
    ASSUME NEW ts \in Seq(Tasks)
    PROVE  /\ VoidTasks(ts) \in Seq(Tasks) /\ Len(VoidTasks(ts)) = Len(ts)
           /\ \A i \in 1 .. Len(ts) :
                /\ VoidTasks(ts)[i].kind = ts[i].kind
                /\ ~IsLiveToken(VoidTasks(ts)[i])
                /\ ts[i].kind # "token" => VoidTasks(ts)[i] = ts[i]
  <1> DEFINE Voided(t) == IF t.kind = "token" THEN [t EXCEPT !.live = FALSE] ELSE t
  <1>1. ASSUME NEW t \in Tasks
        PROVE  /\ Voided(t) \in Tasks /\ Voided(t).kind = t.kind
               /\ ~IsLiveToken(Voided(t))
               /\ t.kind # "token" => Voided(t) = t
    <2>1. CASE t.kind = "token"
      <3>1. t.user \in Users \cup {NoUser} /\ t = TokenTask(t.user, t.live)
        BY <2>1, TaskFields
      <3>2. Voided(t) = TokenTask(t.user, FALSE)
        BY <2>1, <3>1 DEF TokenTask
      <3>3. TokenTask(t.user, FALSE) \in Tasks
        BY <3>1, TasksType
      <3>4. Voided(t) \in Tasks
        BY <3>2, <3>3
      <3> QED BY <2>1, <3>2, <3>4 DEF TokenTask, IsLiveToken
    <2>2. CASE t.kind # "token"
      BY <2>2 DEF IsLiveToken
    <2> QED BY <2>1, <2>2
  <1>2. /\ Len(VoidTasks(ts)) = Len(ts)
        /\ \A i \in 1 .. Len(ts) : VoidTasks(ts)[i] = Voided(ts[i]) /\ ts[i] \in Tasks
    BY DEF VoidTasks
  <1>3. VoidTasks(ts) = [i \in 1 .. Len(ts) |-> Voided(ts[i])]
    BY DEF VoidTasks
  <1> HIDE DEF Voided
  <1>4. VoidTasks(ts) \in Seq(Tasks)
    BY <1>1, <1>2, <1>3
  <1> QED BY <1>1, <1>2, <1>4

-----------------------------------------------------------------------------
(* Going on as FillWritePipeline does                                       *)

\* How s and rs may end up once StartIfNeeded has run.
Continued(s, rs) ==
    /\ stream' \in StreamType /\ requests' \in SUBSET RequestType
    /\ stream'.handshake = s.handshake
    /\ stream'.idle => s.idle \/ s.state = "Open"
    /\ \/ stream'.state = s.state /\ requests' = rs
       \/ ~IsStarted(s) /\ stream'.state = "Backoff" /\ requests' = rs
       \/ /\ ~IsStarted(s) /\ stream'.state = "Starting"
          /\ requests' = rs \cup {Request}

\* Which writes of q are added to the pipeline p and sent over k.
Carried(q, p, s, k) ==
    \E new \in Seq(Writes) :
        /\ \A i \in 1 .. Len(new) : \E j \in 1 .. Len(q) : new[i] = q[j]
        /\ pipeline' = p \o new
        /\ link' = IF s.state = "Open" /\ s.handshake
                   THEN [k EXCEPT !.sent = @ \o new] ELSE k

LEMMA StartContinues ==
    ASSUME NEW s \in StreamType, NEW rs \in SUBSET RequestType,
           ~IsStarted(s), Start(s, rs)
    PROVE  Continued(s, rs)
  <1>1. Request \in RequestType
    BY DEF Request, RequestType
  <1>2. \A state \in States : LET t == [s EXCEPT !.state = state] IN
          t \in StreamType /\ t.state = state /\ t.handshake = s.handshake
          /\ t.idle = s.idle
    BY DEF StreamType
  <1>3. "Backoff" \in States /\ "Starting" \in States
    BY DEF States
  <1>4. CASE s.state = "Error"
    BY <1>2, <1>3, <1>4 DEF Start, Continued
  <1>5. CASE s.state # "Error"
    <2>1. /\ stream' = [s EXCEPT !.state = "Starting"]
          /\ requests' = rs \cup {Request}
      BY <1>5 DEF Start
    <2>2. requests' \in SUBSET RequestType
      BY <1>1, <2>1
    <2>3. /\ stream' \in StreamType /\ stream'.state = "Starting"
          /\ stream'.handshake = s.handshake /\ stream'.idle = s.idle
      BY <1>2, <1>3, <2>1
    <2> QED BY <2>1, <2>2, <2>3 DEF Continued
  <1> QED BY <1>4, <1>5

LEMMA FillContinues ==
    ASSUME NEW q \in Seq(Writes), NEW p \in Seq(Writes),
           Len(p) <= kMaxPendingWrites, NEW s \in StreamType,
           NEW k \in LinkType, NEW rs \in SUBSET RequestType,
           FillWritePipeline(q, p, s, k, rs)
    PROVE  /\ Continued(s, rs) /\ Carried(q, p, s, k)
           /\ pipeline' \in Seq(Writes) /\ Len(pipeline') <= kMaxPendingWrites
           /\ link' \in LinkType
  <1> DEFINE new == Fresh(q, p)
             all == p \o new
             sending == new # <<>> /\ s.state = "Open" /\ s.handshake
             t == IF all = <<>> THEN MarkIdle(s) ELSE IF sending THEN Wrote(s) ELSE s
  <1>1. /\ new \in Seq(Writes) /\ Len(p) + Len(new) <= kMaxPendingWrites
        /\ \A i \in 1 .. Len(new) : \E j \in 1 .. Len(q) : new[i] = q[j]
    BY FreshType
  <1>2. /\ pipeline' = all
        /\ link' = IF sending THEN [k EXCEPT !.sent = @ \o new] ELSE k
        /\ StartIfNeeded(all, t, rs)
    BY DEF FillWritePipeline
  <1>3. /\ t \in StreamType /\ t.state = s.state /\ t.handshake = s.handshake
        /\ t.idle => s.idle \/ s.state = "Open"
    BY DEF MarkIdle, Wrote, StreamType
  <1> HIDE DEF new, t
  <1>4. Continued(t, rs)
    BY <1>2, <1>3, StartContinues DEF StartIfNeeded, Continued
  <1>5. Continued(s, rs)
    BY <1>3, <1>4 DEF Continued, IsStarted
  <1>6. all \in Seq(Writes) /\ Len(all) <= kMaxPendingWrites
    BY <1>1
  <1>7. k.sent \o new \in Seq(Sendable) /\ (new = <<>> => k.sent \o new = k.sent)
    <2>1. k.sent \in Seq(Sendable) /\ new \in Seq(Sendable)
      BY <1>1 DEF LinkType, Sendable
    <2> QED BY <2>1, ConcatProperties, ConcatEmptySeq
  <1>8. [k EXCEPT !.sent = @ \o new] \in LinkType
    BY <1>7 DEF LinkType
  <1>9. new = <<>> => [k EXCEPT !.sent = @ \o new] = k
    BY <1>7 DEF LinkType
  <1>10. link' = IF s.state = "Open" /\ s.handshake
                 THEN [k EXCEPT !.sent = @ \o new] ELSE k
    BY <1>2, <1>9
  <1>11. Carried(q, p, s, k)
    BY <1>1, <1>2, <1>10 DEF Carried
  <1> QED BY <1>2, <1>5, <1>6, <1>8, <1>11

LEMMA CarriedLinkOK ==
    ASSUME NEW q \in Seq(Writes), NEW p \in Seq(Writes), NEW s \in StreamType,
           NEW k \in LinkType, NEW rs, Continued(s, rs), Carried(q, p, s, k),
           LinkOK(p, s, k)
    PROVE  LinkOK(pipeline', stream', link')
  <1>1. PICK new \in Seq(Writes) :
          /\ pipeline' = p \o new
          /\ link' = IF s.state = "Open" /\ s.handshake
                     THEN [k EXCEPT !.sent = @ \o new] ELSE k
    BY DEF Carried
  <1>2. stream'.state = "Open" <=> s.state = "Open"
    BY DEF Continued, IsStarted
  <1>3. Len(pipeline') = Len(p) + Len(new) /\ Len(new) \in Nat /\ Len(p) \in Nat
    BY <1>1
  <1>4. k.sent \in Seq(Sendable) /\ k.replies \in Seq(Sendable) /\ new \in Seq(Sendable)
    BY DEF LinkType, Sendable
  <1>5. Len(k.sent \o new) = Len(k.sent) + Len(new)
        /\ Len(k.sent) \in Nat /\ Len(k.replies) \in Nat
    BY <1>4
  <1>6. CASE s.state = "Open" /\ s.handshake
    <2>1. /\ link'.replies = k.replies /\ link'.closed = k.closed
          /\ link'.sent = k.sent \o new
      BY <1>1, <1>6 DEF LinkType
    <2>2. stream'.state = "Open" /\ stream'.handshake
      BY <1>2, <1>6 DEF Continued
    <2>3. /\ Len(k.replies) <= Len(p)
          /\ k.closed = "no" => k.replies \o k.sent = p
      BY <1>6 DEF LinkOK
    <2>4. /\ Len(link'.replies) <= Len(pipeline')
          /\ link'.closed = "no" =>
                link'.replies \o link'.sent = pipeline'
      <3>1. Len(link'.replies) = Len(k.replies)
        BY <2>1
      <3>2. Len(k.replies) <= Len(pipeline')
        BY <1>3, <1>5, <2>3
      <3>3. k.closed = "no" => k.replies \o (k.sent \o new) = p \o new
        <4> DEFINE a == k.replies
                   b == k.sent
        <4>1. a \in Seq(Sendable) /\ b \in Seq(Sendable) /\ new \in Seq(Sendable)
          BY <1>4
        <4> HIDE DEF a, b
        <4>2. (a \o b) \o new = a \o (b \o new)
          BY <4>1, Associative
        <4> QED BY <2>3, <4>2 DEF a, b
      <3> QED BY <1>1, <2>1, <2>3, <3>1, <3>2, <3>3
    <2> QED BY <2>2, <2>4 DEF LinkOK
  <1>7. CASE ~(s.state = "Open" /\ s.handshake)
    <2>1. link' = k /\ ~s.handshake
      BY <1>1, <1>7 DEF LinkOK
    <2>2. ~stream'.handshake /\ (stream'.idle => stream'.state = "Open")
      BY <1>2, <2>1 DEF Continued, LinkOK
    <2> QED BY <1>2, <2>1, <2>2 DEF LinkOK
  <1> QED BY <1>6, <1>7

LEMMA ContinuedTokenOK ==
    ASSUME NEW s, NEW rs \in SUBSET RequestType, NEW ts,
           Continued(s, rs), TokenOK(s, rs, ts)
    PROVE  TokenOK(stream', requests', ts)
  <1>1. CASE stream'.state = s.state /\ requests' = rs
    BY <1>1 DEF TokenOK
  <1>2. CASE ~IsStarted(s)
    <2>1. /\ \A r \in rs : ~r.live
          /\ \A i \in 1 .. Len(ts) : ~IsLiveToken(ts[i])
      BY <1>2 DEF TokenOK, IsStarted
    <2>2. \A r \in requests' : r.live => stream'.state = "Starting" /\ r = Request
      BY <1>2, <2>1 DEF Continued
    <2> QED BY <2>1, <2>2 DEF TokenOK
  <1> QED BY <1>1, <1>2 DEF Continued

\* Nothing that was on its way for a closed stream is used.
LEMMA VoidTokenOK ==
    ASSUME NEW s, NEW rs \in SUBSET RequestType, NEW ts \in Seq(Tasks)
    PROVE  Void(rs) \in SUBSET RequestType /\ TokenOK(s, Void(rs), VoidTasks(ts))
  <1>1. \A r \in Void(rs) : r \in RequestType /\ ~r.live
    BY DEF Void, RequestType
  <1>2. \A i \in 1 .. Len(VoidTasks(ts)) : ~IsLiveToken(VoidTasks(ts)[i])
    BY VoidTasksType
  <1> QED BY <1>1, <1>2 DEF TokenOK

LEMMA TailTokenOK ==
    ASSUME NEW s, NEW rs, NEW ts \in Seq(Tasks), ts # <<>>, TokenOK(s, rs, ts)
    PROVE  TokenOK(s, rs, Tail(ts))
  <1>1. /\ Len(Tail(ts)) = Len(ts) - 1
        /\ \A i \in 1 .. Len(Tail(ts)) : Tail(ts)[i] = ts[i + 1]
    BY HeadTailProperties
  <1>2. \A i \in 1 .. Len(Tail(ts)) : i + 1 \in 1 .. Len(ts)
    BY <1>1
  <1>3. \A i, j \in 1 .. Len(Tail(ts)) : i + 1 = j + 1 => i = j
    OBVIOUS
  <1> QED BY <1>1, <1>2, <1>3 DEF TokenOK

\* Sequences that a connection carries, put together from others.
LEMMA ConcatOwned ==
    ASSUME NEW a \in Seq(Sendable), NEW b \in Seq(Sendable), NEW u,
           OwnedBy(a, u), OwnedBy(b, u)
    PROVE  OwnedBy(a \o b, u)
  <1>1. ASSUME NEW i \in 1 .. Len(a \o b), (a \o b)[i] # Handshake
        PROVE  WrittenBy((a \o b)[i], u)
    <2>1. /\ Len(a \o b) = Len(a) + Len(b) /\ Len(a) \in Nat /\ Len(b) \in Nat
          /\ (a \o b)[i] = IF i <= Len(a) THEN a[i] ELSE b[i - Len(a)]
      BY ConcatProperties
    <2>2. i \in 1 .. Len(a) \/ i - Len(a) \in 1 .. Len(b)
      BY <2>1
    <2> QED BY <1>1, <2>1, <2>2 DEF OwnedBy
  <1> QED BY <1>1 DEF OwnedBy

LEMMA CarriedAuthorOK ==
    ASSUME NEW q \in Seq(Writes), NEW p \in Seq(Writes), NEW s \in StreamType,
           NEW k \in LinkType, NEW rs, Continued(s, rs), Carried(q, p, s, k),
           OwnedBy(q, user), AuthorOK(p, s, k)
    PROVE  /\ OwnedBy(pipeline', user) /\ OwnedBy(link'.sent, user)
           /\ OwnedBy(link'.replies, user)
           /\ stream'.state = "Open" => link'.as = user
  <1>1. PICK new \in Seq(Writes) :
          /\ \A i \in 1 .. Len(new) : \E j \in 1 .. Len(q) : new[i] = q[j]
          /\ pipeline' = p \o new
          /\ link' = IF s.state = "Open" /\ s.handshake
                     THEN [k EXCEPT !.sent = @ \o new] ELSE k
    BY DEF Carried
  <1>2. OwnedBy(new, user)
    BY <1>1 DEF OwnedBy
  <1>4. p \in Seq(Sendable) /\ new \in Seq(Sendable) /\ k.sent \in Seq(Sendable)
    BY DEF LinkType, Sendable
  <1>5. OwnedBy(pipeline', user) /\ OwnedBy(k.sent \o new, user)
    BY <1>1, <1>2, <1>4, ConcatOwned DEF AuthorOK
  <1>6. /\ link'.replies = k.replies /\ link'.as = k.as
        /\ link'.sent = k.sent \/ link'.sent = k.sent \o new
    BY <1>1 DEF LinkType
  <1>7. stream'.state = "Open" => s.state = "Open"
    BY DEF Continued, IsStarted
  <1> QED BY <1>5, <1>6, <1>7 DEF AuthorOK

-----------------------------------------------------------------------------
(* The worker queue's tasks and the users they run under                    *)

LEMMA UserAtAppend ==
    ASSUME NEW ts \in Seq(Tasks), NEW t \in Tasks, NEW i \in 1 .. Len(ts) + 1
    PROVE  /\ NoChangeBefore(Append(ts, t), i) <=> NoChangeBefore(ts, i)
           /\ \A v, u : UserAt(Append(ts, t), i, v, u) <=> UserAt(ts, i, v, u)
  <1>1. \A j \in 1 .. i - 1 : j \in 1 .. Len(ts) /\ Append(ts, t)[j] = ts[j]
    OBVIOUS
  <1>2. \A j \in 1 .. i - 1 : \A k \in j + 1 .. i - 1 : Append(ts, t)[k] = ts[k]
    BY <1>1
  <1> QED BY <1>1, <1>2 DEF NoChangeBefore, UserAt

\* Behind a task that is no user change the client has the same user.
LEMMA UserAtEnd ==
    ASSUME NEW ts \in Seq(Tasks), NEW t \in Tasks, NEW v, NEW u
    PROVE  /\ t.kind = "user" => UserAt(Append(ts, t), Len(ts) + 2, v, t.user)
           /\ t.kind # "user" /\ UserAt(ts, Len(ts) + 1, v, u)
                => UserAt(Append(ts, t), Len(ts) + 2, v, u)
  <1> DEFINE n == Len(ts)
             a == Append(ts, t)
  <1>1. n \in Nat /\ a[n + 1] = t /\ \A i \in 1 .. n : a[i] = ts[i]
    BY AppendProperties
  <1>2. 1 .. n + 2 - 1 = 1 .. n + 1 /\ 1 .. n + 1 - 1 = 1 .. n
    BY <1>1
  <1>3. CASE t.kind = "user"
    <2>1. n + 1 \in 1 .. n + 2 - 1
      BY <1>1
    <2>2. \A k \in n + 1 + 1 .. n + 2 - 1 : FALSE
      BY <1>1
    <2> HIDE DEF n, a
    <2>3. UserAt(a, n + 2, v, t.user)
      BY <1>1, <1>3, <2>1, <2>2 DEF UserAt
    <2> QED BY <1>3, <2>3 DEF n, a
  <1>4. CASE t.kind # "user" /\ UserAt(ts, n + 1, v, u)
    <2> HIDE DEF n, a
    <2>1. CASE v = u /\ NoChangeBefore(ts, n + 1)
      <3>1. \A j \in 1 .. n + 2 - 1 : a[j].kind # "user"
        BY <1>1, <1>4, <2>1 DEF NoChangeBefore
      <3> QED BY <1>4, <2>1, <3>1 DEF UserAt, NoChangeBefore, n, a
    <2>2. CASE \E j \in 1 .. n + 1 - 1 :
                  /\ ts[j].kind = "user" /\ ts[j].user = u
                  /\ \A k \in j + 1 .. n + 1 - 1 : ts[k].kind # "user"
      <3>1. PICK j \in 1 .. n : /\ ts[j].kind = "user" /\ ts[j].user = u
                                /\ \A k \in j + 1 .. n : ts[k].kind # "user"
        BY <1>1, <1>2, <2>2
      <3>2. j \in 1 .. n + 2 - 1 /\ a[j] = ts[j]
        BY <1>1
      <3>3. \A k \in j + 1 .. n + 2 - 1 : a[k].kind # "user"
        BY <1>1, <1>4, <3>1
      <3> QED BY <1>4, <3>1, <3>2, <3>3 DEF UserAt, n, a
    <2> QED BY <1>4, <2>1, <2>2 DEF UserAt, n
  <1> QED BY <1>3, <1>4

\* Once the first task has run, the tasks behind it find the same users.
LEMMA UserAtTail ==
    ASSUME NEW ts \in Seq(Tasks), ts # <<>>, NEW v, NEW u,
           NEW i \in 1 .. Len(ts), UserAt(ts, i + 1, v, u)
    PROVE  UserAt(Tail(ts), i,
                  IF Head(ts).kind = "user" THEN Head(ts).user ELSE v, u)
  <1>1. /\ Len(Tail(ts)) = Len(ts) - 1 /\ Head(ts) = ts[1]
        /\ \A j \in 1 .. Len(ts) - 1 : Tail(ts)[j] = ts[j + 1]
    BY HeadTailProperties
  <1>2. \A j \in 1 .. i - 1 : /\ j + 1 \in 1 .. i + 1 - 1
                              /\ Tail(ts)[j] = ts[j + 1]
    BY <1>1
  <1>3. CASE v = u /\ NoChangeBefore(ts, i + 1)
    <2>1. Head(ts).kind # "user"
      BY <1>1, <1>3 DEF NoChangeBefore
    <2>2. NoChangeBefore(Tail(ts), i)
      BY <1>2, <1>3 DEF NoChangeBefore
    <2> QED BY <1>3, <2>1, <2>2 DEF UserAt
  <1>4. ASSUME NEW j \in 1 .. i, ts[j].kind = "user", ts[j].user = u,
               \A k \in j + 1 .. i : ts[k].kind # "user"
        PROVE  UserAt(Tail(ts), i,
                      IF Head(ts).kind = "user" THEN Head(ts).user ELSE v, u)
    <2>1. CASE j = 1
      <3>1. \A k \in 1 .. i - 1 : k + 1 \in j + 1 .. i
        BY <2>1
      <3>2. NoChangeBefore(Tail(ts), i)
        BY <1>2, <1>4, <3>1 DEF NoChangeBefore
      <3> QED BY <1>1, <1>4, <2>1, <3>2 DEF UserAt
    <2>2. CASE j # 1
      <3>1. j - 1 \in 1 .. i - 1 /\ j - 1 + 1 = j
        BY <2>2
      <3>2. Tail(ts)[j - 1].kind = "user" /\ Tail(ts)[j - 1].user = u
        BY <1>2, <1>4, <3>1
      <3>3. ASSUME NEW k \in j - 1 + 1 .. i - 1 PROVE Tail(ts)[k].kind # "user"
        <4>1. k \in 1 .. i - 1 /\ k + 1 \in j + 1 .. i
          OBVIOUS
        <4> QED BY <1>2, <1>4, <4>1
      <3> QED BY <3>1, <3>2, <3>3 DEF UserAt
    <2> QED BY <2>1, <2>2
  <1>5. 1 .. i + 1 - 1 = 1 .. i /\ \A j \in 1 .. i : j + 1 .. i + 1 - 1 = j + 1 .. i
    OBVIOUS
  <1> QED BY <1>3, <1>4, <1>5 DEF UserAt

LEMMA UserAtVoid ==
    ASSUME NEW ts \in Seq(Tasks), NEW i \in 1 .. Len(ts) + 1, NEW v, NEW u
    PROVE  UserAt(VoidTasks(ts), i, v, u) <=> UserAt(ts, i, v, u)
  <1> DEFINE w == VoidTasks(ts)
  <1>1. \A j \in 1 .. i - 1 : /\ w[j].kind = ts[j].kind
                              /\ ts[j].kind = "user" => w[j] = ts[j]
    BY VoidTasksType
  <1>2. \A j \in 1 .. i - 1 : \A k \in j + 1 .. i - 1 : w[k].kind = ts[k].kind
    BY <1>1
  <1> HIDE DEF w
  <1>3. NoChangeBefore(w, i) <=> NoChangeBefore(ts, i)
    BY <1>1 DEF NoChangeBefore
  <1>4. ASSUME NEW j \in 1 .. i - 1
        PROVE  /\ w[j].kind = "user" /\ w[j].user = u
                 <=> ts[j].kind = "user" /\ ts[j].user = u
               /\ (\A k \in j + 1 .. i - 1 : w[k].kind # "user")
                 <=> (\A k \in j + 1 .. i - 1 : ts[k].kind # "user")
    BY <1>1, <1>2
  <1>5. UserAt(w, i, v, u) <=> UserAt(ts, i, v, u)
    BY <1>3, <1>4 DEF UserAt
  <1> QED BY <1>5 DEF w

LEMMA TailTasksOK ==
    ASSUME NEW ts \in Seq(Tasks), ts # <<>>, NEW v, TasksOK(ts, v)
    PROVE  /\ Head(ts).kind # "user" => TasksOK(Tail(ts), v)
           /\ Head(ts).kind = "user" => TasksOK(VoidTasks(Tail(ts)), Head(ts).user)
  <1> DEFINE t == Tail(ts)
             u == IF Head(ts).kind = "user" THEN Head(ts).user ELSE v
  <1>1. /\ t \in Seq(Tasks) /\ Len(t) = Len(ts) - 1 /\ Len(ts) \in Nat \ {0}
        /\ Head(ts) = ts[1]
        /\ \A i \in 1 .. Len(t) : t[i] = ts[i + 1] /\ i + 1 \in 1 .. Len(ts)
    BY HeadTailProperties
  <1>2. UserAt(t, Len(t) + 1, u, provider)
    <2>1. Len(t) + 1 \in 1 .. Len(ts) /\ Len(t) + 1 + 1 = Len(ts) + 1
      BY <1>1
    <2> QED BY <2>1, UserAtTail DEF TasksOK
  <1>3. ASSUME NEW i \in 1 .. Len(t), t[i].kind = "write"
        PROVE  /\ t[i].write \in 1 .. Len(author)
               /\ UserAt(t, i, u, author[t[i].write])
    <2>1. i \in 1 .. Len(ts) /\ i + 1 \in 1 .. Len(ts) /\ t[i] = ts[i + 1]
      BY <1>1
    <2>2. /\ ts[i + 1].write \in 1 .. Len(author)
          /\ UserAt(ts, i + 1, v, author[ts[i + 1].write])
      BY <1>3, <2>1 DEF TasksOK
    <2> QED BY <2>1, <2>2, UserAtTail
  <1>4. ASSUME Head(ts).kind # "user" PROVE TasksOK(t, v)
    <2>1. ASSUME NEW i \in 1 .. Len(t), IsLiveToken(t[i]), NoChangeBefore(t, i)
          PROVE  t[i].user \in {v, NoUser}
      <3>1. t[i] = ts[i + 1] /\ i + 1 \in 1 .. Len(ts)
        BY <1>1
      <3>2. ASSUME NEW j \in 1 .. i + 1 - 1 PROVE ts[j].kind # "user"
        <4>1. CASE j = 1
          BY <1>1, <1>4, <4>1
        <4>2. CASE j # 1
          <5>1. j - 1 \in 1 .. i - 1 /\ j - 1 \in 1 .. Len(t) /\ j - 1 + 1 = j
            BY <4>2, <1>1
          <5> QED BY <1>1, <2>1, <5>1 DEF NoChangeBefore
        <4> QED BY <4>1, <4>2
      <3> QED BY <2>1, <3>1, <3>2 DEF TasksOK, NoChangeBefore
    <2> QED BY <1>2, <1>3, <1>4, <2>1 DEF TasksOK
  <1>5. ASSUME Head(ts).kind = "user" PROVE TasksOK(VoidTasks(t), Head(ts).user)
    <2>1. /\ Len(VoidTasks(t)) = Len(t)
          /\ \A i \in 1 .. Len(t) : /\ ~IsLiveToken(VoidTasks(t)[i])
                                    /\ VoidTasks(t)[i].kind = t[i].kind
                                    /\ t[i].kind = "write" => VoidTasks(t)[i] = t[i]
      BY <1>1, VoidTasksType
    <2> HIDE DEF t, u
    <2>2. UserAt(VoidTasks(t), Len(t) + 1, u, provider)
      <3>1. Len(t) + 1 \in 1 .. Len(t) + 1
        BY <1>1
      <3> QED BY <1>1, <1>2, <3>1, UserAtVoid
    <2>3. \A i \in 1 .. Len(t) : t[i].kind = "write" =>
            UserAt(VoidTasks(t), i, u, author[t[i].write])
      <3>1. \A i \in 1 .. Len(t) : i \in 1 .. Len(t) + 1
        BY <1>1
      <3> QED BY <1>1, <1>3, <3>1, UserAtVoid
    <2>4. u = Head(ts).user
      BY <1>5 DEF u
    <2> QED BY <1>3, <2>1, <2>2, <2>3, <2>4 DEF TasksOK
  <1> QED BY <1>4, <1>5

LEMMA VoidTasksOK ==
    ASSUME NEW ts \in Seq(Tasks), NEW v, TasksOK(ts, v)
    PROVE  TasksOK(VoidTasks(ts), v)
  <1>1. /\ Len(VoidTasks(ts)) = Len(ts) /\ Len(ts) \in Nat
        /\ \A i \in 1 .. Len(ts) : /\ ~IsLiveToken(VoidTasks(ts)[i])
                                   /\ VoidTasks(ts)[i].kind = ts[i].kind
                                   /\ ts[i].kind = "write" => VoidTasks(ts)[i] = ts[i]
    BY VoidTasksType
  <1>2. UserAt(VoidTasks(ts), Len(ts) + 1, v, provider)
    BY <1>1, UserAtVoid DEF TasksOK
  <1>3. \A i \in 1 .. Len(ts) : ts[i].kind = "write" =>
          /\ ts[i].write \in 1 .. Len(author)
          /\ UserAt(VoidTasks(ts), i, v, author[ts[i].write])
    BY <1>1, UserAtVoid DEF TasksOK
  <1> QED BY <1>1, <1>2, <1>3 DEF TasksOK

-----------------------------------------------------------------------------
(* Every step keeps the invariant                                           *)

LEMMA TypeParts ==
    TypeOK <=>
        /\ provider \in Users /\ user \in Users
        /\ requests \in SUBSET RequestType /\ tasks \in Seq(Tasks)
        /\ queue \in [Users -> Seq(Writes)]
        /\ awaited \in [Users -> SUBSET Writes]
        /\ pipeline \in Seq(Writes) /\ Len(pipeline) <= kMaxPendingWrites
        /\ stream \in StreamType /\ link \in LinkType
        /\ author \in Seq(Users) /\ Len(author) <= MaxWrites
        /\ verdict \in [Writes -> {"none", "ok", "refused"}]
        /\ told \in [Writes -> {"none", "ok", "refused"}]
        /\ spent \in [switches : Nat, faults : Nat]
  BY DEF TypeOK, RequestType, StreamType, LinkType, Sendable

LEMMA ClosedType ==
    ASSUME NEW state \in States
    PROVE  /\ Closed(state) \in StreamType /\ Closed(state).state = state
           /\ Closed(state).handshake = FALSE /\ Closed(state).idle = FALSE
  BY DEF Closed, StreamType

LEMMA NoLinkType ==
    /\ NoLink \in LinkType /\ NoLink.replies = <<>> /\ NoLink.sent = <<>>
    /\ NoLink.closed = "no"
  BY DEF NoLink, LinkType, Sendable

\* A stream that is not open, on no connection, asks nothing of the pipeline.
LEMMA ClosedLinkOK ==
    ASSUME NEW p \in Seq(Writes), NEW s \in StreamType,
           s.state # "Open", ~s.handshake, ~s.idle
    PROVE  LinkOK(p, s, NoLink) /\ (OwnedBy(p, user) => AuthorOK(p, s, NoLink))
  BY NoLinkType DEF LinkOK, AuthorOK, OwnedBy

\* The parts of the invariant that an action leaves to FillWritePipeline.
LEMMA FillKeepsOK ==
    ASSUME NEW q \in Seq(Writes), NEW p \in Seq(Writes),
           Len(p) <= kMaxPendingWrites, NEW s \in StreamType,
           NEW k \in LinkType, NEW rs \in SUBSET RequestType, NEW ts,
           FillWritePipeline(q, p, s, k, rs),
           LinkOK(p, s, k), TokenOK(s, rs, ts),
           OwnedBy(q, user), AuthorOK(p, s, k), UNCHANGED <<user, author>>
    PROVE  /\ pipeline' \in Seq(Writes) /\ Len(pipeline') <= kMaxPendingWrites
           /\ stream' \in StreamType /\ requests' \in SUBSET RequestType
           /\ link' \in LinkType
           /\ LinkOK(pipeline, stream, link)'
           /\ TokenOK(stream', requests', ts)
           /\ AuthorOK(pipeline, stream, link)'
  <1>1. /\ Continued(s, rs) /\ Carried(q, p, s, k)
        /\ pipeline' \in Seq(Writes) /\ Len(pipeline') <= kMaxPendingWrites
        /\ link' \in LinkType
    BY FillContinues
  <1>2. LinkOK(pipeline', stream', link')
    BY <1>1, CarriedLinkOK
  <1>3. TokenOK(stream', requests', ts)
    BY <1>1, ContinuedTokenOK
  <1>4. /\ OwnedBy(pipeline', user) /\ OwnedBy(link'.sent, user)
        /\ OwnedBy(link'.replies, user)
        /\ stream'.state = "Open" => link'.as = user
    BY <1>1, CarriedAuthorOK
  <1>5. AuthorOK(pipeline, stream, link)'
    BY <1>4 DEF AuthorOK, OwnedBy, WrittenBy
  <1> QED BY <1>1, <1>2, <1>3, <1>5 DEF Continued, LinkOK

LEMMA TasksOKFrame ==
    ASSUME UNCHANGED <<author, provider>>, TasksOK(tasks', user')
    PROVE  TasksOK(tasks, user)'
  BY DEF TasksOK, UserAt, NoChangeBefore

LEMMA QueuesFrame ==
    ASSUME QueuesOwned, UNCHANGED <<queue, author>> PROVE QueuesOwned'
  BY DEF QueuesOwned, OwnedBy, WrittenBy

LEMMA ResolveKeepsOK ==
    ASSUME TypeOK, QueuesOwned, NEW w, NEW answer \in {"ok", "refused"},
           Resolve(w, answer), UNCHANGED author
    PROVE  /\ queue' \in [Users -> Seq(Writes)] /\ QueuesOwned'
           /\ \A u \in Users : OwnedBy(queue'[u], u)
           /\ awaited' \in [Users -> SUBSET Writes]
           /\ told' \in [Writes -> {"none", "ok", "refused"}]
  <1>1. /\ queue \in [Users -> Seq(Writes)] /\ user \in Users
        /\ awaited \in [Users -> SUBSET Writes]
        /\ told \in [Writes -> {"none", "ok", "refused"}]
    BY DEF TypeOK
  <1> DEFINE q == Without(queue[user], w)
  <1>2. /\ q \in Seq(Writes)
        /\ \A i \in 1 .. Len(q) : \E j \in 1 .. Len(queue[user]) : q[i] = queue[user][j]
    BY <1>1, WithoutType
  <1>3. queue' = [queue EXCEPT ![user] = q]
    BY DEF Resolve
  <1> HIDE DEF q
  <1>4. queue' \in [Users -> Seq(Writes)]
    BY <1>1, <1>2, <1>3
  <1>5. ASSUME NEW u \in Users PROVE OwnedBy(queue'[u], u)
    <2>1. OwnedBy(queue[u], u)
      BY DEF QueuesOwned
    <2>2. CASE u = user
      BY <1>1, <1>2, <1>3, <2>1, <2>2 DEF OwnedBy
    <2>3. CASE u # user
      BY <1>1, <1>3, <2>1, <2>3
    <2> QED BY <2>2, <2>3
  <1>6. QueuesOwned'
    BY <1>5 DEF QueuesOwned, OwnedBy, WrittenBy
  <1>7. /\ awaited' \in [Users -> SUBSET Writes]
        /\ told' \in [Writes -> {"none", "ok", "refused"}]
    BY <1>1 DEF Resolve
  <1> QED BY <1>4, <1>5, <1>6, <1>7

LEMMA TailOwned ==
    ASSUME NEW ws \in Seq(Sendable), ws # <<>>, NEW u, OwnedBy(ws, u)
    PROVE  OwnedBy(Tail(ws), u)
  <1>1. \A i \in 1 .. Len(Tail(ws)) : i + 1 \in 1 .. Len(ws) /\ Tail(ws)[i] = ws[i + 1]
    BY HeadTailProperties
  <1> QED BY <1>1 DEF OwnedBy

\* A stream that closes rejects the first write or tries again.
LEMMA FinishKeepsOK ==
    ASSUME IInv, NEW status \in Statuses, NEW ts \in Seq(Tasks),
           TasksOK(ts, user), OnStreamFinish(status, ts),
           UNCHANGED <<provider, user, author, verdict, spent>>
    PROVE  IInv'
  <1> DEFINE rs == Void(requests)
  <1>1. /\ tasks' = VoidTasks(ts) /\ VoidTasks(ts) \in Seq(Tasks)
        /\ rs \in SUBSET RequestType
        /\ \A s : TokenOK(s, rs, VoidTasks(ts))
    BY VoidTasksType, VoidTokenOK, TypeParts DEF OnStreamFinish, IInv
  <1>2. TasksOK(tasks, user)'
    BY <1>1, VoidTasksOK, TasksOKFrame
  <1>3. /\ pipeline \in Seq(Writes) /\ Len(pipeline) <= kMaxPendingWrites
        /\ user \in Users /\ OwnedBy(pipeline, user)
    BY TypeParts DEF IInv, AuthorOK
  <1>4. \A state \in {"Initial", "Error"} :
          /\ Closed(state) \in StreamType /\ Closed(state).state = state
          /\ ~Closed(state).handshake /\ ~Closed(state).idle
    BY ClosedType DEF States
  <1> HIDE DEF rs
  <1>5. CASE IsWriteError(status)
    <2>1. /\ Resolve(Head(pipeline), "refused") /\ pipeline # <<>>
          /\ FillWritePipeline(queue'[user], Tail(pipeline), Closed("Initial"),
                               NoLink, rs)
      BY <1>5 DEF OnStreamFinish, IsWriteError, rs
    <2>2. /\ queue' \in [Users -> Seq(Writes)] /\ QueuesOwned'
          /\ \A u \in Users : OwnedBy(queue'[u], u)
          /\ awaited' \in [Users -> SUBSET Writes]
          /\ told' \in [Writes -> {"none", "ok", "refused"}]
      BY <2>1, ResolveKeepsOK DEF IInv
    <2>3. /\ Tail(pipeline) \in Seq(Writes)
          /\ Len(Tail(pipeline)) <= kMaxPendingWrites
          /\ OwnedBy(Tail(pipeline), user)
      <3>1. /\ Tail(pipeline) \in Seq(Writes)
            /\ Len(Tail(pipeline)) = Len(pipeline) - 1 /\ Len(pipeline) \in Nat
            /\ kMaxPendingWrites \in Nat
        BY <1>3, <2>1, HeadTailProperties, BoundsAssumption
      <3>2. Len(Tail(pipeline)) <= kMaxPendingWrites
        BY <1>3, <3>1
      <3>3. pipeline \in Seq(Sendable)
        BY <1>3 DEF Sendable
      <3> QED BY <1>3, <2>1, <3>1, <3>2, <3>3, TailOwned
    <2>4. /\ LinkOK(Tail(pipeline), Closed("Initial"), NoLink)
          /\ AuthorOK(Tail(pipeline), Closed("Initial"), NoLink)
      BY <1>4, <2>3, ClosedLinkOK
    <2>5. queue'[user] \in Seq(Writes) /\ OwnedBy(queue'[user], user)
      BY <1>3, <2>2
    <2>6. /\ pipeline' \in Seq(Writes) /\ Len(pipeline') <= kMaxPendingWrites
          /\ stream' \in StreamType /\ requests' \in SUBSET RequestType
          /\ link' \in LinkType
          /\ LinkOK(pipeline, stream, link)'
          /\ TokenOK(stream', requests', VoidTasks(ts))
          /\ AuthorOK(pipeline, stream, link)'
      BY <1>1, <1>4, <2>1, <2>3, <2>4, <2>5, NoLinkType, FillKeepsOK
    <2>7. TypeOK'
      BY <1>1, <2>2, <2>6, TypeParts DEF IInv, TypeOK, RequestType, StreamType,
         LinkType, Sendable
    <2>8. TokenOK(stream, requests, tasks)'
      BY <1>1, <2>6 DEF TokenOK, IsLiveToken
    <2> QED BY <1>2, <2>2, <2>6, <2>7, <2>8 DEF IInv
  <1>6. CASE ~IsWriteError(status)
    <2>1. /\ StartIfNeeded(pipeline, Closed("Error"), rs) /\ link' = NoLink
          /\ UNCHANGED <<pipeline, queue, awaited, told>>
      BY <1>6 DEF OnStreamFinish, rs
    <2>2. Continued(Closed("Error"), rs)
      BY <1>1, <1>4, <2>1, StartContinues DEF StartIfNeeded, Continued
    <2>3. /\ stream' \in StreamType /\ requests' \in SUBSET RequestType
          /\ stream'.state # "Open" /\ ~stream'.handshake /\ ~stream'.idle
      BY <1>4, <2>2 DEF Continued
    <2>4. TypeOK'
      BY <1>1, <2>1, <2>3, NoLinkType DEF IInv, TypeOK, RequestType, StreamType,
         LinkType, Sendable
    <2>5. LinkOK(pipeline', stream', link') /\ AuthorOK(pipeline', stream', link')
      BY <1>3, <2>1, <2>3, ClosedLinkOK
    <2>6. LinkOK(pipeline, stream, link)' /\ AuthorOK(pipeline, stream, link)'
      BY <2>5 DEF LinkOK, AuthorOK, OwnedBy, WrittenBy
    <2>7. TokenOK(stream', requests', VoidTasks(ts))
      BY <1>1, <2>2, ContinuedTokenOK
    <2>8. TokenOK(stream, requests, tasks)'
      BY <1>1, <2>7 DEF TokenOK, IsLiveToken
    <2>9. QueuesOwned'
      BY <2>1, QueuesFrame DEF IInv
    <2> QED BY <1>2, <2>4, <2>6, <2>8, <2>9 DEF IInv
  <1> QED BY <1>5, <1>6

\* A stream that is not open, with an empty pipeline: the pipeline is filled
\* from the queue of whoever the user is now.
LEMMA RefillKeepsOK ==
    ASSUME NEW q \in Seq(Writes), NEW s \in StreamType, s.state # "Open",
           ~s.handshake, ~s.idle, NEW rs \in SUBSET RequestType, NEW ts,
           FillWritePipeline(q, <<>>, s, NoLink, rs), TokenOK(s, rs, ts),
           OwnedBy(q, user'), UNCHANGED author
    PROVE  /\ pipeline' \in Seq(Writes) /\ Len(pipeline') <= kMaxPendingWrites
           /\ stream' \in StreamType /\ requests' \in SUBSET RequestType
           /\ link' \in LinkType
           /\ LinkOK(pipeline, stream, link)'
           /\ TokenOK(stream', requests', ts)
           /\ AuthorOK(pipeline, stream, link)'
  <1>1. <<>> \in Seq(Writes) /\ Len(<<>>) <= kMaxPendingWrites
    BY BoundsAssumption
  <1>2. /\ Continued(s, rs) /\ Carried(q, <<>>, s, NoLink)
        /\ pipeline' \in Seq(Writes) /\ Len(pipeline') <= kMaxPendingWrites
        /\ link' \in LinkType
    BY <1>1, NoLinkType, FillContinues
  <1>3. TokenOK(stream', requests', ts)
    BY <1>2, ContinuedTokenOK
  <1>4. PICK new \in Seq(Writes) :
          /\ \A i \in 1 .. Len(new) : \E j \in 1 .. Len(q) : new[i] = q[j]
          /\ pipeline' = <<>> \o new
          /\ link' = NoLink
    BY <1>2 DEF Carried
  <1>5. pipeline' = new
    BY <1>4
  <1>6. OwnedBy(pipeline', user')
    BY <1>4, <1>5 DEF OwnedBy
  <1>7. stream'.state # "Open" /\ ~stream'.handshake /\ ~stream'.idle
    BY <1>2 DEF Continued
  <1>8. LinkOK(pipeline', stream', link')
    BY <1>2, <1>4, <1>7, ClosedLinkOK DEF Continued
  <1>9. AuthorOK(pipeline, stream, link)'
    BY <1>4, <1>6, <1>7, NoLinkType DEF AuthorOK, OwnedBy, WrittenBy
  <1> QED BY <1>2, <1>3, <1>8, <1>9 DEF Continued, LinkOK

\* A task put at the end of the worker queue.
LEMMA AppendTasksOK ==
    ASSUME tasks \in Seq(Tasks), TasksOK(tasks, user), NEW t \in Tasks,
           tasks' = Append(tasks, t), user' = user,
           \A w \in 1 .. Len(author) : /\ w \in 1 .. Len(author')
                                       /\ author'[w] = author[w],
           provider' = IF t.kind = "user" THEN t.user ELSE provider,
           t.kind = "write" => /\ t.write \in 1 .. Len(author')
                               /\ author'[t.write] = provider,
           t.kind = "token" => t.user \in {provider, NoUser}
    PROVE  TasksOK(tasks, user)'
  <1> DEFINE n == Len(tasks)
  <1>1. /\ n \in Nat /\ Len(tasks') = n + 1 /\ tasks'[n + 1] = t
        /\ \A i \in 1 .. n : tasks'[i] = tasks[i]
    BY AppendProperties
  <1>2. UserAt(tasks', n + 2, user, provider')
    BY UserAtEnd DEF TasksOK
  <1>3. ASSUME NEW i \in 1 .. n + 1
        PROVE  /\ NoChangeBefore(tasks', i) <=> NoChangeBefore(tasks, i)
               /\ \A u : UserAt(tasks', i, user, u) <=> UserAt(tasks, i, user, u)
    BY UserAtAppend
  <1>4. UserAt(tasks, n + 1, user, provider)
    BY DEF TasksOK
  <1>5. ASSUME NEW i \in 1 .. n + 1, tasks'[i].kind = "write"
        PROVE  /\ tasks'[i].write \in 1 .. Len(author')
               /\ UserAt(tasks', i, user, author'[tasks'[i].write])
    <2>1. CASE i = n + 1
      BY <1>1, <1>3, <1>4, <1>5, <2>1
    <2>2. CASE i # n + 1
      <3>1. i \in 1 .. n /\ tasks'[i] = tasks[i]
        BY <1>1, <2>2
      <3>2. /\ tasks[i].write \in 1 .. Len(author)
            /\ UserAt(tasks, i, user, author[tasks[i].write])
        BY <1>5, <3>1 DEF TasksOK
      <3> QED BY <1>3, <3>1, <3>2
    <2> QED BY <2>1, <2>2
  <1>6. ASSUME NEW i \in 1 .. n + 1, IsLiveToken(tasks'[i]), NoChangeBefore(tasks', i)
        PROVE  tasks'[i].user \in {user, NoUser}
    <2>1. NoChangeBefore(tasks, i)
      BY <1>3, <1>6
    <2>2. CASE i = n + 1
      <3>1. user = provider
        <4>1. \A j \in 1 .. i - 1 : tasks[j].kind # "user"
          BY <2>1 DEF NoChangeBefore
        <4> QED BY <1>4, <2>2, <4>1 DEF UserAt
      <3>2. t.kind = "token"
        BY <1>1, <1>6, <2>2 DEF IsLiveToken
      <3> QED BY <1>1, <2>2, <3>1, <3>2
    <2>3. CASE i # n + 1
      <3>1. i \in 1 .. n /\ tasks'[i] = tasks[i]
        BY <1>1, <2>3
      <3> QED BY <1>6, <2>1, <3>1 DEF TasksOK
    <2> QED BY <2>2, <2>3
  <1> HIDE DEF n
  <1>7. n + 1 + 1 = n + 2
    BY <1>1
  <1> QED BY <1>1, <1>2, <1>5, <1>6, <1>7 DEF TasksOK

LEMMA QuietAppend ==
    ASSUME NEW s, NEW rs, NEW ts \in Seq(Tasks), NEW t \in Tasks,
           ~IsLiveToken(t), TokenOK(s, rs, ts)
    PROVE  TokenOK(s, rs, Append(ts, t))
  <1>1. /\ Len(Append(ts, t)) = Len(ts) + 1 /\ Len(ts) \in Nat
        /\ Append(ts, t)[Len(ts) + 1] = t
        /\ \A i \in 1 .. Len(ts) : Append(ts, t)[i] = ts[i]
    BY AppendProperties
  <1>2. \A i \in 1 .. Len(ts) + 1 : IsLiveToken(Append(ts, t)[i]) =>
          i \in 1 .. Len(ts) /\ Append(ts, t)[i] = ts[i]
    BY <1>1
  <1> QED BY <1>1, <1>2 DEF TokenOK

\* A getToken call turns into a token that is worth as much.
LEMMA TokenAppend ==
    ASSUME NEW s, NEW rs, NEW ts \in Seq(Tasks), NEW t \in Tasks,
           NEW r \in rs, IsLiveToken(t) => r.live, TokenOK(s, rs, ts)
    PROVE  TokenOK(s, rs \ {r}, Append(ts, t))
  <1>1. TokenOK(s, rs \ {r}, ts)
    BY DEF TokenOK
  <1>2. CASE ~IsLiveToken(t)
    BY <1>1, <1>2, QuietAppend
  <1>3. CASE IsLiveToken(t)
    <2>1. /\ Len(Append(ts, t)) = Len(ts) + 1 /\ Len(ts) \in Nat
          /\ Append(ts, t)[Len(ts) + 1] = t
          /\ \A i \in 1 .. Len(ts) : Append(ts, t)[i] = ts[i]
      BY AppendProperties
    <2>2. /\ s.state = "Starting" /\ \A r1 \in rs \ {r} : ~r1.live
          /\ \A i \in 1 .. Len(ts) : ~IsLiveToken(ts[i])
      BY <1>3 DEF TokenOK
    <2>3. \A i \in 1 .. Len(ts) + 1 : IsLiveToken(Append(ts, t)[i]) => i = Len(ts) + 1
      BY <2>1, <2>2
    <2> QED BY <2>1, <2>2, <2>3 DEF TokenOK
  <1> QED BY <1>2, <1>3

LEMMA InitIInv == Init => IInv
  <1> SUFFICES ASSUME Init PROVE IInv
    OBVIOUS
  <1>1. /\ Closed("Initial") \in StreamType /\ Closed("Initial").state = "Initial"
        /\ ~Closed("Initial").handshake /\ ~Closed("Initial").idle
    BY ClosedType DEF States
  <1>2. TypeOK
    BY <1>1, NoLinkType, TypeParts, BoundsAssumption DEF Init
  <1>3. OwnedBy(<<>>, user)
    BY DEF OwnedBy
  <1>4. LinkOK(pipeline, stream, link) /\ AuthorOK(pipeline, stream, link)
    <2>1. pipeline \in Seq(Writes)
      BY <1>2, TypeParts
    <2> QED BY <1>1, <1>3, <2>1, ClosedLinkOK DEF Init
  <1>5. TokenOK(stream, requests, tasks)
    BY DEF Init, TokenOK
  <1>6. QueuesOwned
    BY DEF Init, QueuesOwned, OwnedBy
  <1>7. TasksOK(tasks, user)
    BY DEF Init, TasksOK, UserAt, NoChangeBefore
  <1> QED BY <1>2, <1>4, <1>5, <1>6, <1>7 DEF IInv

LEMMA AppWritesKeeps == IInv /\ AppWrites => IInv'
  <1> SUFFICES ASSUME IInv, AppWrites PROVE IInv'
    OBVIOUS
  <1> DEFINE t == WriteTask(Len(author) + 1)
  <1>1. /\ author \in Seq(Users) /\ provider \in Users /\ tasks \in Seq(Tasks)
        /\ Len(author) < MaxWrites /\ MaxWrites \in Nat
        /\ author' = Append(author, provider) /\ tasks' = Append(tasks, t)
    BY TypeParts, BoundsAssumption DEF IInv, AppWrites
  <1>2. /\ author' \in Seq(Users) /\ Len(author') = Len(author) + 1
        /\ Len(author) \in Nat /\ author'[Len(author) + 1] = provider
        /\ \A w \in 1 .. Len(author) : /\ w \in 1 .. Len(author')
                                       /\ author'[w] = author[w]
    BY <1>1, AppendProperties
  <1>3. Len(author) + 1 \in Writes /\ Len(author') <= MaxWrites
        /\ Len(author) + 1 \in 1 .. Len(author')
    BY <1>1, <1>2 DEF Writes
  <1>4. /\ t \in Tasks /\ t.kind = "write" /\ t.write = Len(author) + 1
        /\ ~IsLiveToken(t)
    BY <1>3, TasksType DEF WriteTask, IsLiveToken
  <1> HIDE DEF t
  <1>5. tasks' \in Seq(Tasks)
    BY <1>1, <1>4
  <1>6. TypeOK'
    BY <1>1, <1>2, <1>3, <1>5 DEF IInv, AppWrites, TypeOK
  <1>7. LinkOK(pipeline, stream, link)'
    BY DEF IInv, AppWrites, LinkOK
  <1>8. TokenOK(stream, requests, tasks)'
    <2>1. TokenOK(stream, requests, Append(tasks, t))
      BY <1>1, <1>4, QuietAppend DEF IInv
    <2> QED BY <1>1, <2>1 DEF TokenOK, AppWrites
  <1>9. \A w, u : WrittenBy(w, u) => WrittenBy(w, u)'
    BY <1>2 DEF WrittenBy
  <1>10. QueuesOwned' /\ AuthorOK(pipeline, stream, link)'
    BY <1>9 DEF IInv, AppWrites, QueuesOwned, OwnedBy, AuthorOK
  <1>11. TasksOK(tasks, user)'
    BY <1>1, <1>2, <1>3, <1>4, AppendTasksOK DEF IInv, AppWrites
  <1> QED BY <1>6, <1>7, <1>8, <1>10, <1>11 DEF IInv

LEMMA AuthChangesKeeps ==
    ASSUME IInv, NEW u \in Users, AuthChanges(u) PROVE IInv'
  <1>1. /\ UserTask(u) \in Tasks /\ UserTask(u).kind = "user"
        /\ UserTask(u).user = u /\ ~IsLiveToken(UserTask(u))
        /\ tasks \in Seq(Tasks) /\ requests \in SUBSET RequestType
        /\ tasks' = Append(tasks, UserTask(u))
    BY TasksType, TypeParts DEF UserTask, IsLiveToken, IInv, AuthChanges
  <1>2. tasks' \in Seq(Tasks)
    BY <1>1
  <1>3. \A r \in requests : LET s == [r EXCEPT !.fresh = FALSE] IN
          s \in RequestType /\ s.live = r.live
    BY <1>1 DEF RequestType
  <1>4. requests' \in SUBSET RequestType
    BY <1>3 DEF AuthChanges
  <1>5. TypeOK'
    <2>1. spent' \in [switches : Nat, faults : Nat]
      <3>1. /\ spent \in [switches : Nat, faults : Nat]
            /\ spent' = [spent EXCEPT !.switches = @ + 1]
        BY TypeParts DEF AuthChanges, IInv
      <3> QED BY <3>1
    <2> QED BY <1>2, <1>4, <2>1 DEF IInv, AuthChanges, TypeOK, RequestType
  <1>6. LinkOK(pipeline, stream, link)'
    BY DEF IInv, AuthChanges, LinkOK
  <1>7. TokenOK(stream, requests, tasks)'
    <2>1. TokenOK(stream, requests', tasks)
      <3>1. \A s \in requests' : \E r \in requests :
              s = [r EXCEPT !.fresh = FALSE] /\ s.live = r.live
        BY <1>3 DEF AuthChanges
      <3> QED BY <3>1 DEF TokenOK, IInv
    <2>2. TokenOK(stream, requests', Append(tasks, UserTask(u)))
      BY <1>1, <2>1, QuietAppend
    <2> QED BY <1>1, <2>2 DEF TokenOK, AuthChanges
  <1>8. QueuesOwned' /\ AuthorOK(pipeline, stream, link)'
    BY DEF IInv, AuthChanges, QueuesOwned, OwnedBy, WrittenBy, AuthorOK
  <1>9. TasksOK(tasks, user)'
    <2>1. \A w \in 1 .. Len(author) : w \in 1 .. Len(author') /\ author'[w] = author[w]
      BY DEF AuthChanges
    <2> QED BY <1>1, <2>1, AppendTasksOK DEF IInv, AuthChanges
  <1> QED BY <1>5, <1>6, <1>7, <1>8, <1>9 DEF IInv

\* Both answers to a getToken call.
LEMMA TokenKeeps ==
    ASSUME IInv, NEW r \in requests, NEW u \in {provider, NoUser},
           tasks' = Append(tasks, TokenTask(u, r.live)),
           requests' = requests \ {r},
           spent' \in [switches : Nat, faults : Nat],
           UNCHANGED <<provider, user, queue, awaited, pipeline, stream, link,
                       author, verdict, told>>
    PROVE  IInv'
  <1> DEFINE t == TokenTask(u, r.live)
  <1>1. /\ tasks \in Seq(Tasks) /\ requests \in SUBSET RequestType
        /\ provider \in Users /\ r.live \in BOOLEAN
    BY TypeParts DEF IInv, RequestType
  <1>2. /\ t \in Tasks /\ t.kind = "token" /\ t.user = u
        /\ IsLiveToken(t) => r.live
    BY <1>1, TasksType DEF TokenTask, IsLiveToken
  <1>3. tasks' = Append(tasks, t)
    OBVIOUS
  <1> HIDE DEF t
  <1>4. tasks' \in Seq(Tasks)
    BY <1>1, <1>2, <1>3
  <1>5. TypeOK'
    BY <1>1, <1>4 DEF IInv, TypeOK, RequestType
  <1>6. LinkOK(pipeline, stream, link)'
    BY DEF IInv, LinkOK
  <1>7. TokenOK(stream, requests, tasks)'
    <2>1. TokenOK(stream, requests \ {r}, Append(tasks, t))
      BY <1>1, <1>2, TokenAppend DEF IInv
    <2> QED BY <1>3, <2>1 DEF TokenOK
  <1>8. QueuesOwned' /\ AuthorOK(pipeline, stream, link)'
    BY DEF IInv, QueuesOwned, OwnedBy, WrittenBy, AuthorOK
  <1>9. TasksOK(tasks, user)'
    BY <1>1, <1>2, <1>3, AppendTasksOK DEF IInv
  <1> QED BY <1>5, <1>6, <1>7, <1>8, <1>9 DEF IInv

\* The parts of an action that leaves only the worker queue's head behind.
LEMMA HeadTask ==
    ASSUME IInv, tasks # <<>>
    PROVE  /\ tasks \in Seq(Tasks) /\ Tail(tasks) \in Seq(Tasks)
           /\ Head(tasks) = tasks[1] /\ 1 \in 1 .. Len(tasks)
           /\ Head(tasks) \in Tasks
           /\ TokenOK(stream, requests, Tail(tasks))
           /\ Head(tasks).kind # "user" => TasksOK(Tail(tasks), user)
  BY HeadTailProperties, TailTokenOK, TailTasksOK, TypeParts DEF IInv

LEMMA RunWriteKeeps ==
    ASSUME IInv, tasks # <<>>, Head(tasks).kind = "write",
           RunWrite(Head(tasks).write)
    PROVE  IInv'
  <1> DEFINE w == Head(tasks).write
             q == Append(queue[user], w)
  <1>1. w \in Writes
    BY HeadTask, TaskFields
  <1>2. w \in 1 .. Len(author) /\ author[w] = user
    <2>1. w \in 1 .. Len(author) /\ UserAt(tasks, 1, user, author[w])
      BY HeadTask DEF IInv, TasksOK
    <2>2. \A j \in 1 .. 1 - 1 : FALSE
      OBVIOUS
    <2> QED BY <2>1, <2>2 DEF UserAt
  <1>3. /\ user \in Users /\ queue \in [Users -> Seq(Writes)]
        /\ awaited \in [Users -> SUBSET Writes]
        /\ OwnedBy(queue[user], user)
    BY TypeParts DEF IInv, QueuesOwned
  <1>4. q \in Seq(Writes) /\ OwnedBy(q, user)
    <2>1. /\ q \in Seq(Writes) /\ Len(q) = Len(queue[user]) + 1
          /\ Len(queue[user]) \in Nat /\ q[Len(queue[user]) + 1] = w
          /\ \A i \in 1 .. Len(queue[user]) : q[i] = queue[user][i]
      BY <1>1, <1>3, AppendProperties
    <2>2. \A i \in 1 .. Len(q) : i \in 1 .. Len(queue[user]) \/ q[i] = w
      BY <2>1
    <2>3. WrittenBy(w, user)
      BY <1>2 DEF WrittenBy
    <2> HIDE DEF q, w
    <2> QED BY <1>3, <2>1, <2>2, <2>3 DEF OwnedBy
  <1>5. /\ queue' = [queue EXCEPT ![user] = q] /\ tasks' = Tail(tasks)
        /\ awaited' = [awaited EXCEPT ![user] = @ \cup {w}]
        /\ FillWritePipeline(queue'[user], pipeline, stream, link, requests)
        /\ UNCHANGED <<provider, user, author, verdict, told, spent>>
    BY DEF RunWrite
  <1> HIDE DEF w, q
  <1>6. queue' \in [Users -> Seq(Writes)] /\ queue'[user] = q
    BY <1>3, <1>4, <1>5
  <1>7. awaited' \in [Users -> SUBSET Writes]
    BY <1>1, <1>3, <1>5
  <1>8. /\ pipeline' \in Seq(Writes) /\ Len(pipeline') <= kMaxPendingWrites
        /\ stream' \in StreamType /\ requests' \in SUBSET RequestType
        /\ link' \in LinkType
        /\ LinkOK(pipeline, stream, link)'
        /\ TokenOK(stream', requests', Tail(tasks))
        /\ AuthorOK(pipeline, stream, link)'
    BY <1>4, <1>5, <1>6, HeadTask, FillKeepsOK, TypeParts DEF IInv
  <1>9. TypeOK'
    BY <1>5, <1>6, <1>7, <1>8, HeadTask
    DEF IInv, TypeOK, RequestType, StreamType, LinkType, Sendable
  <1>10. TokenOK(stream, requests, tasks)'
    BY <1>5, <1>8 DEF TokenOK
  <1>11. QueuesOwned'
    <2>1. \A u \in Users : OwnedBy(queue'[u], u)
      BY <1>3, <1>4, <1>5, <1>6 DEF IInv, QueuesOwned
    <2> QED BY <1>5, <2>1 DEF QueuesOwned, OwnedBy, WrittenBy
  <1>12. TasksOK(tasks, user)'
    BY <1>5, HeadTask, TasksOKFrame
  <1> QED BY <1>8, <1>9, <1>10, <1>11, <1>12 DEF IInv

LEMMA RunUserKeeps ==
    ASSUME IInv, tasks # <<>>, Head(tasks).kind = "user",
           RunUser(Head(tasks).user)
    PROVE  IInv'
  <1> DEFINE u == Head(tasks).user
             s == IF IsStarted(stream) THEN Closed("Initial") ELSE stream
             ts == VoidTasks(Tail(tasks))
  <1>1. u \in Users
    BY HeadTask, TaskFields
  <1>2. /\ user' = u /\ tasks' = ts
        /\ FillWritePipeline(queue[u], <<>>, s, NoLink, Void(requests))
        /\ UNCHANGED <<provider, queue, awaited, author, verdict, told, spent>>
    BY DEF RunUser
  <1>3. s \in StreamType /\ s.state # "Open" /\ ~s.handshake /\ ~s.idle
    <2>1. CASE IsStarted(stream)
      BY <2>1, ClosedType DEF States
    <2>2. CASE ~IsStarted(stream)
      BY <2>2, TypeParts DEF IsStarted, IInv, LinkOK
    <2> QED BY <2>1, <2>2
  <1>4. /\ ts \in Seq(Tasks) /\ Void(requests) \in SUBSET RequestType
        /\ TokenOK(s, Void(requests), ts)
    BY HeadTask, VoidTasksType, VoidTokenOK, TypeParts DEF IInv
  <1>5. queue[u] \in Seq(Writes) /\ OwnedBy(queue[u], u)
    BY <1>1, TypeParts DEF IInv, QueuesOwned
  <1>6. TasksOK(ts, u)
    BY HeadTask, TailTasksOK DEF IInv
  <1> HIDE DEF u, s, ts
  <1>7. /\ pipeline' \in Seq(Writes) /\ Len(pipeline') <= kMaxPendingWrites
        /\ stream' \in StreamType /\ requests' \in SUBSET RequestType
        /\ link' \in LinkType
        /\ LinkOK(pipeline, stream, link)'
        /\ TokenOK(stream', requests', ts)
        /\ AuthorOK(pipeline, stream, link)'
    BY <1>2, <1>3, <1>4, <1>5, RefillKeepsOK
  <1>8. TypeOK'
    BY <1>1, <1>2, <1>4, <1>7
    DEF IInv, TypeOK, RequestType, StreamType, LinkType, Sendable
  <1>9. TokenOK(stream, requests, tasks)'
    BY <1>2, <1>7 DEF TokenOK
  <1>10. QueuesOwned'
    BY <1>2, QueuesFrame DEF IInv
  <1>11. TasksOK(tasks, user)'
    BY <1>2, <1>6, TasksOKFrame
  <1> QED BY <1>7, <1>8, <1>9, <1>10, <1>11 DEF IInv

LEMMA RunTokenKeeps ==
    ASSUME IInv, tasks # <<>>, Head(tasks).kind = "token", RunToken(Head(tasks))
    PROVE  IInv'
  <1> DEFINE task == Head(tasks)
  <1>1. /\ Tail(tasks) \in Seq(Tasks) /\ TasksOK(Tail(tasks), user)
        /\ TokenOK(stream, requests, Tail(tasks))
        /\ task \in Tasks /\ task.kind = "token"
        /\ task.user \in Users \cup {NoUser} /\ task.live \in BOOLEAN
        /\ task = tasks[1] /\ 1 \in 1 .. Len(tasks)
    BY HeadTask, TaskFields
  <1>2. UNCHANGED <<provider, user, author, verdict, spent>>
    BY DEF RunToken
  <1> HIDE DEF task
  <1>3. CASE ~Awaited(task)
    <2>1. /\ tasks' = Tail(tasks)
          /\ UNCHANGED <<requests, queue, awaited, pipeline, stream, link, told>>
      BY <1>3 DEF RunToken, task
    <2>2. TypeOK'
      BY <1>1, <1>2, <2>1 DEF IInv, TypeOK
    <2>3. LinkOK(pipeline, stream, link)' /\ TokenOK(stream, requests, tasks)'
      BY <1>1, <2>1 DEF IInv, LinkOK, TokenOK
    <2>4. QueuesOwned' /\ AuthorOK(pipeline, stream, link)'
      BY <1>2, <2>1 DEF IInv, QueuesOwned, OwnedBy, WrittenBy, AuthorOK
    <2>5. TasksOK(tasks, user)'
      BY <1>1, <1>2, <2>1, TasksOKFrame
    <2> QED BY <2>2, <2>3, <2>4, <2>5 DEF IInv
  <1>4. CASE Awaited(task) /\ task.user = NoUser
    <2>1. OnStreamFinish("transient", Tail(tasks))
      BY <1>4 DEF RunToken, task
    <2> QED BY <1>1, <1>2, <2>1, FinishKeepsOK DEF Statuses
  <1>5. CASE Awaited(task) /\ task.user # NoUser
    <2>1. /\ tasks' = Tail(tasks)
          /\ stream' = [stream EXCEPT !.state = "Open"]
          /\ link' = [NoLink EXCEPT !.as = task.user, !.sent = <<Handshake>>]
          /\ UNCHANGED <<requests, queue, awaited, pipeline, told>>
      BY <1>5 DEF RunToken, task
    <2>2. IsLiveToken(tasks[1])
      BY <1>1, <1>5 DEF Awaited, IsLiveToken
    <2>3. /\ stream.state = "Starting" /\ \A r \in requests : ~r.live
          /\ \A i \in 1 .. Len(tasks) : IsLiveToken(tasks[i]) => i = 1
      BY <1>1, <2>2 DEF IInv, TokenOK
    <2>4. /\ stream \in StreamType /\ ~stream.handshake
          /\ pipeline \in Seq(Writes) /\ user \in Users
      BY <2>3, TypeParts DEF IInv, LinkOK
    <2>5. stream' \in StreamType /\ stream'.state = "Open" /\ ~stream'.handshake
      BY <2>1, <2>4 DEF StreamType, States
    <2>6. /\ link' \in LinkType /\ link'.as = task.user
          /\ link'.sent = <<Handshake>> /\ link'.replies = <<>>
          /\ link'.closed = "no"
      <3>1. <<Handshake>> \in Seq(Sendable) /\ <<>> \in Seq(Sendable)
        BY DEF Sendable
      <3>2. link' = [as |-> task.user, sent |-> <<Handshake>>, replies |-> <<>>,
                     closed |-> "no"]
        BY <2>1 DEF NoLink
      <3> QED BY <1>1, <3>1, <3>2 DEF LinkType
    <2>7. TypeOK'
      BY <1>1, <1>2, <2>1, <2>5, <2>6
      DEF IInv, TypeOK, RequestType, StreamType, LinkType, Sendable
    <2>8. LinkOK(pipeline, stream, link)'
      <3>1. <<>> \o <<Handshake>> = <<Handshake>>
        OBVIOUS
      <3> QED BY <2>5, <2>6, <3>1 DEF LinkOK
    <2>9. TokenOK(stream, requests, tasks)'
      <3>1. /\ Len(Tail(tasks)) = Len(tasks) - 1
            /\ \A i \in 1 .. Len(Tail(tasks)) : Tail(tasks)[i] = tasks[i + 1]
        BY HeadTailProperties, HeadTask
      <3>2. \A i \in 1 .. Len(Tail(tasks)) : i + 1 \in 1 .. Len(tasks) /\ i + 1 # 1
        BY <3>1, HeadTask
      <3> QED BY <2>1, <2>3, <3>1, <3>2 DEF TokenOK
    <2>10. task.user = user
      <3>1. NoChangeBefore(tasks, 1)
        BY DEF NoChangeBefore
      <3> QED BY <1>1, <1>5, <2>2, <3>1 DEF IInv, TasksOK
    <2>11. AuthorOK(pipeline, stream, link)'
      <3>1. OwnedBy(pipeline, user)
        BY DEF IInv, AuthorOK
      <3>2. \A i \in 1 .. Len(<<Handshake>>) : <<Handshake>>[i] = Handshake
        OBVIOUS
      <3>3. \A i \in 1 .. Len(link'.replies) : FALSE
        BY <2>6
      <3> QED BY <1>2, <2>1, <2>6, <2>10, <3>1, <3>2, <3>3
          DEF AuthorOK, OwnedBy, WrittenBy
    <2>12. QueuesOwned'
      BY <1>2, <2>1, QueuesFrame DEF IInv
    <2>13. TasksOK(tasks, user)'
      BY <1>1, <1>2, <2>1, TasksOKFrame
    <2> QED BY <2>7, <2>8, <2>9, <2>11, <2>12, <2>13 DEF IInv
  <1> QED BY <1>3, <1>4, <1>5

LEMMA RunTaskKeeps == IInv /\ RunTask => IInv'
  BY RunWriteKeeps, RunUserKeeps, RunTokenKeeps DEF RunTask

\* What follows for the rest of the state when only the stream, the connection
\* and what they carry change.
LEMMA StreamStepKeeps ==
    ASSUME IInv, TypeOK', UNCHANGED <<provider, user, author, queue, tasks, pipeline>>,
           LinkOK(pipeline, stream, link)', TokenOK(stream', requests', tasks),
           stream'.state = "Open" => link'.as = user,
           OwnedBy(link'.sent, user), OwnedBy(link'.replies, user)
    PROVE  IInv'
  <1>1. AuthorOK(pipeline, stream, link)'
    BY DEF IInv, AuthorOK, OwnedBy, WrittenBy
  <1>2. TokenOK(stream, requests, tasks)'
    BY DEF TokenOK
  <1>3. QueuesOwned' /\ TasksOK(tasks, user)'
    BY QueuesFrame, TasksOKFrame DEF IInv
  <1> QED BY <1>1, <1>2, <1>3 DEF IInv

LEMMA BackoffElapsedKeeps == IInv /\ BackoffElapsed => IInv'
  <1> SUFFICES ASSUME IInv, BackoffElapsed PROVE IInv'
    OBVIOUS
  <1> DEFINE s == [stream EXCEPT !.state = "Initial"]
  <1>1. /\ stream \in StreamType /\ stream.state = "Backoff" /\ ~stream.handshake
        /\ ~stream.idle
        /\ requests \in SUBSET RequestType /\ pipeline \in Seq(Writes)
        /\ link = NoLink
    BY TypeParts DEF IInv, LinkOK, BackoffElapsed
  <1>2. s \in StreamType /\ s.state = "Initial" /\ ~s.handshake /\ ~s.idle
        /\ ~IsStarted(s)
    BY <1>1 DEF StreamType, States, IsStarted
  <1>3. Start(s, requests)
    BY DEF BackoffElapsed
  <1> HIDE DEF s
  <1>4. Continued(s, requests)
    BY <1>1, <1>2, <1>3, StartContinues
  <1>5. TokenOK(s, requests, tasks)
    BY <1>1 DEF IInv, TokenOK
  <1>6. TokenOK(stream', requests', tasks)
    BY <1>1, <1>4, <1>5, ContinuedTokenOK
  <1>7. stream'.state # "Open" /\ ~stream'.handshake /\ ~stream'.idle
    BY <1>2, <1>4 DEF Continued
  <1>8. LinkOK(pipeline, stream, link)'
    BY <1>1, <1>7, NoLinkType DEF BackoffElapsed, LinkOK
  <1>9. TypeOK'
    BY <1>4 DEF Continued, BackoffElapsed, IInv, TypeOK, RequestType, StreamType
  <1>10. OwnedBy(link'.sent, user) /\ OwnedBy(link'.replies, user)
    BY <1>1, NoLinkType DEF BackoffElapsed, OwnedBy
  <1> QED BY <1>6, <1>7, <1>8, <1>9, <1>10, StreamStepKeeps DEF BackoffElapsed

LEMMA IdleTimeoutKeeps == IInv /\ IdleTimeout => IInv'
  <1> SUFFICES ASSUME IInv, IdleTimeout PROVE IInv'
    OBVIOUS
  <1>1. stream.state = "Open" /\ pipeline \in Seq(Writes)
    BY TypeParts DEF IInv, LinkOK, IdleTimeout
  <1>2. /\ stream' \in StreamType /\ stream'.state # "Open"
        /\ ~stream'.handshake /\ ~stream'.idle
    BY ClosedType DEF States, IdleTimeout
  <1>3. TokenOK(stream', requests', tasks)
    BY <1>1 DEF IInv, TokenOK, IdleTimeout
  <1>4. LinkOK(pipeline, stream, link)'
    BY <1>2, NoLinkType DEF LinkOK, IdleTimeout
  <1>5. TypeOK'
    BY <1>2, NoLinkType
    DEF IdleTimeout, IInv, TypeOK, StreamType, LinkType, Sendable
  <1>6. OwnedBy(link'.sent, user) /\ OwnedBy(link'.replies, user)
    BY NoLinkType DEF IdleTimeout, OwnedBy
  <1> QED BY <1>2, <1>3, <1>4, <1>5, <1>6, StreamStepKeeps DEF IdleTimeout

\* What an answer finds: an open stream and, after the handshake, a write.
LEMMA AnswerFinds ==
    ASSUME IInv, link.replies # <<>>
    PROVE  /\ stream.state = "Open"
           /\ link \in LinkType /\ pipeline \in Seq(Writes)
           /\ link.replies \in Seq(Sendable) /\ link.sent \in Seq(Sendable)
           /\ Tail(link.replies) \in Seq(Sendable)
           /\ Len(Tail(link.replies)) = Len(link.replies) - 1
           /\ Len(link.replies) \in Nat \ {0}
           /\ OwnedBy(Tail(link.replies), user)
           /\ stream.handshake => pipeline # <<>>
  <1>1. /\ link \in LinkType /\ pipeline \in Seq(Writes)
        /\ link.replies \in Seq(Sendable) /\ link.sent \in Seq(Sendable)
    BY TypeParts DEF IInv, LinkType
  <1>2. /\ Tail(link.replies) \in Seq(Sendable)
        /\ Len(Tail(link.replies)) = Len(link.replies) - 1
        /\ Len(link.replies) \in Nat \ {0}
    BY <1>1, HeadTailProperties
  <1>3. OwnedBy(Tail(link.replies), user)
    BY <1>1, TailOwned DEF IInv, AuthorOK
  <1>4. stream.state = "Open"
    BY NoLinkType DEF IInv, LinkOK
  <1>5. ASSUME stream.handshake PROVE pipeline # <<>>
    <2>1. Len(link.replies) <= Len(pipeline)
      BY <1>5 DEF IInv, LinkOK
    <2> QED BY <1>1, <1>2, <2>1
  <1> QED BY <1>1, <1>2, <1>3, <1>4, <1>5

LEMMA OnHandshakeCompleteKeeps ==
    ASSUME IInv, OnStreamRead, ~stream.handshake PROVE IInv'
  <1>0. ~stream.handshake
    OBVIOUS
  <1>1. /\ link.replies # <<>>
        /\ stream' = Wrote([stream EXCEPT !.handshake = TRUE])
        /\ link' = [link EXCEPT !.replies = Tail(@), !.sent = @ \o pipeline]
        /\ UNCHANGED <<requests, queue, awaited, pipeline, told, provider,
                       tasks, user, author, verdict, spent>>
    BY DEF OnStreamRead, OnHandshakeComplete
  <1>2. /\ stream' \in StreamType /\ stream'.state = "Open" /\ stream'.handshake
    BY <1>1, AnswerFinds, TypeParts DEF IInv, StreamType, Wrote
  <1>3. pipeline \in Seq(Sendable)
    BY <1>1, AnswerFinds DEF Sendable
  <1>4. link.sent \o pipeline \in Seq(Sendable)
    BY <1>1, <1>3, AnswerFinds
  <1>5. /\ link' \in LinkType /\ link'.replies = Tail(link.replies)
        /\ link'.sent = link.sent \o pipeline
        /\ link'.as = link.as /\ link'.closed = link.closed
    BY <1>1, <1>4, AnswerFinds DEF LinkType
  <1>6. TypeOK'
    BY <1>1, <1>2, <1>5 DEF IInv, TypeOK, StreamType, LinkType, Sendable
  <1>7. LinkOK(pipeline, stream, link)'
    <2>1. Len(link.replies) <= 1
      BY <1>0 DEF IInv, LinkOK
    <2>2. Len(link'.replies) = 0 /\ Len(link.replies) = 1
      <3>1. Len(link.replies) \in Nat \ {0}
        BY <1>1, AnswerFinds
      <3>2. Len(link.replies) = 1
        <4> DEFINE n == Len(link.replies)
        <4>1. n \in Nat \ {0} /\ n <= 1
          BY <2>1, <3>1
        <4> HIDE DEF n
        <4>2. n = 1
          BY <4>1
        <4> QED BY <4>2 DEF n
      <3>3. Len(Tail(link.replies)) = Len(link.replies) - 1
        BY <1>1, AnswerFinds
      <3> QED BY <1>5, <3>2, <3>3
    <2>3. ASSUME link.closed = "no"
          PROVE  link'.replies \o link'.sent = pipeline
      <3>1. link.replies \o link.sent = <<Handshake>>
        BY <1>0, <1>1, <2>3, AnswerFinds DEF IInv, LinkOK
      <3>2. Len(link.replies) + Len(link.sent) = 1 /\ Len(link.sent) \in Nat
        <4> DEFINE a == link.replies
                   b == link.sent
        <4>1. a \in Seq(Sendable) /\ b \in Seq(Sendable) /\ Len(a \o b) = 1
          BY <1>1, <3>1, AnswerFinds
        <4> HIDE DEF a, b
        <4>2. Len(a) + Len(b) = 1 /\ Len(b) \in Nat
          BY <4>1, ConcatProperties
        <4> QED BY <4>2 DEF a, b
      <3>3. Len(link.sent) = 0
        BY <2>2, <3>2
      <3>4. link.sent = <<>> /\ link'.replies = <<>>
        BY <1>1, <1>5, <2>2, <3>3, AnswerFinds, EmptySeq
      <3>5. link'.sent = pipeline
        BY <1>3, <1>5, <3>4, ConcatEmptySeq
      <3> QED BY <1>3, <3>4, <3>5, ConcatEmptySeq
    <2>4. Len(link'.replies) <= Len(pipeline)
      <3>1. Len(pipeline) \in Nat
        BY <1>1, AnswerFinds
      <3> QED BY <2>2, <3>1
    <2> QED BY <1>1, <1>2, <1>5, <2>3, <2>4 DEF LinkOK
  <1>8. TokenOK(stream', requests', tasks)
    BY <1>1, <1>2, AnswerFinds DEF IInv, TokenOK
  <1>9. OwnedBy(link'.sent, user) /\ OwnedBy(link'.replies, user)
    BY <1>1, <1>3, <1>5, AnswerFinds, ConcatOwned DEF IInv, AuthorOK
  <1>10. link'.as = user
    BY <1>1, <1>5, AnswerFinds DEF IInv, AuthorOK
  <1> QED BY <1>1, <1>6, <1>7, <1>8, <1>9, <1>10, StreamStepKeeps

\* Once an answer has been taken for the first write, the answers and requests
\* left are those of the writes behind it.
LEMMA NextAnswer ==
    ASSUME IInv, link.replies # <<>>, stream.handshake, NEW k,
           k = [link EXCEPT !.replies = Tail(@)]
    PROVE  /\ k \in LinkType /\ k.replies = Tail(link.replies) /\ k.sent = link.sent
           /\ k.as = link.as /\ k.closed = link.closed
           /\ pipeline \in Seq(Writes) /\ pipeline # <<>>
           /\ Tail(pipeline) \in Seq(Writes)
           /\ Len(Tail(pipeline)) = Len(pipeline) - 1
           /\ Len(Tail(pipeline)) <= kMaxPendingWrites
           /\ LinkOK(Tail(pipeline), stream, k)
  <1>1. /\ k \in LinkType /\ k.replies = Tail(link.replies) /\ k.sent = link.sent
        /\ k.as = link.as /\ k.closed = link.closed
    BY AnswerFinds DEF LinkType
  <1>2. /\ pipeline # <<>> /\ pipeline \in Seq(Writes)
        /\ Len(pipeline) <= kMaxPendingWrites
    BY AnswerFinds, TypeParts DEF IInv
  <1>3. /\ Tail(pipeline) \in Seq(Writes)
        /\ Len(Tail(pipeline)) = Len(pipeline) - 1 /\ Len(pipeline) \in Nat \ {0}
    BY <1>2, HeadTailProperties
  <1>4. Len(Tail(pipeline)) <= kMaxPendingWrites
    BY <1>2, <1>3, BoundsAssumption
  <1>5. /\ Len(link.replies) <= Len(pipeline)
        /\ link.closed = "no" => link.replies \o link.sent = pipeline
    BY AnswerFinds DEF IInv, LinkOK
  <1>6. Len(k.replies) <= Len(Tail(pipeline))
    <2> DEFINE a == Len(link.replies)
               c == Len(pipeline)
    <2>1. /\ Len(k.replies) = a - 1 /\ Len(Tail(pipeline)) = c - 1
          /\ a \in Nat /\ c \in Nat /\ a <= c
      BY <1>1, <1>3, <1>5, AnswerFinds
    <2> HIDE DEF a, c
    <2> QED BY <2>1
  <1>7. Tail(link.replies) \o link.sent = Tail(link.replies \o link.sent)
    BY AnswerFinds, TailOfConcat
  <1>8. LinkOK(Tail(pipeline), stream, k)
    BY <1>1, <1>5, <1>6, <1>7, AnswerFinds DEF LinkOK
  <1> QED BY <1>1, <1>2, <1>3, <1>4, <1>8

LEMMA OnMutationResultKeeps ==
    ASSUME IInv, OnStreamRead, stream.handshake PROVE IInv'
  <1> DEFINE k == [link EXCEPT !.replies = Tail(@)]
  <1>1. /\ link.replies # <<>>
        /\ Resolve(Head(pipeline), "ok")
        /\ FillWritePipeline(queue'[user], Tail(pipeline), stream, k, requests)
        /\ UNCHANGED <<provider, tasks, user, author, verdict, spent>>
    BY DEF OnStreamRead, OnMutationResult
  <1>2. /\ k \in LinkType /\ k.replies = Tail(link.replies) /\ k.sent = link.sent
        /\ k.as = link.as
        /\ pipeline \in Seq(Writes) /\ pipeline # <<>>
        /\ Tail(pipeline) \in Seq(Writes)
        /\ Len(Tail(pipeline)) <= kMaxPendingWrites
        /\ LinkOK(Tail(pipeline), stream, k)
    BY <1>1, NextAnswer
  <1>3. /\ user \in Users /\ stream \in StreamType /\ requests \in SUBSET RequestType
    BY TypeParts DEF IInv
  <1> HIDE DEF k
  <1>4. OwnedBy(Tail(pipeline), user)
    <2>1. pipeline \in Seq(Sendable)
      BY <1>2 DEF Sendable
    <2> QED BY <1>2, <2>1, TailOwned DEF IInv, AuthorOK
  <1>5. AuthorOK(Tail(pipeline), stream, k)
    BY <1>1, <1>2, <1>4, AnswerFinds DEF IInv, AuthorOK
  <1>6. /\ queue' \in [Users -> Seq(Writes)] /\ QueuesOwned'
        /\ OwnedBy(queue'[user], user) /\ queue'[user] \in Seq(Writes)
        /\ awaited' \in [Users -> SUBSET Writes]
        /\ told' \in [Writes -> {"none", "ok", "refused"}]
    BY <1>1, <1>3, ResolveKeepsOK DEF IInv
  <1>7. /\ pipeline' \in Seq(Writes) /\ Len(pipeline') <= kMaxPendingWrites
        /\ stream' \in StreamType /\ requests' \in SUBSET RequestType
        /\ link' \in LinkType
        /\ LinkOK(pipeline, stream, link)'
        /\ TokenOK(stream', requests', tasks)
        /\ AuthorOK(pipeline, stream, link)'
    BY <1>1, <1>2, <1>3, <1>5, <1>6, FillKeepsOK DEF IInv
  <1>8. TypeOK'
    BY <1>1, <1>6, <1>7
    DEF IInv, TypeOK, RequestType, StreamType, LinkType, Sendable
  <1>9. TokenOK(stream, requests, tasks)' /\ TasksOK(tasks, user)'
    BY <1>1, <1>7, TasksOKFrame DEF IInv, TokenOK
  <1> QED BY <1>6, <1>7, <1>8, <1>9 DEF IInv

LEMMA OnStreamReadKeeps == IInv /\ OnStreamRead => IInv'
  BY OnHandshakeCompleteKeeps, OnMutationResultKeeps

LEMMA OnStreamClosedKeeps == IInv /\ OnStreamClosed => IInv'
  <1> SUFFICES ASSUME IInv, OnStreamClosed PROVE IInv'
    OBVIOUS
  <1>1. link.closed \in Statuses /\ tasks \in Seq(Tasks)
    BY TypeParts DEF OnStreamClosed, IInv, LinkType
  <1> QED BY <1>1, FinishKeepsOK DEF OnStreamClosed, IInv

\* What the connection holds is changed by the server and by the network; the
\* client does not notice yet.
LEMMA LinkStepKeeps ==
    ASSUME IInv, stream.state = "Open", NEW sent \in Seq(Sendable),
           NEW replies \in Seq(Sendable), NEW closed \in Statuses \cup {"no"},
           link' = [link EXCEPT !.sent = sent, !.replies = replies,
                                !.closed = closed],
           OwnedBy(sent, user), OwnedBy(replies, user),
           Len(replies) <= IF stream.handshake THEN Len(pipeline) ELSE 1,
           closed = "no" => /\ replies \o sent = link.replies \o link.sent
                            /\ link.closed = "no",
           verdict' \in [Writes -> {"none", "ok", "refused"}],
           spent' \in [switches : Nat, faults : Nat],
           UNCHANGED <<provider, requests, tasks, user, queue, awaited,
                       pipeline, stream, author, told>>
    PROVE  IInv'
  <1>1. link \in LinkType
    BY TypeParts DEF IInv
  <1>2. /\ link' \in LinkType /\ link'.sent = sent /\ link'.replies = replies
        /\ link'.closed = closed /\ link'.as = link.as
    BY <1>1 DEF LinkType
  <1>3. TypeOK'
    BY <1>2 DEF IInv, TypeOK, LinkType, Sendable
  <1>4. LinkOK(pipeline, stream, link)'
    BY <1>2 DEF IInv, LinkOK
  <1>5. TokenOK(stream', requests', tasks)
    BY DEF IInv, TokenOK
  <1>6. link'.as = user
    BY <1>2 DEF IInv, AuthorOK
  <1> QED BY <1>2, <1>3, <1>4, <1>5, <1>6, StreamStepKeeps

LEMMA ServerKeeps == IInv /\ Server => IInv'
  <1> SUFFICES ASSUME IInv, Server PROVE IInv'
    OBVIOUS
  <1>1. /\ link \in LinkType /\ link.sent \in Seq(Sendable)
        /\ link.replies \in Seq(Sendable) /\ link.sent # <<>>
        /\ link.closed = "no" /\ verdict \in [Writes -> {"none", "ok", "refused"}]
        /\ spent \in [switches : Nat, faults : Nat]
    BY TypeParts DEF IInv, LinkType, Server, ServerAccepts, ServerRefuses
  <1>2. stream.state = "Open"
    BY <1>1, NoLinkType DEF IInv, LinkOK
  <1>3. /\ link.replies \o link.sent =
              IF stream.handshake THEN pipeline ELSE <<Handshake>>
        /\ Len(link.replies) <= IF stream.handshake THEN Len(pipeline) ELSE 1
    BY <1>1, <1>2 DEF IInv, LinkOK
  <1>4. /\ Head(link.sent) \in Sendable /\ Tail(link.sent) \in Seq(Sendable)
        /\ Len(Tail(link.sent)) = Len(link.sent) - 1
        /\ Len(link.sent) \in Nat \ {0} /\ Len(link.replies) \in Nat
        /\ Head(link.sent) = link.sent[1] /\ 1 \in 1 .. Len(link.sent)
    BY <1>1, HeadTailProperties
  <1>5. OwnedBy(link.sent, user) /\ OwnedBy(link.replies, user)
    BY DEF IInv, AuthorOK
  <1>6. CASE ServerAccepts
    <2> DEFINE replies == Append(link.replies, Head(link.sent))
    <2>1. replies \in Seq(Sendable) /\ Len(replies) = Len(link.replies) + 1
      BY <1>1, <1>4, AppendProperties
    <2>2. OwnedBy(replies, user)
      <3>1. \A i \in 1 .. Len(link.replies) + 1 :
              \/ i \in 1 .. Len(link.replies) /\ replies[i] = link.replies[i]
              \/ replies[i] = link.sent[1]
        BY <1>1, <1>4, AppendProperties
      <3> HIDE DEF replies
      <3> QED BY <1>4, <1>5, <2>1, <3>1 DEF OwnedBy
    <2>3. OwnedBy(Tail(link.sent), user)
      BY <1>1, <1>5, TailOwned
    <2>4. /\ link' = [link EXCEPT !.sent = Tail(@), !.replies = replies]
          /\ UNCHANGED <<provider, requests, tasks, user, queue, awaited,
                         pipeline, stream, author, told, spent>>
      BY <1>6 DEF ServerAccepts
    <2>5. link' = [link EXCEPT !.sent = Tail(link.sent), !.replies = replies,
                               !.closed = "no"]
      BY <1>1, <2>4 DEF LinkType
    <2>6. verdict' \in [Writes -> {"none", "ok", "refused"}]
      BY <1>1, <1>4, <1>6 DEF ServerAccepts, Sendable
    <2>7. replies \o Tail(link.sent) = link.replies \o link.sent
      BY <1>1, MoveHead
    <2> HIDE DEF replies
    <2>8. Len(replies) <= IF stream.handshake THEN Len(pipeline) ELSE 1
      <3>1. Len(replies \o Tail(link.sent)) = Len(replies) + Len(Tail(link.sent))
        BY <1>4, <2>1, ConcatProperties
      <3>2. Len(replies) \in Nat /\ Len(Tail(link.sent)) \in Nat
        BY <1>4, <2>1
      <3>3. Len(replies) <= Len(replies \o Tail(link.sent))
        BY <3>1, <3>2
      <3>4. Len(<<Handshake>>) = 1
        OBVIOUS
      <3> QED BY <1>3, <2>7, <3>3, <3>4
    <2> QED BY <1>1, <1>2, <1>4, <2>1, <2>2, <2>3, <2>4, <2>5, <2>6, <2>7, <2>8,
        LinkStepKeeps
  <1>7. CASE ServerRefuses
    <2>1. /\ link' = [link EXCEPT !.sent = <<>>, !.closed = "permanent"]
          /\ UNCHANGED <<provider, requests, tasks, user, queue, awaited,
                         pipeline, stream, author, told, spent>>
      BY <1>7 DEF ServerRefuses
    <2>2. link' = [link EXCEPT !.sent = <<>>, !.replies = link.replies,
                               !.closed = "permanent"]
      BY <1>1, <2>1 DEF LinkType
    <2>3. verdict' \in [Writes -> {"none", "ok", "refused"}]
      BY <1>1, <1>4, <1>7 DEF ServerRefuses, Sendable
    <2>4. <<>> \in Seq(Sendable) /\ OwnedBy(<<>>, user) /\ "permanent" \in Statuses
      BY DEF OwnedBy, Statuses
    <2>5. "permanent" # "no"
      OBVIOUS
    <2> QED BY <1>1, <1>2, <1>3, <1>5, <2>1, <2>2, <2>3, <2>4, <2>5, LinkStepKeeps
  <1> QED BY <1>6, <1>7 DEF Server

LEMMA LoseKeeps ==
    ASSUME IInv, NEW status \in Statuses, Lose(status) PROVE IInv'
  <1>1. /\ link \in LinkType /\ link.replies \in Seq(Sendable)
        /\ stream.state = "Open" /\ spent \in [switches : Nat, faults : Nat]
        /\ verdict \in [Writes -> {"none", "ok", "refused"}]
        /\ spent' = [spent EXCEPT !.faults = @ + 1]
        /\ UNCHANGED <<provider, requests, tasks, user, queue, awaited, pipeline,
                       stream, author, verdict, told>>
    BY TypeParts DEF IInv, LinkType, Lose
  <1>2. PICK n \in 0 .. Len(link.replies) :
          link' = [link EXCEPT !.sent = <<>>, !.closed = status,
                               !.replies = SubSeq(@, 1, n)]
    BY DEF Lose
  <1> DEFINE replies == SubSeq(link.replies, 1, n)
  <1>3. /\ replies \in Seq(Sendable) /\ Len(replies) = n
        /\ \A i \in 1 .. n : i \in 1 .. Len(link.replies) /\ replies[i] = link.replies[i]
    <2>1. /\ 0 \in Nat /\ n \in Nat /\ 0 + n <= Len(link.replies)
          /\ 0 + 1 = 1 /\ 0 + n = n /\ Len(link.replies) \in Nat
      BY <1>1
    <2>2. /\ SubSeq(link.replies, 0 + 1, 0 + n) \in Seq(Sendable)
          /\ Len(SubSeq(link.replies, 0 + 1, 0 + n)) = n
          /\ \A i \in 1 .. n : SubSeq(link.replies, 0 + 1, 0 + n)[i] = link.replies[0 + i]
      <3> DEFINE q == link.replies
      <3>1. q \in Seq(Sendable) /\ 0 \in Nat /\ n \in Nat /\ 0 + n <= Len(q)
        BY <1>1, <2>1
      <3> HIDE DEF q
      <3>2. /\ SubSeq(q, 0 + 1, 0 + n) \in Seq(Sendable)
            /\ Len(SubSeq(q, 0 + 1, 0 + n)) = n
            /\ \A i \in 1 .. n : SubSeq(q, 0 + 1, 0 + n)[i] = q[0 + i]
        BY <3>1, SliceType
      <3> QED BY <3>2 DEF q
    <2>3. \A i \in 1 .. n : 0 + i = i /\ i \in 1 .. Len(link.replies)
      BY <2>1
    <2> QED BY <2>1, <2>2, <2>3
  <1>4. link' = [link EXCEPT !.sent = <<>>, !.replies = replies, !.closed = status]
    BY <1>1, <1>2 DEF LinkType
  <1> HIDE DEF replies
  <1>5. OwnedBy(replies, user)
    BY <1>3 DEF IInv, AuthorOK, OwnedBy
  <1>6. Len(replies) <= IF stream.handshake THEN Len(pipeline) ELSE 1
    <2>1. Len(link.replies) <= IF stream.handshake THEN Len(pipeline) ELSE 1
      BY DEF IInv, LinkOK
    <2>2. Len(pipeline) \in Nat /\ Len(link.replies) \in Nat /\ n <= Len(link.replies)
      BY <1>1, TypeParts DEF IInv
    <2> QED BY <1>3, <2>1, <2>2
  <1>7. <<>> \in Seq(Sendable) /\ OwnedBy(<<>>, user) /\ status # "no"
    BY DEF OwnedBy, Statuses
  <1>8. spent' \in [switches : Nat, faults : Nat]
    BY <1>1
  <1> QED BY <1>1, <1>3, <1>4, <1>5, <1>6, <1>7, <1>8, LinkStepKeeps

LEMMA RestartKeeps == IInv /\ Restart => IInv'
  <1> SUFFICES ASSUME IInv, Restart PROVE IInv'
    OBVIOUS
  <1>1. /\ user' = provider /\ tasks' = <<>> /\ awaited' = [u \in Users |-> {}]
        /\ FillWritePipeline(queue[provider], <<>>, Closed("Initial"), NoLink, {})
        /\ UNCHANGED <<provider, queue, author, verdict, told>>
        /\ provider \in Users /\ queue[provider] \in Seq(Writes)
    BY TypeParts DEF Restart, IInv
  <1>2. /\ Closed("Initial") \in StreamType /\ Closed("Initial").state # "Open"
        /\ ~Closed("Initial").handshake /\ ~Closed("Initial").idle
    BY ClosedType DEF States
  <1>3. TokenOK(Closed("Initial"), {}, <<>>)
    BY DEF TokenOK
  <1>4. OwnedBy(queue[provider], provider)
    BY <1>1 DEF IInv, QueuesOwned
  <1>5. /\ pipeline' \in Seq(Writes) /\ Len(pipeline') <= kMaxPendingWrites
        /\ stream' \in StreamType /\ requests' \in SUBSET RequestType
        /\ link' \in LinkType
        /\ LinkOK(pipeline, stream, link)'
        /\ TokenOK(stream', requests', <<>>)
        /\ AuthorOK(pipeline, stream, link)'
    BY <1>1, <1>2, <1>3, <1>4, RefillKeepsOK
  <1>6. /\ spent' \in [switches : Nat, faults : Nat] /\ tasks' \in Seq(Tasks)
        /\ awaited' \in [Users -> SUBSET Writes]
    <2>1. /\ spent \in [switches : Nat, faults : Nat]
          /\ spent' = [spent EXCEPT !.faults = @ + 1]
      BY TypeParts DEF IInv, Restart
    <2> QED BY <1>1, <2>1
  <1>7. TypeOK'
    BY <1>1, <1>5, <1>6
    DEF IInv, TypeOK, RequestType, StreamType, LinkType, Sendable
  <1>8. TokenOK(stream, requests, tasks)'
    BY <1>1, <1>5 DEF TokenOK
  <1>9. QueuesOwned'
    BY <1>1, QueuesFrame DEF IInv
  <1>10. TasksOK(tasks, user)'
    BY <1>1 DEF TasksOK, UserAt, NoChangeBefore
  <1> QED BY <1>5, <1>7, <1>8, <1>9, <1>10 DEF IInv

-----------------------------------------------------------------------------
(* The theorems                                                             *)

\* Every action, and a stuttering step.
LEMMA NextIInv == IInv /\ [Next]_vars => IInv'
  <1> SUFFICES ASSUME IInv, [Next]_vars PROVE IInv'
    OBVIOUS
  <1>1. CASE AppWrites
    BY <1>1, AppWritesKeeps
  <1>2. CASE \E u \in Users : AuthChanges(u)
    BY <1>2, AuthChangesKeeps
  <1>3. ASSUME NEW r \in requests, GotToken(r) \/ NoToken(r) PROVE IInv'
    <2>1. CASE GotToken(r)
      <3>1. TokenFor(r) \in {provider, NoUser}
        BY DEF TokenFor
      <3>2. spent' \in [switches : Nat, faults : Nat]
        BY <2>1, TypeParts DEF GotToken, IInv
      <3> QED BY <2>1, <3>1, <3>2, TokenKeeps DEF GotToken
    <2>2. CASE NoToken(r)
      <3>1. /\ spent \in [switches : Nat, faults : Nat]
            /\ spent' = [spent EXCEPT !.faults = @ + 1]
        BY <2>2, TypeParts DEF NoToken, IInv
      <3>2. spent' \in [switches : Nat, faults : Nat]
        BY <3>1
      <3> QED BY <2>2, <3>2, TokenKeeps DEF NoToken
    <2> QED BY <1>3, <2>1, <2>2
  <1>4. CASE Client
    BY <1>4, RunTaskKeeps, BackoffElapsedKeeps, IdleTimeoutKeeps,
       OnStreamReadKeeps, OnStreamClosedKeeps DEF Client
  <1>5. CASE Server
    BY <1>5, ServerKeeps
  <1>6. CASE \E status \in Statuses : Lose(status)
    BY <1>6, LoseKeeps
  <1>7. CASE Restart
    BY <1>7, RestartKeeps
  <1>8. CASE UNCHANGED vars
    <2>1. TypeOK' /\ LinkOK(pipeline, stream, link)'
      BY <1>8 DEF vars, IInv, TypeOK, LinkOK
    <2>2. TokenOK(stream, requests, tasks)'
      BY <1>8 DEF vars, IInv, TokenOK
    <2>3. QueuesOwned' /\ AuthorOK(pipeline, stream, link)'
      BY <1>8 DEF vars, IInv, QueuesOwned, OwnedBy, WrittenBy, AuthorOK
    <2>4. TasksOK(tasks, user)'
      BY <1>8, TasksOKFrame DEF vars, IInv
    <2> QED BY <2>1, <2>2, <2>3, <2>4 DEF IInv
  <1> QED BY <1>1, <1>2, <1>3, <1>4, <1>5, <1>6, <1>7, <1>8 DEF Next

\* The worker queue's tasks, the persisted queues, the stream and the
\* connection keep their types, however long the queues grow; in particular
\* the pipeline never holds more than kMaxPendingWrites writes.
THEOREM TypeCorrect == Spec => []TypeOK
  <1>1. IInv => TypeOK
    BY DEF IInv
  <1> QED BY InitIInv, NextIInv, <1>1, PTL DEF Spec

\* An open connection carries nothing but writes made by the user whose token
\* opened it, who is the sync engine's current user: no write is executed under
\* another account, however user changes, tokens and writes cross each other on
\* the worker queue, and however often the connection fails or the device
\* restarts.
THEOREM OneUserPerConnection == Spec => []ConnectionOfOneUser
  <1>1. IInv => ConnectionOfOneUser
    <2> SUFFICES ASSUME IInv, stream.state = "Open"
        PROVE  /\ link.as = user
               /\ \A w \in Writes :
                    w \in {link.sent[i] : i \in DOMAIN link.sent}
                          \cup {link.replies[i] : i \in DOMAIN link.replies} =>
                        author[w] = link.as
      BY DEF ConnectionOfOneUser
    <2>1. /\ link.as = user
          /\ OwnedBy(link.sent, user) /\ OwnedBy(link.replies, user)
      BY DEF IInv, AuthorOK
    <2>2. /\ DOMAIN link.sent = 1 .. Len(link.sent)
          /\ DOMAIN link.replies = 1 .. Len(link.replies)
      BY TypeParts DEF IInv, LinkType
    <2>3. \A w \in Writes : w # Handshake
      BY BoundsAssumption DEF Writes, Handshake
    <2> QED BY <2>1, <2>2, <2>3 DEF OwnedBy, WrittenBy
  <1> QED BY InitIInv, NextIInv, <1>1, PTL DEF Spec

\* On an open connection the answers still to be read and the requests still to
\* be executed are together the pipeline, write by write and in order: an
\* answer is always taken for the write it answers ("should be correlated to
\* the first write in our write pipeline"), whatever was refused, lost or sent
\* again before.
THEOREM AnswersFindTheirWrite == Spec => []AnswersMatchPipeline
  <1>1. IInv => AnswersMatchPipeline
    BY DEF IInv, LinkOK, AnswersMatchPipeline
  <1> QED BY InitIInv, NextIInv, <1>1, PTL DEF Spec

\* No token reaches a stream that does not wait for it: a token that will be
\* used, or the call that will give it, exists only while the stream is
\* Starting, and only once, whatever was closed and restarted in between; and
\* the idle timer runs only on an open connection.
THEOREM TokensOnlyWhileStarting ==
    Spec => [](/\ stream.idle => stream.state = "Open"
               /\ TokenOK(stream, requests, tasks))
  <1>1. IInv => /\ stream.idle => stream.state = "Open"
                /\ TokenOK(stream, requests, tasks)
    BY DEF IInv, LinkOK
  <1> QED BY InitIInv, NextIInv, <1>1, PTL DEF Spec

-----------------------------------------------------------------------------
(***************************************************************************)
(* The front of a queue: an invariant on top of IInv, its parts of the     *)
(* queues qs, the tasks ts, a pipeline p, a stream s, a connection k and   *)
(* requests rs.                                                            *)
(***************************************************************************)
Ordered(ws) == \A i, j \in 1 .. Len(ws) : i < j => ws[i] < ws[j]

IsWrite(task) == task.kind = "write"

\* Queues are in batch order, writes still on the worker queue come after.
OrderOK(qs, ts) ==
    /\ \A u \in Users : Ordered(qs[u])
    /\ \A i, j \in 1 .. Len(ts) :
        IsWrite(ts[i]) /\ IsWrite(ts[j]) /\ i < j => ts[i].write < ts[j].write
    /\ \A i \in 1 .. Len(ts) : IsWrite(ts[i]) =>
        \A u \in Users : \A n \in 1 .. Len(qs[u]) : qs[u][n] < ts[i].write

Begins(p, q) == Len(p) <= Len(q) /\ \A i \in 1 .. Len(p) : p[i] = q[i]

IsFront(p, q) ==
    /\ Begins(p, q)
    /\ Len(p) = kMaxPendingWrites \/ Len(p) = Len(q)

\* A stream runs for writes: it has some before its handshake, and is idle
\* only after it and with none.
StreamOK(p, s) ==
    /\ s.idle => p = <<>>
    /\ IsStarted(s) /\ ~s.handshake => p # <<>>
    /\ s.state = "Open" /\ p = <<>> => s.idle

TokenComing(s, rs, ts) ==
    s.state = "Starting" => \/ \E r \in rs : r.live
                            \/ \E i \in 1 .. Len(ts) : IsLiveToken(ts[i])

\* The answers on a connection are for the front of the pipeline and true; a
\* connection refused after its handshake was refused for the write behind.
CarriesOK(p, s, k) ==
    /\ k.closed # "no" => \A i \in 1 .. Len(k.sent) : k.sent[i] # Handshake
    /\ ~s.handshake /\ k.closed = "permanent" => k.replies = <<>>
    /\ s.handshake =>
        /\ \A i \in 1 .. Len(k.replies) : k.replies[i] = p[i] /\ verdict[p[i]] = "ok"
        /\ k.closed = "permanent" => /\ Len(k.replies) < Len(p)
                                     /\ verdict[p[Len(k.replies) + 1]] = "refused"

IsWaiting(w, qs, ts) ==
    \/ \E u \in Users : \E i \in 1 .. Len(qs[u]) : qs[u][i] = w
    \/ \E i \in 1 .. Len(ts) : IsWrite(ts[i]) /\ ts[i].write = w

\* A write that was told its answer is never sent again.
Settled(qs, ts) ==
    \A w \in Writes : told[w] # "none" =>
        /\ w \in 1 .. Len(author) /\ told[w] = verdict[w]
        /\ ~IsWaiting(w, qs, ts)

FrontInv ==
    /\ OrderOK(queue, tasks)
    /\ IsFront(pipeline, queue[user])
    /\ pipeline # <<>> => IsStarted(stream)
    /\ StreamOK(pipeline, stream)
    /\ TokenComing(stream, requests, tasks)
    /\ CarriesOK(pipeline, stream, link)
    /\ Settled(queue, tasks)

-----------------------------------------------------------------------------
(* Queues in batch order                                                    *)

\* As many writes are numbered up to the n-th as there are up to its place.
LEMMA UpToOrdered ==
    ASSUME NEW q \in Seq(Writes), Ordered(q), NEW n \in 1 .. Len(q)
    PROVE  UpTo(q, q[n]) = n
  <1>1. \A i \in 1 .. Len(q) : q[i] \in Int /\ (q[i] <= q[n] <=> i <= n)
    <2>1. Len(q) \in Nat /\ \A i \in 1 .. Len(q) : q[i] \in Int
      BY BoundsAssumption DEF Writes
    <2> TAKE i \in 1 .. Len(q)
    <2>2. CASE i < n
      BY <2>1, <2>2 DEF Ordered
    <2>3. CASE i = n
      BY <2>1, <2>3
    <2>4. CASE n < i
      BY <2>1, <2>4 DEF Ordered
    <2> QED BY <2>1, <2>2, <2>3, <2>4
  <1>2. {i \in 1 .. Len(q) : q[i] <= q[n]} = 1 .. n
    BY <1>1
  <1>3. Cardinality(1 .. n) = n
    <2>1. 1 \in Int /\ n \in Int /\ n \in Nat \ {0}
      OBVIOUS
    <2>2. Cardinality(1 .. n) = IF 1 > n THEN 0 ELSE n - 1 + 1
      BY <2>1, FS_Interval
    <2> QED BY <2>1, <2>2
  <1> QED BY <1>2, <1>3 DEF UpTo

LEMMA TailOrdered ==
    ASSUME NEW q \in Seq(Writes), q # <<>>, Ordered(q)
    PROVE  /\ Tail(q) \in Seq(Writes) /\ Ordered(Tail(q))
           /\ Len(Tail(q)) = Len(q) - 1 /\ Head(q) = q[1]
           /\ \A i \in 1 .. Len(Tail(q)) :
                i + 1 \in 1 .. Len(q) /\ Tail(q)[i] = q[i + 1] /\ q[i + 1] # q[1]
  <1>1. /\ Tail(q) \in Seq(Writes) /\ Len(Tail(q)) = Len(q) - 1 /\ Head(q) = q[1]
        /\ Len(q) \in Nat \ {0}
        /\ \A i \in 1 .. Len(Tail(q)) : Tail(q)[i] = q[i + 1]
    BY HeadTailProperties
  <1>2. \A i \in 1 .. Len(Tail(q)) : i + 1 \in 1 .. Len(q) /\ 1 \in 1 .. Len(q)
    BY <1>1
  <1>3. \A i \in 1 .. Len(Tail(q)) : q[1] < q[i + 1]
    BY <1>1, <1>2 DEF Ordered
  <1>4. \A i \in 1 .. Len(q) : q[i] \in Int
    BY BoundsAssumption DEF Writes
  <1>5. Ordered(Tail(q))
    BY <1>1, <1>2 DEF Ordered
  <1> QED BY <1>1, <1>2, <1>3, <1>4, <1>5

\* The first write leaves the rest of the queue as it was.
LEMMA WithoutHead ==
    ASSUME NEW q \in Seq(Writes), q # <<>>, Ordered(q)
    PROVE  Without(q, Head(q)) = Tail(q)
  <1>1. Len(q) \in Nat \ {0} /\ Head(q) = q[1] /\ 1 \in 1 .. Len(q)
    BY HeadTailProperties
  <1>2. UpTo(q, Head(q)) = 1
    BY <1>1, UpToOrdered
  <1>3. Without(q, Head(q)) = SubSeq(q, 1, 1 - 1) \o SubSeq(q, 1 + 1, Len(q))
    BY <1>2 DEF Without
  <1>4. 1 - 1 = 0 /\ 1 + 1 = 2
    OBVIOUS
  <1>5. SubSeq(q, 1, 0) = <<>>
    BY <1>1, SubSeqEmpty
  <1>6. SubSeq(q, 2, Len(q)) = Tail(q)
    BY <1>1
  <1>7. Tail(q) \in Seq(Writes)
    BY HeadTailProperties
  <1> QED BY <1>3, <1>4, <1>5, <1>6, <1>7, ConcatEmptySeq

-----------------------------------------------------------------------------
(* Filling the pipeline                                                     *)

\* Behind its first p writes, Fresh takes from q the next ones there is room for.
LEMMA FreshFront ==
    ASSUME NEW q \in Seq(Writes), NEW p \in Seq(Writes), Ordered(q),
           Begins(p, q), Len(p) <= kMaxPendingWrites
    PROVE  /\ Fresh(q, p) \in Seq(Writes) /\ IsFront(p \o Fresh(q, p), q)
           /\ \A i \in 1 .. Len(Fresh(q, p)) :
                Len(p) + i \in 1 .. Len(q) /\ Fresh(q, p)[i] = q[Len(p) + i]
  <1> DEFINE n == Len(p)
             left == Len(q) - n
             m == IF kMaxPendingWrites - n < left THEN kMaxPendingWrites - n ELSE left
             new == Fresh(q, p)
  <1>1. /\ n \in Nat /\ Len(q) \in Nat /\ kMaxPendingWrites \in Nat
        /\ n <= Len(q) /\ n <= kMaxPendingWrites
    BY BoundsAssumption DEF Begins
  <1>2. (IF p = <<>> THEN 0 ELSE UpTo(q, p[Len(p)])) = n
    <2>1. CASE p = <<>>
      BY <2>1
    <2>2. CASE p # <<>>
      <3>1. n \in 1 .. Len(p) /\ n \in 1 .. Len(q)
        BY <1>1, <2>2
      <3>2. p[n] = q[n]
        BY <3>1 DEF Begins
      <3> QED BY <2>2, <3>1, <3>2, UpToOrdered
    <2> QED BY <2>1, <2>2
  <1>3. m \in Nat /\ n + m <= Len(q) /\ n + m <= kMaxPendingWrites
        /\ (n + m = kMaxPendingWrites \/ n + m = Len(q))
    BY <1>1
  <1>4. new = SubSeq(q, n + 1, n + m)
    BY <1>2 DEF Fresh, Room
  <1> HIDE DEF n, m, new
  <1>5. /\ new \in Seq(Writes) /\ Len(new) = m
        /\ \A i \in 1 .. m : new[i] = q[n + i]
    BY <1>1, <1>3, <1>4, SliceType
  <1>6. \A i \in 1 .. m : n + i \in 1 .. Len(q)
    BY <1>1, <1>3
  <1>7. /\ Len(p \o new) = n + m
        /\ \A i \in 1 .. n + m : (p \o new)[i] = IF i <= n THEN p[i] ELSE new[i - n]
    BY <1>5, ConcatProperties DEF n
  <1>8. ASSUME NEW i \in 1 .. n + m PROVE (p \o new)[i] = q[i]
    <2>1. CASE i <= n
      <3>1. i \in 1 .. Len(p)
        BY <1>1, <1>3, <2>1 DEF n
      <3> QED BY <1>7, <2>1, <3>1 DEF Begins
    <2>2. CASE ~(i <= n)
      <3>1. i - n \in 1 .. m /\ n + (i - n) = i
        BY <1>1, <1>3, <2>2
      <3> QED BY <1>5, <1>7, <2>2, <3>1
    <2> QED BY <2>1, <2>2
  <1>9. IsFront(p \o new, q)
    BY <1>3, <1>7, <1>8 DEF IsFront, Begins
  <1> QED BY <1>5, <1>6, <1>9 DEF n, new

LEMMA EmptyBegins ==
    ASSUME NEW q \in Seq(Writes)
    PROVE  <<>> \in Seq(Writes) /\ Begins(<<>>, q) /\ Len(<<>>) <= kMaxPendingWrites
  BY BoundsAssumption DEF Begins

\* The pipeline is the front of q, as a sequence.
LEMMA FrontIsFresh ==
    ASSUME NEW q \in Seq(Writes), NEW p \in Seq(Writes), Ordered(q),
           Len(p) <= kMaxPendingWrites, IsFront(p, q)
    PROVE  p = Fresh(q, <<>>)
  <1> DEFINE f == Fresh(q, <<>>)
  <1>1. f \in Seq(Writes) /\ IsFront(<<>> \o f, q)
    BY EmptyBegins, FreshFront
  <1>2. /\ IsFront(f, q) /\ Len(f) <= kMaxPendingWrites
    <2>1. <<>> \o f = f
      BY <1>1, ConcatEmptySeq
    <2>2. Len(<<>>) + Len(f) <= kMaxPendingWrites /\ Len(<<>>) = 0 /\ Len(f) \in Nat
      <3> DEFINE e == <<>>
      <3>1. e \in Seq(Writes) /\ Len(e) = 0 /\ Len(e) <= kMaxPendingWrites
        BY EmptyBegins
      <3> HIDE DEF e
      <3>2. Len(e) + Len(Fresh(q, e)) <= kMaxPendingWrites
        BY <3>1, FreshType
      <3> QED BY <1>1, <3>1, <3>2 DEF e
    <2>3. Len(f) <= kMaxPendingWrites
      BY <2>2
    <2> QED BY <1>1, <2>1, <2>3
  <1> HIDE DEF f
  <1>3. Len(p) = Len(f)
    <2>1. /\ Len(p) \in Nat /\ Len(f) \in Nat /\ Len(q) \in Nat
          /\ kMaxPendingWrites \in Nat
      BY <1>1, BoundsAssumption
    <2> QED BY <1>2, <2>1 DEF IsFront, Begins
  <1>4. \A i \in 1 .. Len(p) : p[i] = f[i]
    BY <1>2, <1>3 DEF IsFront, Begins
  <1> QED BY <1>1, <1>3, <1>4, SeqEqual DEF f

LEMMA FillFront ==
    ASSUME NEW q \in Seq(Writes), Ordered(q), NEW p \in Seq(Writes),
           Begins(p, q), Len(p) <= kMaxPendingWrites, NEW s \in StreamType,
           NEW k \in LinkType, NEW rs \in SUBSET RequestType, NEW ts,
           FillWritePipeline(q, p, s, k, rs),
           s.idle => p = <<>> /\ s.state = "Open" /\ s.handshake,
           IsStarted(s) /\ ~s.handshake => p # <<>>,
           TokenComing(s, rs, ts)
    PROVE  /\ IsFront(pipeline', q) /\ (pipeline' # <<>> => IsStarted(stream'))
           /\ StreamOK(pipeline', stream') /\ TokenComing(stream', requests', ts)
  <1> DEFINE new == Fresh(q, p)
             all == p \o new
             sending == new # <<>> /\ s.state = "Open" /\ s.handshake
             t == IF all = <<>> THEN MarkIdle(s) ELSE IF sending THEN Wrote(s) ELSE s
  <1>1. new \in Seq(Writes) /\ IsFront(all, q)
    BY FreshFront
  <1>2. pipeline' = all /\ StartIfNeeded(all, t, rs)
    BY DEF FillWritePipeline
  <1>3. /\ t \in StreamType /\ t.state = s.state /\ t.handshake = s.handshake
    BY DEF MarkIdle, Wrote, StreamType
  <1>4. p = <<>> => (new = <<>> <=> all = <<>>)
    BY <1>1, ConcatEmptySeq
  <1>5. all = <<>> => p = <<>>
    BY <1>1, ConcatProperties
  <1>6. t.idle => all = <<>>
    <2> SUFFICES ASSUME all # <<>>, t.idle PROVE FALSE
      OBVIOUS
    <2>1. CASE sending
      BY <2>1 DEF Wrote, StreamType
    <2>2. CASE ~sending
      <3>1. s.idle
        BY <2>2
      <3> QED BY <1>4, <2>2, <3>1
    <2> QED BY <2>1, <2>2
  <1>7. all = <<>> /\ t.state = "Open" => t.idle
    BY DEF MarkIdle, StreamType
  <1> HIDE DEF new, all, sending, t
  <1>8. IsStarted(t) <=> IsStarted(s)
    BY <1>3 DEF IsStarted
  <1>9. CASE all # <<>> /\ ~IsStarted(t)
    <2>1. Start(t, rs) /\ ~t.idle
      BY <1>2, <1>6, <1>9 DEF StartIfNeeded
    <2>2. \A state \in States : LET u == [t EXCEPT !.state = state] IN
            u.state = state /\ u.idle = t.idle
      BY <1>3 DEF StreamType
    <2>3. /\ "Backoff" \in States /\ "Starting" \in States
          /\ Request.live
      BY DEF States, Request
    <2>4. /\ ~stream'.idle /\ IsStarted(stream')
          /\ \/ stream'.state = "Backoff"
             \/ stream'.state = "Starting" /\ Request \in requests'
      BY <2>1, <2>2, <2>3 DEF Start, IsStarted
    <2>5. TokenComing(stream', requests', ts)
      BY <2>3, <2>4 DEF TokenComing
    <2> QED BY <1>1, <1>2, <1>9, <2>4, <2>5 DEF StreamOK
  <1>10. CASE ~(all # <<>> /\ ~IsStarted(t))
    <2>1. stream' = t /\ requests' = rs
      BY <1>2, <1>10 DEF StartIfNeeded
    <2>2. TokenComing(stream', requests', ts)
      BY <1>3, <2>1 DEF TokenComing
    <2>3. StreamOK(all, t)
      BY <1>3, <1>5, <1>6, <1>7, <1>8 DEF StreamOK
    <2> QED BY <1>1, <1>2, <1>10, <2>1, <2>2, <2>3
  <1> QED BY <1>9, <1>10

LEMMA CarriedCarries ==
    ASSUME NEW q \in Seq(Writes), NEW p \in Seq(Writes), NEW s \in StreamType,
           NEW k \in LinkType, NEW rs, Continued(s, rs), Carried(q, p, s, k),
           LinkOK(p, s, k), CarriesOK(p, s, k)
    PROVE  /\ CarriesOK(pipeline', stream', link')
           /\ stream'.handshake = s.handshake
           /\ link'.replies = k.replies /\ link'.closed = k.closed
  <1>1. PICK new \in Seq(Writes) :
          /\ pipeline' = p \o new
          /\ link' = IF s.state = "Open" /\ s.handshake
                     THEN [k EXCEPT !.sent = @ \o new] ELSE k
    BY DEF Carried
  <1>2. stream'.handshake = s.handshake
    BY DEF Continued
  <1>3. k.sent \in Seq(Sendable) /\ k.replies \in Seq(Sendable) /\ new \in Seq(Sendable)
    BY DEF LinkType, Sendable
  <1>4. link'.replies = k.replies /\ link'.closed = k.closed
        /\ (link'.sent = k.sent \/ link'.sent = k.sent \o new)
    BY <1>1 DEF LinkType
  <1>5. ASSUME k.closed # "no", NEW i \in 1 .. Len(link'.sent)
        PROVE  link'.sent[i] # Handshake
    <2>1. \A j \in 1 .. Len(k.sent) : k.sent[j] # Handshake
      BY <1>5 DEF CarriesOK
    <2>2. \A j \in 1 .. Len(new) : new[j] # Handshake
      BY BoundsAssumption DEF Writes, Handshake
    <2>3. CASE link'.sent = k.sent
      BY <2>1, <2>3
    <2>4. CASE link'.sent = k.sent \o new
      <3>1. /\ Len(k.sent \o new) = Len(k.sent) + Len(new)
            /\ Len(k.sent) \in Nat /\ Len(new) \in Nat
            /\ (k.sent \o new)[i] = IF i <= Len(k.sent) THEN k.sent[i]
                                    ELSE new[i - Len(k.sent)]
        BY <1>3, <2>4, ConcatProperties
      <3>2. i \in 1 .. Len(k.sent) \/ i - Len(k.sent) \in 1 .. Len(new)
        BY <2>4, <3>1
      <3> QED BY <2>1, <2>2, <2>4, <3>1, <3>2
    <2> QED BY <1>4, <2>3, <2>4
  <1>6. ASSUME s.handshake
        PROVE  /\ \A i \in 1 .. Len(k.replies) :
                    k.replies[i] = pipeline'[i] /\ verdict[pipeline'[i]] = "ok"
               /\ k.closed = "permanent" =>
                    /\ Len(k.replies) < Len(pipeline')
                    /\ verdict[pipeline'[Len(k.replies) + 1]] = "refused"
    <2>1. /\ Len(p) \in Nat /\ Len(new) \in Nat /\ Len(k.replies) \in Nat
          /\ Len(p \o new) = Len(p) + Len(new)
          /\ \A i \in 1 .. Len(p) : (p \o new)[i] = p[i]
      BY <1>3, ConcatProperties
    <2>2. /\ Len(k.replies) <= Len(p)
          /\ \A i \in 1 .. Len(k.replies) : k.replies[i] = p[i] /\ verdict[p[i]] = "ok"
          /\ k.closed = "permanent" => /\ Len(k.replies) < Len(p)
                                       /\ verdict[p[Len(k.replies) + 1]] = "refused"
      BY <1>6 DEF LinkOK, CarriesOK
    <2>3. \A i \in 1 .. Len(k.replies) : i \in 1 .. Len(p)
      BY <2>1, <2>2
    <2>4. Len(k.replies) < Len(p) => Len(k.replies) + 1 \in 1 .. Len(p)
      BY <2>1
    <2> QED BY <1>1, <2>1, <2>2, <2>3, <2>4
  <1> QED BY <1>2, <1>4, <1>5, <1>6 DEF CarriesOK

-----------------------------------------------------------------------------
(* The writes that wait, and the order they wait in                         *)

LEMMA OrderAppend ==
    ASSUME NEW qs, NEW ts \in Seq(Tasks), OrderOK(qs, ts), NEW t \in Tasks,
           IsWrite(t) =>
            /\ \A i \in 1 .. Len(ts) : IsWrite(ts[i]) => ts[i].write < t.write
            /\ \A u \in Users : \A n \in 1 .. Len(qs[u]) : qs[u][n] < t.write
    PROVE  /\ OrderOK(qs, Append(ts, t))
           /\ \A w : IsWaiting(w, qs, Append(ts, t)) =>
                IsWaiting(w, qs, ts) \/ (IsWrite(t) /\ w = t.write)
  <1> DEFINE a == Append(ts, t)
  <1>1. /\ Len(a) = Len(ts) + 1 /\ Len(ts) \in Nat /\ a[Len(ts) + 1] = t
        /\ \A i \in 1 .. Len(ts) : a[i] = ts[i]
    BY AppendProperties
  <1>2. \A i \in 1 .. Len(a) : i \in 1 .. Len(ts) \/ i = Len(ts) + 1
    BY <1>1
  <1> HIDE DEF a
  <1>3. ASSUME NEW i \in 1 .. Len(a), NEW j \in 1 .. Len(a),
               IsWrite(a[i]), IsWrite(a[j]), i < j
        PROVE  a[i].write < a[j].write
    <2>1. i \in 1 .. Len(ts)
      BY <1>1, <1>3
    <2>2. CASE j \in 1 .. Len(ts)
      BY <1>1, <1>3, <2>1, <2>2 DEF OrderOK
    <2>3. CASE j = Len(ts) + 1
      BY <1>1, <1>3, <2>1, <2>3
    <2> QED BY <1>2, <2>2, <2>3
  <1>4. ASSUME NEW i \in 1 .. Len(a), IsWrite(a[i]), NEW u \in Users,
               NEW n \in 1 .. Len(qs[u])
        PROVE  qs[u][n] < a[i].write
    <2>1. CASE i \in 1 .. Len(ts)
      BY <1>1, <1>4, <2>1 DEF OrderOK
    <2>2. CASE i = Len(ts) + 1
      BY <1>1, <1>4, <2>2
    <2> QED BY <1>2, <2>1, <2>2
  <1>5. OrderOK(qs, a)
    BY <1>3, <1>4 DEF OrderOK
  <1>6. ASSUME NEW w, IsWaiting(w, qs, a)
        PROVE  IsWaiting(w, qs, ts) \/ (IsWrite(t) /\ w = t.write)
    <2>1. ASSUME NEW i \in 1 .. Len(a), IsWrite(a[i]), a[i].write = w
          PROVE  IsWaiting(w, qs, ts) \/ (IsWrite(t) /\ w = t.write)
      <3>1. CASE i \in 1 .. Len(ts)
        <4>1. IsWrite(ts[i]) /\ ts[i].write = w
          BY <1>1, <2>1, <3>1
        <4> QED BY <3>1, <4>1 DEF IsWaiting
      <3>2. CASE i = Len(ts) + 1
        BY <1>1, <2>1, <3>2
      <3> QED BY <1>2, <3>1, <3>2
    <2>2. CASE \E u \in Users : \E i \in 1 .. Len(qs[u]) : qs[u][i] = w
      BY <2>2 DEF IsWaiting
    <2>3. CASE \E i \in 1 .. Len(a) : IsWrite(a[i]) /\ a[i].write = w
      BY <2>1, <2>3
    <2> QED BY <1>6, <2>2, <2>3 DEF IsWaiting
  <1> QED BY <1>5, <1>6 DEF a

LEMMA OrderTail ==
    ASSUME NEW qs, NEW ts \in Seq(Tasks), ts # <<>>, OrderOK(qs, ts)
    PROVE  /\ OrderOK(qs, Tail(ts))
           /\ \A w : IsWaiting(w, qs, Tail(ts)) => IsWaiting(w, qs, ts)
  <1> DEFINE t == Tail(ts)
  <1>1. \A i \in 1 .. Len(t) : i + 1 \in 1 .. Len(ts) /\ t[i] = ts[i + 1]
    BY HeadTailProperties
  <1>2. Len(t) \in Nat
    BY HeadTailProperties
  <1> HIDE DEF t
  <1>3. \A i, j \in 1 .. Len(t) : i < j => i + 1 < j + 1
    BY <1>2
  <1>4. OrderOK(qs, t)
    BY <1>1, <1>3 DEF OrderOK
  <1>5. \A w : IsWaiting(w, qs, t) => IsWaiting(w, qs, ts)
    BY <1>1 DEF IsWaiting
  <1> QED BY <1>4, <1>5 DEF t

LEMMA OrderVoid ==
    ASSUME NEW qs, NEW ts \in Seq(Tasks), OrderOK(qs, ts)
    PROVE  /\ OrderOK(qs, VoidTasks(ts))
           /\ \A w : IsWaiting(w, qs, VoidTasks(ts)) => IsWaiting(w, qs, ts)
  <1> DEFINE v == VoidTasks(ts)
  <1>1. /\ Len(v) = Len(ts)
        /\ \A i \in 1 .. Len(ts) : IsWrite(v[i]) => IsWrite(ts[i]) /\ v[i] = ts[i]
    BY VoidTasksType DEF IsWrite
  <1> HIDE DEF v
  <1>2. OrderOK(qs, v)
    BY <1>1 DEF OrderOK
  <1>3. \A w : IsWaiting(w, qs, v) => IsWaiting(w, qs, ts)
    BY <1>1 DEF IsWaiting
  <1> QED BY <1>2, <1>3 DEF v

\* The first task's write is queued.
LEMMA OrderEnqueue ==
    ASSUME NEW qs \in [Users -> Seq(Writes)], NEW u \in Users,
           NEW ts \in Seq(Tasks), ts # <<>>, IsWrite(Head(ts)), OrderOK(qs, ts)
    PROVE  LET rs == [qs EXCEPT ![u] = Append(@, Head(ts).write)] IN
           /\ OrderOK(rs, Tail(ts))
           /\ \A w : IsWaiting(w, rs, Tail(ts)) => IsWaiting(w, qs, ts)
  <1> DEFINE x == Head(ts).write
             rs == [qs EXCEPT ![u] = Append(@, x)]
             t == Tail(ts)
  <1>1. /\ Len(ts) \in Nat \ {0} /\ Head(ts) = ts[1] /\ 1 \in 1 .. Len(ts)
        /\ Head(ts) \in Tasks /\ Len(t) \in Nat
        /\ \A i \in 1 .. Len(t) : i + 1 \in 1 .. Len(ts) /\ t[i] = ts[i + 1] /\ 1 < i + 1
    BY HeadTailProperties
  <1>2. x \in Writes
    BY <1>1, TaskFields DEF IsWrite
  <1>3. \A v \in Users : v # u => rs[v] = qs[v]
    OBVIOUS
  <1>4. /\ rs[u] \in Seq(Writes) /\ qs[u] \in Seq(Writes)
        /\ Len(rs[u]) = Len(qs[u]) + 1 /\ Len(qs[u]) \in Nat
        /\ rs[u][Len(qs[u]) + 1] = x
        /\ \A i \in 1 .. Len(qs[u]) : rs[u][i] = qs[u][i]
    BY <1>2, AppendProperties
  <1>5. \A i \in 1 .. Len(rs[u]) : i \in 1 .. Len(qs[u]) \/ i = Len(qs[u]) + 1
    BY <1>4
  <1>6. \A v \in Users : \A n \in 1 .. Len(qs[v]) : qs[v][n] < x
    BY <1>1 DEF OrderOK
  <1>7. OrderOK(qs, t)
    BY OrderTail
  <1>8. \A i \in 1 .. Len(t) : IsWrite(t[i]) => x < t[i].write
    BY <1>1 DEF OrderOK
  <1> HIDE DEF x, rs, t
  <1>9. Ordered(rs[u])
    <2> SUFFICES ASSUME NEW i \in 1 .. Len(rs[u]), NEW j \in 1 .. Len(rs[u]), i < j
                 PROVE  rs[u][i] < rs[u][j]
      BY DEF Ordered
    <2>1. i \in 1 .. Len(qs[u])
      BY <1>4
    <2>2. CASE j \in 1 .. Len(qs[u])
      BY <1>4, <1>7, <2>1, <2>2 DEF OrderOK, Ordered
    <2>3. CASE j = Len(qs[u]) + 1
      BY <1>4, <1>6, <2>1, <2>3
    <2> QED BY <1>5, <2>2, <2>3
  <1>10. ASSUME NEW i \in 1 .. Len(t), IsWrite(t[i]), NEW v \in Users,
                NEW n \in 1 .. Len(rs[v])
         PROVE  rs[v][n] < t[i].write
    <2>1. CASE v # u
      BY <1>3, <1>7, <1>10, <2>1 DEF OrderOK
    <2>2. CASE v = u /\ n \in 1 .. Len(qs[u])
      BY <1>4, <1>7, <1>10, <2>2 DEF OrderOK
    <2>3. CASE v = u /\ n = Len(qs[u]) + 1
      BY <1>4, <1>8, <1>10, <2>3
    <2> QED BY <1>5, <2>1, <2>2, <2>3
  <1>11. OrderOK(rs, t)
    BY <1>3, <1>7, <1>9, <1>10 DEF OrderOK
  <1>12. ASSUME NEW w, IsWaiting(w, rs, t) PROVE IsWaiting(w, qs, ts)
    <2>1. IsWaiting(x, qs, ts)
      BY <1>1 DEF IsWaiting, x
    <2>2. ASSUME NEW v \in Users, NEW n \in 1 .. Len(rs[v]), rs[v][n] = w
          PROVE  IsWaiting(w, qs, ts)
      <3>1. CASE v # u
        BY <1>3, <2>2, <3>1 DEF IsWaiting
      <3>2. CASE v = u /\ n \in 1 .. Len(qs[u])
        BY <1>4, <2>2, <3>2 DEF IsWaiting
      <3>3. CASE v = u /\ n = Len(qs[u]) + 1
        BY <1>4, <2>1, <2>2, <3>3
      <3> QED BY <1>5, <3>1, <3>2, <3>3
    <2>3. ASSUME NEW i \in 1 .. Len(t), IsWrite(t[i]), t[i].write = w
          PROVE  IsWaiting(w, qs, ts)
      BY <1>1, <2>3 DEF IsWaiting
    <2> QED BY <1>12, <2>2, <2>3 DEF IsWaiting
  <1> QED BY <1>11, <1>12 DEF x, rs, t

\* The first write of a queue is resolved and waits no longer.
LEMMA OrderResolve ==
    ASSUME NEW qs \in [Users -> Seq(Writes)], NEW u \in Users, qs[u] # <<>>,
           NEW ts \in Seq(Tasks), OrderOK(qs, ts),
           \A v \in Users \ {u} : \A n \in 1 .. Len(qs[v]) : qs[v][n] # Head(qs[u])
    PROVE  LET rs == [qs EXCEPT ![u] = Tail(@)] IN
           /\ OrderOK(rs, ts)
           /\ \A w : IsWaiting(w, rs, ts) => IsWaiting(w, qs, ts) /\ w # Head(qs[u])
           /\ IsWaiting(Head(qs[u]), qs, ts)
  <1> DEFINE rs == [qs EXCEPT ![u] = Tail(@)]
             x == Head(qs[u])
  <1>1. \A v \in Users : v # u => rs[v] = qs[v]
    OBVIOUS
  <1>2. rs[u] = Tail(qs[u]) /\ qs[u] \in Seq(Writes)
    OBVIOUS
  <1>3. Ordered(qs[u])
    BY DEF OrderOK
  <1>4. /\ Ordered(rs[u]) /\ x = qs[u][1]
        /\ \A n \in 1 .. Len(rs[u]) :
            n + 1 \in 1 .. Len(qs[u]) /\ rs[u][n] = qs[u][n + 1] /\ rs[u][n] # x
    BY <1>2, <1>3, TailOrdered
  <1>5. 1 \in 1 .. Len(qs[u])
    BY <1>2
  <1>6. \A v \in Users \ {u} : \A n \in 1 .. Len(rs[v]) : rs[v][n] = qs[v][n] /\ rs[v][n] # x
    BY <1>1
  <1> HIDE DEF rs, x
  <1>7. ASSUME NEW v \in Users, NEW n \in 1 .. Len(rs[v])
        PROVE  rs[v][n] # x /\ \E m \in 1 .. Len(qs[v]) : rs[v][n] = qs[v][m]
    <2>1. CASE v = u
      BY <1>4, <2>1
    <2>2. CASE v # u
      BY <1>1, <1>6, <2>2
    <2> QED BY <2>1, <2>2
  <1>8. \A i \in 1 .. Len(ts) : IsWrite(ts[i]) => x < ts[i].write
    BY <1>4, <1>5 DEF OrderOK
  <1>9. OrderOK(rs, ts)
    <2>1. \A v \in Users : Ordered(rs[v])
      BY <1>1, <1>4 DEF OrderOK
    <2>2. ASSUME NEW i \in 1 .. Len(ts), IsWrite(ts[i]), NEW v \in Users,
                 NEW n \in 1 .. Len(rs[v])
          PROVE  rs[v][n] < ts[i].write
      BY <1>7, <2>2 DEF OrderOK
    <2> QED BY <2>1, <2>2 DEF OrderOK
  <1>10. x \in Int
    BY <1>2, <1>4, <1>5, BoundsAssumption DEF Writes
  <1>11. \A i \in 1 .. Len(ts) : IsWrite(ts[i]) => ts[i].write # x
    <2> TAKE i \in 1 .. Len(ts)
    <2>1. ts[i] \in Tasks
      OBVIOUS
    <2>2. IsWrite(ts[i]) => ts[i].write \in Int
      BY <2>1, TaskFields, BoundsAssumption DEF IsWrite, Writes
    <2> QED BY <1>8, <1>10, <2>2
  <1>12. ASSUME NEW w, IsWaiting(w, rs, ts)
         PROVE  IsWaiting(w, qs, ts) /\ w # x
    <2>1. CASE \E v \in Users : \E n \in 1 .. Len(rs[v]) : rs[v][n] = w
      <3>0. PICK v \in Users : \E n \in 1 .. Len(rs[v]) : rs[v][n] = w
        BY <2>1
      <3>1. PICK n \in 1 .. Len(rs[v]) : rs[v][n] = w
        BY <3>0
      <3>2. w # x /\ \E m \in 1 .. Len(qs[v]) : w = qs[v][m]
        <4>1. rs[v][n] # x /\ \E m \in 1 .. Len(qs[v]) : rs[v][n] = qs[v][m]
          BY <1>7, Zenon
        <4> QED BY <3>1, <4>1
      <3> QED BY <3>2 DEF IsWaiting
    <2>2. CASE \E i \in 1 .. Len(ts) : IsWrite(ts[i]) /\ ts[i].write = w
      BY <1>11, <2>2 DEF IsWaiting
    <2> QED BY <1>12, <2>1, <2>2 DEF IsWaiting
  <1>13. IsWaiting(x, qs, ts)
    BY <1>4, <1>5 DEF IsWaiting
  <1> QED BY <1>9, <1>12, <1>13 DEF rs, x

\* No answer is lost or changed by a step that resolves nothing.
LEMMA SettledFrame ==
    ASSUME Settled(queue, tasks), author \in Seq(Users), author' \in Seq(Users),
           Len(author) <= Len(author'), UNCHANGED <<told, verdict>>,
           \A w : IsWaiting(w, queue', tasks') =>
                IsWaiting(w, queue, tasks) \/ w = Len(author) + 1
    PROVE  Settled(queue, tasks)'
  <1>1. ASSUME NEW w \in Writes, told[w] # "none"
        PROVE  w \in 1 .. Len(author') /\ told[w] = verdict[w]
               /\ ~IsWaiting(w, queue', tasks')
    <2>1. /\ w \in 1 .. Len(author) /\ told[w] = verdict[w]
          /\ ~IsWaiting(w, queue, tasks)
      BY <1>1 DEF Settled
    <2>2. Len(author) \in Nat /\ Len(author') \in Nat
      OBVIOUS
    <2> QED BY <2>1, <2>2
  <1> QED BY <1>1 DEF Settled, IsWaiting

-----------------------------------------------------------------------------
(* Every step keeps the invariant                                           *)

\* Batches that were made by different users are different.
LEMMA QueuesDisjoint ==
    ASSUME IInv, NEW u \in Users, NEW n \in 1 .. Len(queue[u])
    PROVE  /\ queue[u] \in Seq(Writes) /\ queue[u][n] \in Writes
           /\ queue[u][n] \in 1 .. Len(author) /\ author[queue[u][n]] = u
  <1>1. queue[u] \in Seq(Writes)
    BY TypeParts DEF IInv
  <1>2. queue[u][n] \in Writes
    BY <1>1
  <1>3. queue[u][n] # Handshake
    BY <1>2, BoundsAssumption DEF Writes, Handshake
  <1>4. WrittenBy(queue[u][n], u)
    BY <1>3 DEF IInv, QueuesOwned, OwnedBy
  <1> QED BY <1>1, <1>2, <1>4 DEF WrittenBy

\* Steps of the application and the accounts, and tasks that change nothing.
LEMMA QuietStep ==
    ASSUME FrontInv, OrderOK(queue', tasks'), TokenComing(stream', requests', tasks'),
           Settled(queue, tasks)',
           UNCHANGED <<user, queue, pipeline, stream, link, verdict>>
    PROVE  FrontInv'
  BY DEF FrontInv, OrderOK, TokenComing, CarriesOK, StreamOK, IsFront, Begins,
     Ordered, IsStarted

LEMMA AppWritesFront == IInv /\ FrontInv /\ AppWrites => FrontInv'
  <1> SUFFICES ASSUME IInv, FrontInv, AppWrites PROVE FrontInv'
    OBVIOUS
  <1> DEFINE n == Len(author) + 1
             t == WriteTask(n)
  <1>1. /\ author \in Seq(Users) /\ Len(author) \in Nat /\ provider \in Users
        /\ Len(author) < MaxWrites /\ tasks \in Seq(Tasks) /\ author' = Append(author, provider)
        /\ tasks' = Append(tasks, t)
        /\ UNCHANGED <<provider, requests, user, queue, awaited, pipeline, stream,
                       link, verdict, told, spent>>
    BY TypeParts DEF AppWrites, IInv
  <1>2. n \in Writes /\ Len(author') = n /\ author' \in Seq(Users)
    BY <1>1, BoundsAssumption DEF Writes
  <1>3. t \in Tasks /\ t.write = n
    BY <1>2, TasksType DEF WriteTask
  <1>4. \A i \in 1 .. Len(tasks) : IsWrite(tasks[i]) => tasks[i].write < n
    <2>1. \A i \in 1 .. Len(tasks) : IsWrite(tasks[i]) =>
            tasks[i].write \in 1 .. Len(author)
      BY DEF IInv, TasksOK, IsWrite
    <2> QED BY <1>1, <2>1
  <1>5. \A u \in Users : \A i \in 1 .. Len(queue[u]) : queue[u][i] < n
    BY <1>1, QueuesDisjoint
  <1> HIDE DEF n, t
  <1>6. /\ OrderOK(queue, Append(tasks, t))
        /\ \A w : IsWaiting(w, queue, Append(tasks, t)) =>
             IsWaiting(w, queue, tasks) \/ (IsWrite(t) /\ w = n)
    BY <1>1, <1>3, <1>4, <1>5, OrderAppend DEF FrontInv
  <1>7. OrderOK(queue', tasks')
    BY <1>1, <1>6 DEF OrderOK
  <1>8. TokenComing(stream', requests', tasks')
    <2>1. \A i \in 1 .. Len(tasks) : i \in 1 .. Len(tasks') /\ tasks'[i] = tasks[i]
      BY <1>1
    <2> QED BY <1>1, <2>1 DEF FrontInv, TokenComing
  <1>9. Settled(queue, tasks)'
    <2>1. \A w : IsWaiting(w, queue', tasks') =>
            IsWaiting(w, queue, tasks) \/ w = Len(author) + 1
      BY <1>1, <1>6 DEF n
    <2>2. Len(author) <= Len(author')
      BY <1>1, <1>2 DEF n
    <2> QED BY <1>1, <1>2, <2>1, <2>2, SettledFrame DEF FrontInv
  <1> QED BY <1>1, <1>7, <1>8, <1>9, QuietStep

LEMMA AuthChangesFront ==
    ASSUME IInv, FrontInv, NEW u \in Users, AuthChanges(u) PROVE FrontInv'
  <1> DEFINE t == UserTask(u)
  <1>1. /\ t \in Tasks /\ ~IsWrite(t) /\ tasks \in Seq(Tasks)
        /\ author \in Seq(Users) /\ Len(author) \in Nat
        /\ requests \in SUBSET RequestType
        /\ requests' = {[r EXCEPT !.fresh = FALSE] : r \in requests}
        /\ tasks' = Append(tasks, t)
        /\ UNCHANGED <<user, queue, pipeline, stream, link, author, verdict, told>>
    BY TasksType, TypeParts DEF UserTask, IsWrite, IInv, AuthChanges
  <1> HIDE DEF t
  <1>2. /\ OrderOK(queue, Append(tasks, t))
        /\ \A w : IsWaiting(w, queue, Append(tasks, t)) => IsWaiting(w, queue, tasks)
    BY <1>1, OrderAppend DEF FrontInv
  <1>3. OrderOK(queue', tasks') /\ Settled(queue, tasks)'
    BY <1>1, <1>2, SettledFrame DEF FrontInv
  <1>4. TokenComing(stream', requests', tasks')
    <2>1. \A i \in 1 .. Len(tasks) : i \in 1 .. Len(tasks') /\ tasks'[i] = tasks[i]
      BY <1>1
    <2>2. \A r \in requests : [r EXCEPT !.fresh = FALSE] \in requests'
                              /\ [r EXCEPT !.fresh = FALSE].live = r.live
      BY <1>1 DEF RequestType
    <2> QED BY <1>1, <2>1, <2>2 DEF FrontInv, TokenComing
  <1> QED BY <1>1, <1>3, <1>4, QuietStep

\* Both answers to a getToken call: what was on its way still is.
LEMMA TokenFront ==
    ASSUME IInv, FrontInv, NEW r \in requests, NEW u \in {provider, NoUser},
           tasks' = Append(tasks, TokenTask(u, r.live)),
           requests' = requests \ {r},
           UNCHANGED <<user, queue, pipeline, stream, link, author, verdict, told>>
    PROVE  FrontInv'
  <1> DEFINE t == TokenTask(u, r.live)
  <1>1. /\ tasks \in Seq(Tasks) /\ requests \in SUBSET RequestType
        /\ provider \in Users /\ r.live \in BOOLEAN
        /\ author \in Seq(Users) /\ Len(author) \in Nat
    BY TypeParts DEF IInv, RequestType
  <1>2. /\ t \in Tasks /\ ~IsWrite(t) /\ (r.live => IsLiveToken(t))
    BY <1>1, TasksType DEF TokenTask, IsLiveToken, IsWrite
  <1>3. tasks' = Append(tasks, t)
    OBVIOUS
  <1> HIDE DEF t
  <1>4. /\ OrderOK(queue, Append(tasks, t))
        /\ \A w : IsWaiting(w, queue, Append(tasks, t)) => IsWaiting(w, queue, tasks)
    BY <1>1, <1>2, OrderAppend DEF FrontInv
  <1>5. OrderOK(queue', tasks') /\ Settled(queue, tasks)'
    BY <1>1, <1>3, <1>4, SettledFrame DEF FrontInv
  <1>6. TokenComing(stream', requests', tasks')
    <2>1. /\ \A i \in 1 .. Len(tasks) : i \in 1 .. Len(tasks') /\ tasks'[i] = tasks[i]
          /\ Len(tasks) + 1 \in 1 .. Len(tasks') /\ tasks'[Len(tasks) + 1] = t
      BY <1>1, <1>3
    <2> SUFFICES ASSUME stream.state = "Starting"
                 PROVE  \/ \E s \in requests' : s.live
                        \/ \E i \in 1 .. Len(tasks') : IsLiveToken(tasks'[i])
      BY DEF TokenComing
    <2>2. CASE \E s \in requests : s.live
      <3>1. PICK s \in requests : s.live
        BY <2>2
      <3>2. CASE s = r
        <4>1. IsLiveToken(tasks'[Len(tasks) + 1])
          BY <1>2, <2>1, <3>1, <3>2
        <4> QED BY <2>1, <4>1
      <3>3. CASE s # r
        BY <3>1, <3>3
      <3> QED BY <3>2, <3>3
    <2>3. CASE \E i \in 1 .. Len(tasks) : IsLiveToken(tasks[i])
      BY <2>1, <2>3
    <2> QED BY <2>2, <2>3 DEF FrontInv, TokenComing
  <1> QED BY <1>5, <1>6, QuietStep

\* What the actions that go on as FillWritePipeline does leave behind.
LEMMA FillStep ==
    ASSUME NEW q \in Seq(Writes), Ordered(q), NEW p \in Seq(Writes),
           Begins(p, q), Len(p) <= kMaxPendingWrites, NEW s \in StreamType,
           NEW k \in LinkType, NEW rs \in SUBSET RequestType, NEW ts,
           FillWritePipeline(q, p, s, k, rs),
           s.idle => p = <<>> /\ s.state = "Open" /\ s.handshake,
           IsStarted(s) /\ ~s.handshake => p # <<>>,
           TokenComing(s, rs, ts), LinkOK(p, s, k), CarriesOK(p, s, k)
    PROVE  /\ IsFront(pipeline', q) /\ (pipeline' # <<>> => IsStarted(stream'))
           /\ StreamOK(pipeline', stream') /\ TokenComing(stream', requests', ts)
           /\ CarriesOK(pipeline', stream', link')
           /\ stream'.handshake = s.handshake
           /\ link'.replies = k.replies /\ link'.closed = k.closed
  <1>1. Continued(s, rs) /\ Carried(q, p, s, k)
    BY FillContinues
  <1>2. /\ CarriesOK(pipeline', stream', link')
        /\ stream'.handshake = s.handshake
        /\ link'.replies = k.replies /\ link'.closed = k.closed
    BY <1>1, CarriedCarries
  <1> QED BY <1>2, FillFront

\* An empty pipeline filled for a stream that does not run.
LEMMA RefillStep ==
    ASSUME NEW q \in Seq(Writes), Ordered(q), NEW s \in StreamType,
           ~IsStarted(s), ~s.handshake, ~s.idle,
           NEW rs \in SUBSET RequestType, NEW ts,
           FillWritePipeline(q, <<>>, s, NoLink, rs)
    PROVE  /\ IsFront(pipeline', q) /\ (pipeline' # <<>> => IsStarted(stream'))
           /\ StreamOK(pipeline', stream') /\ TokenComing(stream', requests', ts)
           /\ CarriesOK(pipeline', stream', link') /\ ~stream'.handshake
  <1> DEFINE p == <<>>
  <1>1. /\ p \in Seq(Writes) /\ Begins(p, q) /\ Len(p) <= kMaxPendingWrites
        /\ NoLink \in LinkType /\ LinkOK(p, s, NoLink)
    BY EmptyBegins, NoLinkType, ClosedLinkOK DEF IsStarted
  <1>2. CarriesOK(p, s, NoLink) /\ TokenComing(s, rs, ts)
    BY NoLinkType DEF CarriesOK, TokenComing, IsStarted
  <1>3. FillWritePipeline(q, p, s, NoLink, rs)
    OBVIOUS
  <1> HIDE DEF p
  <1> QED BY <1>1, <1>2, <1>3, FillStep

\* The invariant follows from its parts, which the lemmas state of the primed
\* variables.
LEMMA FrontParts ==
    ASSUME OrderOK(queue', tasks'), IsFront(pipeline', queue'[user']),
           pipeline' # <<>> => IsStarted(stream'),
           StreamOK(pipeline', stream'), TokenComing(stream', requests', tasks'),
           CarriesOK(pipeline', stream', link'), UNCHANGED verdict,
           Settled(queue, tasks)'
    PROVE  FrontInv'
  BY DEF FrontInv, OrderOK, TokenComing, CarriesOK, StreamOK, IsFront, Begins,
     Ordered, IsStarted

\* The first write of the pipeline is the first of the queue; once it is
\* resolved the rest of the pipeline begins the rest of the queue.
LEMMA ResolveFront ==
    ASSUME IInv, FrontInv, pipeline # <<>>, NEW answer \in {"ok", "refused"},
           Resolve(Head(pipeline), answer), verdict[Head(pipeline)] = answer,
           UNCHANGED <<author, verdict>>,
           NEW ts \in Seq(Tasks), OrderOK(queue, ts),
           \A w : IsWaiting(w, queue, ts) => IsWaiting(w, queue, tasks),
           \A w : IsWaiting(w, queue', tasks') => IsWaiting(w, queue', ts)
    PROVE  /\ queue' = [queue EXCEPT ![user] = Tail(@)] /\ queue[user] # <<>>
           /\ queue'[user] \in Seq(Writes) /\ Ordered(queue'[user])
           /\ OrderOK(queue', ts) /\ Begins(Tail(pipeline), queue'[user])
           /\ Settled(queue, tasks)'
  <1> DEFINE x == Head(pipeline)
             q == queue[user]
  <1>1. /\ user \in Users /\ queue \in [Users -> Seq(Writes)] /\ q \in Seq(Writes)
        /\ pipeline \in Seq(Writes) /\ told \in [Writes -> {"none", "ok", "refused"}]
    BY TypeParts DEF IInv
  <1>2. /\ Len(pipeline) \in Nat \ {0} /\ Head(pipeline) = pipeline[1]
        /\ 1 \in 1 .. Len(pipeline) /\ Head(pipeline) \in Writes
        /\ Len(Tail(pipeline)) = Len(pipeline) - 1
        /\ \A i \in 1 .. Len(Tail(pipeline)) : Tail(pipeline)[i] = pipeline[i + 1]
    BY <1>1, HeadTailProperties
  <1>3. /\ Len(pipeline) <= Len(q) /\ Len(q) \in Nat
        /\ \A i \in 1 .. Len(pipeline) : pipeline[i] = q[i]
    BY <1>1 DEF FrontInv, IsFront, Begins
  <1>4. q # <<>> /\ Ordered(q) /\ 1 \in 1 .. Len(q) /\ x = q[1]
    BY <1>1, <1>2, <1>3 DEF FrontInv, OrderOK
  <1>5. /\ Tail(q) \in Seq(Writes) /\ Ordered(Tail(q)) /\ Head(q) = x
        /\ Len(Tail(q)) = Len(q) - 1
        /\ \A i \in 1 .. Len(Tail(q)) : Tail(q)[i] = q[i + 1]
    BY <1>1, <1>4, TailOrdered
  <1>6. queue' = [queue EXCEPT ![user] = Tail(@)]
    <2>1. Without(q, x) = Tail(q)
      BY <1>1, <1>4, <1>5, WithoutHead
    <2> QED BY <1>1, <2>1 DEF Resolve
  <1>7. queue'[user] = Tail(q)
    BY <1>1, <1>6
  <1>8. Begins(Tail(pipeline), Tail(q))
    <2>1. \A i \in 1 .. Len(Tail(pipeline)) :
            i \in 1 .. Len(Tail(q)) /\ i + 1 \in 1 .. Len(pipeline)
      BY <1>2, <1>3, <1>5
    <2> QED BY <1>2, <1>3, <1>5, <2>1 DEF Begins
  <1>9. \A v \in Users \ {user} : \A n \in 1 .. Len(queue[v]) :
            queue[v][n] # Head(queue[user])
    <2>1. author[Head(queue[user])] = user
      BY <1>1, <1>4, <1>5, QueuesDisjoint
    <2> QED BY <2>1, QueuesDisjoint
  <1>10. LET rs == [queue EXCEPT ![user] = Tail(@)] IN
         /\ OrderOK(rs, ts)
         /\ \A w : IsWaiting(w, rs, ts) => IsWaiting(w, queue, ts) /\ w # Head(q)
         /\ IsWaiting(Head(q), queue, ts)
    <2>1. queue \in [Users -> Seq(Writes)] /\ user \in Users /\ queue[user] # <<>>
      BY <1>1, <1>4
    <2> QED BY <1>9, <2>1, OrderResolve
  <1>11. /\ OrderOK(queue', ts)
         /\ \A w : IsWaiting(w, queue', ts) => IsWaiting(w, queue, tasks) /\ w # x
    BY <1>5, <1>6, <1>10
  <1>12. x \in 1 .. Len(author)
    BY <1>1, <1>4, QueuesDisjoint
  <1>13. \A w \in Writes : w # x => told'[w] = told[w]
    BY <1>1, <1>2 DEF Resolve
  <1>14. told'[x] # "none" => told'[x] = told[x] \/ told'[x] = answer
    BY <1>1, <1>2 DEF Resolve
  <1>15. told[x] = "none"
    <2>1. IsWaiting(x, queue, tasks)
      BY <1>1, <1>4 DEF IsWaiting
    <2> QED BY <1>2, <2>1 DEF FrontInv, Settled
  <1> HIDE DEF x, q
  <1>16. ASSUME NEW w \in Writes, told'[w] # "none"
         PROVE  /\ w \in 1 .. Len(author) /\ told'[w] = verdict[w]
                /\ ~IsWaiting(w, queue', tasks')
    <2>1. CASE w = x
      BY <1>11, <1>12, <1>14, <1>15, <1>16, <2>1 DEF x
    <2>2. CASE w # x
      <3>1. told[w] # "none" /\ told'[w] = told[w]
        BY <1>13, <1>16, <2>2
      <3> QED BY <1>11, <3>1 DEF FrontInv, Settled
    <2> QED BY <2>1, <2>2
  <1>17. Settled(queue, tasks)'
    BY <1>16 DEF Settled, IsWaiting
  <1> QED BY <1>4, <1>5, <1>6, <1>7, <1>8, <1>11, <1>17 DEF q

LEMMA FinishFront ==
    ASSUME IInv, FrontInv, NEW status \in Statuses, NEW ts \in Seq(Tasks),
           OnStreamFinish(status, ts), OrderOK(queue, ts),
           \A w : IsWaiting(w, queue, ts) => IsWaiting(w, queue, tasks),
           IsWriteError(status) => verdict[Head(pipeline)] = "refused",
           UNCHANGED <<provider, user, author, verdict, spent>>
    PROVE  /\ FrontInv' /\ ~stream'.handshake
           /\ IF IsWriteError(status)
              THEN queue' = [queue EXCEPT ![user] = Tail(@)] /\ queue[user] # <<>>
              ELSE UNCHANGED queue
  <1> DEFINE rs == Void(requests)
             vs == VoidTasks(ts)
  <1>1. /\ tasks' = vs /\ vs \in Seq(Tasks)
        /\ OrderOK(queue, vs)
        /\ \A w : IsWaiting(w, queue, vs) => IsWaiting(w, queue, tasks)
    BY VoidTasksType, OrderVoid DEF OnStreamFinish
  <1>2. rs \in SUBSET RequestType
    BY VoidTokenOK, TypeParts DEF IInv
  <1>3. \A state \in {"Initial", "Error"} :
          /\ Closed(state) \in StreamType /\ Closed(state).state = state
          /\ ~Closed(state).handshake /\ ~Closed(state).idle
          /\ ~IsStarted(Closed(state))
    BY ClosedType DEF States, IsStarted
  <1>4. /\ pipeline \in Seq(Writes) /\ Len(pipeline) <= kMaxPendingWrites
        /\ user \in Users /\ author \in Seq(Users) /\ Len(author) \in Nat
    BY TypeParts DEF IInv
  <1> HIDE DEF rs, vs
  <1>5. CASE IsWriteError(status)
    <2>1. /\ pipeline # <<>> /\ Resolve(Head(pipeline), "refused")
          /\ FillWritePipeline(queue'[user], Tail(pipeline), Closed("Initial"),
                               NoLink, rs)
      BY <1>5 DEF OnStreamFinish, IsWriteError, rs
    <2>2. /\ queue' = [queue EXCEPT ![user] = Tail(@)] /\ queue[user] # <<>>
          /\ queue'[user] \in Seq(Writes) /\ Ordered(queue'[user])
          /\ OrderOK(queue', vs) /\ Begins(Tail(pipeline), queue'[user])
          /\ Settled(queue, tasks)'
      BY <1>1, <1>5, <2>1, ResolveFront
    <2>3. Tail(pipeline) \in Seq(Writes) /\ Len(Tail(pipeline)) <= kMaxPendingWrites
      <3>1. /\ Tail(pipeline) \in Seq(Writes) /\ Len(pipeline) \in Nat
            /\ Len(Tail(pipeline)) = Len(pipeline) - 1 /\ kMaxPendingWrites \in Nat
        BY <1>4, <2>1, HeadTailProperties, BoundsAssumption
      <3> QED BY <1>4, <3>1
    <2>4. /\ LinkOK(Tail(pipeline), Closed("Initial"), NoLink)
          /\ CarriesOK(Tail(pipeline), Closed("Initial"), NoLink)
          /\ TokenComing(Closed("Initial"), rs, vs)
      BY <1>3, <2>3, ClosedLinkOK, NoLinkType DEF CarriesOK, TokenComing
    <2>5. /\ IsFront(pipeline', queue'[user]) /\ (pipeline' # <<>> => IsStarted(stream'))
          /\ StreamOK(pipeline', stream') /\ TokenComing(stream', requests', vs)
          /\ CarriesOK(pipeline', stream', link')
          /\ stream'.handshake = Closed("Initial").handshake
      BY <1>2, <1>3, <2>1, <2>2, <2>3, <2>4, NoLinkType, FillStep
    <2> QED BY <1>1, <1>3, <1>5, <2>2, <2>5, FrontParts
  <1>6. CASE ~IsWriteError(status)
    <2>1. /\ StartIfNeeded(pipeline, Closed("Error"), rs) /\ link' = NoLink
          /\ UNCHANGED <<pipeline, queue, awaited, told>>
      BY <1>6 DEF OnStreamFinish, rs
    <2>2. /\ ~stream'.idle /\ ~stream'.handshake /\ stream'.state # "Starting"
          /\ pipeline # <<>> <=> IsStarted(stream')
      <3>1. CASE pipeline # <<>>
        <4>1. stream' = [Closed("Error") EXCEPT !.state = "Backoff"]
          BY <1>3, <2>1, <3>1 DEF StartIfNeeded, Start
        <4> QED BY <3>1, <4>1 DEF Closed, IsStarted
      <3>2. CASE pipeline = <<>>
        <4>1. stream' = Closed("Error")
          BY <2>1, <3>2 DEF StartIfNeeded
        <4> QED BY <1>3, <3>2, <4>1
      <3> QED BY <3>1, <3>2
    <2>3. /\ StreamOK(pipeline', stream') /\ TokenComing(stream', requests', vs)
          /\ CarriesOK(pipeline', stream', link')
      BY <2>1, <2>2, NoLinkType DEF StreamOK, TokenComing, CarriesOK, IsStarted
    <2>4. OrderOK(queue', vs) /\ IsFront(pipeline', queue'[user'])
      BY <1>1, <2>1 DEF FrontInv
    <2>5. Settled(queue, tasks)'
      BY <1>1, <1>4, <2>1, SettledFrame DEF FrontInv
    <2> QED BY <1>1, <1>6, <2>1, <2>2, <2>3, <2>4, <2>5, FrontParts
  <1> QED BY <1>5, <1>6

LEMMA HeadTaskFront ==
    ASSUME IInv, FrontInv, tasks # <<>>
    PROVE  /\ OrderOK(queue, Tail(tasks))
           /\ \A w : IsWaiting(w, queue, Tail(tasks)) => IsWaiting(w, queue, tasks)
           /\ ~IsLiveToken(Head(tasks)) => TokenComing(stream, requests, Tail(tasks))
  <1>1. /\ tasks \in Seq(Tasks) /\ Head(tasks) = tasks[1]
        /\ Len(tasks) \in Nat /\ Len(Tail(tasks)) = Len(tasks) - 1
        /\ \A i \in 1 .. Len(Tail(tasks)) : Tail(tasks)[i] = tasks[i + 1]
    BY TypeParts, HeadTailProperties DEF IInv
  <1>2. /\ OrderOK(queue, Tail(tasks))
        /\ \A w : IsWaiting(w, queue, Tail(tasks)) => IsWaiting(w, queue, tasks)
    BY <1>1, OrderTail DEF FrontInv
  <1>3. ASSUME ~IsLiveToken(tasks[1]), NEW i \in 1 .. Len(tasks), IsLiveToken(tasks[i])
        PROVE  \E j \in 1 .. Len(Tail(tasks)) : IsLiveToken(Tail(tasks)[j])
    <2>1. i # 1
      BY <1>3
    <2>2. i - 1 \in 1 .. Len(Tail(tasks)) /\ i - 1 + 1 = i
      BY <1>1, <2>1
    <2>3. Tail(tasks)[i - 1] = tasks[i]
      BY <1>1, <2>2
    <2> QED BY <1>3, <2>2, <2>3
  <1>4. ~IsLiveToken(Head(tasks)) => TokenComing(stream, requests, Tail(tasks))
    BY <1>1, <1>3 DEF FrontInv, TokenComing
  <1> QED BY <1>2, <1>4

LEMMA RunWriteFront ==
    ASSUME IInv, FrontInv, tasks # <<>>, Head(tasks).kind = "write",
           RunWrite(Head(tasks).write)
    PROVE  /\ FrontInv' /\ stream'.handshake = stream.handshake
           /\ link'.replies = link.replies /\ link'.closed = link.closed
  <1> DEFINE w == Head(tasks).write
             q == Append(queue[user], w)
             ts == Tail(tasks)
  <1>1. /\ w \in Writes /\ tasks \in Seq(Tasks) /\ IsWrite(Head(tasks))
        /\ ~IsLiveToken(Head(tasks))
    BY HeadTask, TaskFields DEF IsWrite, IsLiveToken
  <1>2. /\ user \in Users /\ queue \in [Users -> Seq(Writes)]
        /\ queue[user] \in Seq(Writes) /\ Len(queue[user]) \in Nat
        /\ pipeline \in Seq(Writes) /\ Len(pipeline) <= kMaxPendingWrites
        /\ stream \in StreamType /\ link \in LinkType
        /\ requests \in SUBSET RequestType /\ author \in Seq(Users)
        /\ Len(author) \in Nat
    BY TypeParts DEF IInv
  <1>3. /\ queue' = [queue EXCEPT ![user] = Append(@, w)] /\ queue'[user] = q
        /\ tasks' = ts
        /\ FillWritePipeline(queue'[user], pipeline, stream, link, requests)
        /\ UNCHANGED <<provider, user, author, verdict, told, spent>>
    BY <1>2 DEF RunWrite
  <1>4. /\ OrderOK(queue', ts)
        /\ \A x : IsWaiting(x, queue', ts) => IsWaiting(x, queue, tasks)
    BY <1>1, <1>2, <1>3, OrderEnqueue DEF FrontInv
  <1>5. q \in Seq(Writes) /\ Ordered(q) /\ Begins(pipeline, q)
    <2>1. /\ q \in Seq(Writes) /\ Len(q) = Len(queue[user]) + 1
          /\ \A i \in 1 .. Len(queue[user]) : q[i] = queue[user][i]
      BY <1>1, <1>2, AppendProperties
    <2>2. /\ Len(pipeline) <= Len(queue[user]) /\ Len(pipeline) \in Nat
          /\ \A i \in 1 .. Len(pipeline) : pipeline[i] = queue[user][i]
      BY <1>2 DEF FrontInv, IsFront, Begins
    <2>3. \A i \in 1 .. Len(pipeline) : i \in 1 .. Len(queue[user])
      BY <1>2, <2>2
    <2> HIDE DEF q
    <2>4. Begins(pipeline, q)
      BY <1>2, <2>1, <2>2, <2>3 DEF Begins
    <2>5. Ordered(q)
      BY <1>2, <1>3, <1>4 DEF OrderOK
    <2> QED BY <2>1, <2>4, <2>5
  <1> HIDE DEF w, q, ts
  <1>6. /\ TokenComing(stream, requests, ts)
        /\ LinkOK(pipeline, stream, link) /\ CarriesOK(pipeline, stream, link)
    BY <1>1, HeadTaskFront DEF IInv, FrontInv, ts
  <1>7. /\ stream.idle => pipeline = <<>> /\ stream.state = "Open" /\ stream.handshake
        /\ IsStarted(stream) /\ ~stream.handshake => pipeline # <<>>
    BY <1>6 DEF FrontInv, StreamOK, LinkOK, IsStarted
  <1>8. /\ IsFront(pipeline', q) /\ (pipeline' # <<>> => IsStarted(stream'))
        /\ StreamOK(pipeline', stream') /\ TokenComing(stream', requests', ts)
        /\ CarriesOK(pipeline', stream', link')
        /\ stream'.handshake = stream.handshake
        /\ link'.replies = link.replies /\ link'.closed = link.closed
    <2>1. FillWritePipeline(q, pipeline, stream, link, requests)
      BY <1>3
    <2>2. pipeline \in Seq(Writes) /\ stream \in StreamType /\ link \in LinkType
          /\ requests \in SUBSET RequestType /\ Len(pipeline) <= kMaxPendingWrites
      BY <1>2
    <2>3. q \in Seq(Writes) /\ Ordered(q) /\ Begins(pipeline, q)
      BY <1>5
    <2> QED BY <1>6, <1>7, <2>1, <2>2, <2>3, FillStep
  <1>9. Settled(queue, tasks)'
    <2>1. \A x : IsWaiting(x, queue', tasks') => IsWaiting(x, queue, tasks)
      BY <1>3, <1>4
    <2>2. UNCHANGED <<told, verdict>> /\ author' = author /\ Len(author) <= Len(author)
      BY <1>2, <1>3
    <2> QED BY <1>2, <2>1, <2>2, SettledFrame DEF FrontInv
  <1> QED BY <1>3, <1>4, <1>8, <1>9, FrontParts

LEMMA RunUserFront ==
    ASSUME IInv, FrontInv, tasks # <<>>, Head(tasks).kind = "user",
           RunUser(Head(tasks).user)
    PROVE  FrontInv' /\ ~stream'.handshake
  <1> DEFINE u == Head(tasks).user
             s == IF IsStarted(stream) THEN Closed("Initial") ELSE stream
             ts == VoidTasks(Tail(tasks))
             rs == Void(requests)
  <1>1. u \in Users /\ Tail(tasks) \in Seq(Tasks)
    BY HeadTask, TaskFields
  <1>2. /\ user' = u /\ tasks' = ts /\ FillWritePipeline(queue[u], <<>>, s, NoLink, rs)
        /\ UNCHANGED <<provider, queue, awaited, author, verdict, told, spent>>
    BY DEF RunUser
  <1>3. s \in StreamType /\ ~IsStarted(s) /\ ~s.handshake /\ ~s.idle
    <2>1. CASE IsStarted(stream)
      BY <2>1, ClosedType DEF States, IsStarted
    <2>2. CASE ~IsStarted(stream)
      <3>1. stream \in StreamType /\ stream.state # "Open"
        BY <2>2, TypeParts DEF IInv, IsStarted
      <3> QED BY <2>2, <3>1 DEF IInv, LinkOK
    <2> QED BY <2>1, <2>2
  <1>4. /\ rs \in SUBSET RequestType /\ queue[u] \in Seq(Writes)
        /\ author \in Seq(Users) /\ Len(author) \in Nat
    <2>1. requests \in SUBSET RequestType /\ queue \in [Users -> Seq(Writes)]
          /\ author \in Seq(Users)
      BY TypeParts DEF IInv
    <2>2. Void(requests) \in SUBSET RequestType
      BY <1>1, <2>1, VoidTokenOK
    <2> QED BY <1>1, <2>1, <2>2
  <1>5. /\ OrderOK(queue, ts)
        /\ \A w : IsWaiting(w, queue, ts) => IsWaiting(w, queue, tasks)
    BY <1>1, HeadTaskFront, OrderVoid
  <1> HIDE DEF u, s, ts, rs
  <1>6. Ordered(queue[u]) /\ OrderOK(queue', ts)
    BY <1>1, <1>2, <1>5 DEF OrderOK
  <1>7. /\ IsFront(pipeline', queue[u]) /\ (pipeline' # <<>> => IsStarted(stream'))
        /\ StreamOK(pipeline', stream') /\ TokenComing(stream', requests', ts)
        /\ CarriesOK(pipeline', stream', link') /\ ~stream'.handshake
    BY <1>2, <1>3, <1>4, <1>6, RefillStep
  <1>8. Settled(queue, tasks)'
    BY <1>2, <1>4, <1>5, SettledFrame DEF FrontInv
  <1> QED BY <1>2, <1>6, <1>7, <1>8, FrontParts

LEMMA RunTokenFront ==
    ASSUME IInv, FrontInv, tasks # <<>>, Head(tasks).kind = "token",
           RunToken(Head(tasks))
    PROVE  /\ FrontInv' /\ UNCHANGED queue
           /\ ~stream'.handshake \/ UNCHANGED <<user, stream, link>>
  <1> DEFINE task == Head(tasks)
  <1>1. /\ Tail(tasks) \in Seq(Tasks) /\ task = tasks[1] /\ 1 \in 1 .. Len(tasks)
        /\ OrderOK(queue, Tail(tasks))
        /\ \A w : IsWaiting(w, queue, Tail(tasks)) => IsWaiting(w, queue, tasks)
        /\ UNCHANGED <<provider, user, author, verdict, spent>>
        /\ author \in Seq(Users) /\ Len(author) \in Nat /\ task.kind = "token"
    BY HeadTask, HeadTaskFront, TypeParts DEF RunToken, IInv
  <1> HIDE DEF task
  <1>2. CASE ~Awaited(task)
    <2>1. /\ tasks' = Tail(tasks)
          /\ UNCHANGED <<requests, queue, awaited, pipeline, stream, link, told>>
      BY <1>2 DEF RunToken, task
    <2>2. TokenComing(stream, requests, Tail(tasks))
      BY <1>2, HeadTaskFront DEF Awaited, IsLiveToken, task
    <2>3. OrderOK(queue', tasks') /\ TokenComing(stream', requests', tasks')
      BY <1>1, <2>1, <2>2
    <2>4. Settled(queue, tasks)'
      BY <1>1, <2>1, SettledFrame DEF FrontInv
    <2> QED BY <1>1, <2>1, <2>3, <2>4, QuietStep
  <1>3. CASE Awaited(task) /\ task.user = NoUser
    <2>1. OnStreamFinish("transient", Tail(tasks))
      BY <1>3 DEF RunToken, task
    <2>2. ~IsWriteError("transient") /\ "transient" \in Statuses
      BY DEF IsWriteError, Statuses
    <2> QED BY <1>1, <2>1, <2>2, FinishFront
  <1>4. CASE Awaited(task) /\ task.user # NoUser
    <2>1. /\ tasks' = Tail(tasks)
          /\ stream' = [stream EXCEPT !.state = "Open"]
          /\ link' = [NoLink EXCEPT !.as = task.user, !.sent = <<Handshake>>]
          /\ UNCHANGED <<requests, queue, awaited, pipeline, told>>
      BY <1>4 DEF RunToken, task
    <2>2. stream.state = "Starting"
      BY <1>1, <1>4 DEF IInv, TokenOK, Awaited, IsLiveToken
    <2>3. /\ stream \in StreamType /\ ~stream.handshake /\ ~stream.idle
          /\ pipeline # <<>>
      BY <2>2, TypeParts DEF IInv, LinkOK, FrontInv, StreamOK, IsStarted
    <2>4. /\ stream'.state = "Open" /\ ~stream'.handshake /\ ~stream'.idle
          /\ link'.closed = "no"
      BY <2>1, <2>3 DEF StreamType, NoLink
    <2>5. /\ StreamOK(pipeline', stream') /\ TokenComing(stream', requests', tasks')
          /\ CarriesOK(pipeline', stream', link') /\ IsStarted(stream')
      BY <2>1, <2>3, <2>4 DEF StreamOK, TokenComing, CarriesOK, IsStarted
    <2>6. OrderOK(queue', tasks') /\ IsFront(pipeline', queue'[user'])
      BY <1>1, <2>1 DEF FrontInv
    <2>7. Settled(queue, tasks)'
      BY <1>1, <2>1, SettledFrame DEF FrontInv
    <2> QED BY <1>1, <2>1, <2>4, <2>5, <2>6, <2>7, FrontParts
  <1> QED BY <1>2, <1>3, <1>4

LEMMA BackoffElapsedFront == IInv /\ FrontInv /\ BackoffElapsed => FrontInv'
  <1> SUFFICES ASSUME IInv, FrontInv, BackoffElapsed PROVE FrontInv'
    OBVIOUS
  <1>1. /\ stream \in StreamType /\ stream.state = "Backoff"
        /\ Start([stream EXCEPT !.state = "Initial"], requests)
        /\ UNCHANGED <<provider, tasks, user, queue, awaited, pipeline, link,
                       author, verdict, told, spent>>
        /\ author \in Seq(Users) /\ Len(author) \in Nat
    BY TypeParts DEF BackoffElapsed, IInv
  <1>2. /\ stream' = [stream EXCEPT !.state = "Starting"]
        /\ requests' = requests \cup {Request}
    BY <1>1 DEF Start, StreamType
  <1>3. /\ stream'.state = "Starting" /\ stream'.handshake = stream.handshake
        /\ stream'.idle = stream.idle /\ IsStarted(stream) /\ IsStarted(stream')
    BY <1>1, <1>2 DEF StreamType, IsStarted
  <1>4. /\ TokenComing(stream', requests', tasks')
        /\ StreamOK(pipeline', stream') /\ CarriesOK(pipeline', stream', link')
    <2>1. Request.live /\ Request \in requests'
      BY <1>2 DEF Request
    <2>2. TokenComing(stream', requests', tasks')
      BY <2>1 DEF TokenComing
    <2>3. StreamOK(pipeline, stream')
      BY <1>3 DEF FrontInv, StreamOK
    <2>4. CarriesOK(pipeline, stream', link)
      BY <1>3 DEF FrontInv, CarriesOK
    <2> QED BY <1>1, <2>2, <2>3, <2>4
  <1>5. OrderOK(queue', tasks') /\ IsFront(pipeline', queue'[user'])
    BY <1>1 DEF FrontInv
  <1>6. Settled(queue, tasks)'
    BY <1>1, SettledFrame DEF FrontInv
  <1> QED BY <1>1, <1>3, <1>4, <1>5, <1>6, FrontParts

LEMMA IdleTimeoutFront == IInv /\ FrontInv /\ IdleTimeout => FrontInv'
  <1> SUFFICES ASSUME IInv, FrontInv, IdleTimeout PROVE FrontInv'
    OBVIOUS
  <1>1. /\ pipeline = <<>> /\ stream' = Closed("Initial") /\ link' = NoLink
        /\ UNCHANGED <<provider, requests, tasks, user, queue, awaited, pipeline,
                       author, verdict, told, spent>>
        /\ author \in Seq(Users) /\ Len(author) \in Nat
    BY TypeParts DEF IdleTimeout, FrontInv, StreamOK, IInv
  <1>2. /\ ~stream'.idle /\ ~stream'.handshake /\ stream'.state # "Starting"
        /\ ~IsStarted(stream')
    BY <1>1 DEF Closed, IsStarted
  <1>3. /\ TokenComing(stream', requests', tasks')
        /\ StreamOK(pipeline', stream') /\ CarriesOK(pipeline', stream', link')
    BY <1>1, <1>2, NoLinkType DEF TokenComing, StreamOK, CarriesOK, IsStarted
  <1>4. OrderOK(queue', tasks') /\ IsFront(pipeline', queue'[user'])
    BY <1>1 DEF FrontInv
  <1>5. Settled(queue, tasks)'
    BY <1>1, SettledFrame DEF FrontInv
  <1> QED BY <1>1, <1>3, <1>4, <1>5, FrontParts

\* Only the handshake is answered first: no write is answered yet.
LEMMA HandshakeAnswer ==
    ASSUME IInv, FrontInv, link.replies # <<>>, ~stream.handshake
    PROVE  Tail(link.replies) = <<>> /\ link.closed # "permanent"
  <1>1. /\ Len(link.replies) \in Nat \ {0} /\ Tail(link.replies) \in Seq(Sendable)
        /\ Len(Tail(link.replies)) = Len(link.replies) - 1
    BY AnswerFinds
  <1>2. Len(link.replies) <= 1
    BY DEF IInv, LinkOK
  <1>3. Len(Tail(link.replies)) = 0
    <2> DEFINE n == Len(link.replies)
               m == Len(Tail(link.replies))
    <2>1. n \in Nat \ {0} /\ m = n - 1 /\ n <= 1
      BY <1>1, <1>2
    <2> HIDE DEF n, m
    <2>2. m = 0
      BY <2>1
    <2> QED BY <2>2 DEF m
  <1> QED BY <1>1, <1>3, EmptySeq DEF FrontInv, CarriesOK

LEMMA OnHandshakeCompleteFront ==
    ASSUME IInv, FrontInv, OnStreamRead, ~stream.handshake PROVE FrontInv'
  <1>1. /\ link.replies # <<>>
        /\ stream' = Wrote([stream EXCEPT !.handshake = TRUE])
        /\ link' = [link EXCEPT !.replies = Tail(@), !.sent = @ \o pipeline]
        /\ UNCHANGED <<requests, queue, awaited, pipeline, told, provider,
                       tasks, user, author, verdict, spent>>
        /\ author \in Seq(Users) /\ Len(author) \in Nat
    BY TypeParts DEF OnStreamRead, OnHandshakeComplete, IInv
  <1>2. /\ stream \in StreamType /\ stream.state = "Open" /\ link \in LinkType
        /\ pipeline \in Seq(Writes) /\ pipeline \in Seq(Sendable)
        /\ link.sent \in Seq(Sendable)
    BY <1>1, AnswerFinds, TypeParts DEF IInv, Sendable
  <1>3. /\ stream'.state = "Open" /\ stream'.handshake /\ ~stream'.idle
    BY <1>1, <1>2 DEF StreamType, Wrote
  <1>4. /\ link'.replies = <<>> /\ link'.closed = link.closed
        /\ link'.sent = link.sent \o pipeline /\ link.closed # "permanent"
    BY <1>1, <1>2, HandshakeAnswer DEF LinkType
  <1>5. ASSUME link.closed # "no", NEW i \in 1 .. Len(link'.sent)
        PROVE  link'.sent[i] # Handshake
    <2>1. /\ Len(link'.sent) = Len(link.sent) + Len(pipeline)
          /\ Len(link.sent) \in Nat /\ Len(pipeline) \in Nat
          /\ link'.sent[i] = IF i <= Len(link.sent) THEN link.sent[i]
                             ELSE pipeline[i - Len(link.sent)]
      BY <1>2, <1>4, ConcatProperties
    <2>2. i \in 1 .. Len(link.sent) \/ i - Len(link.sent) \in 1 .. Len(pipeline)
      BY <2>1
    <2>3. \A j \in 1 .. Len(pipeline) : pipeline[j] # Handshake
      BY <1>2, BoundsAssumption DEF Writes, Handshake
    <2> QED BY <1>5, <2>1, <2>2, <2>3 DEF FrontInv, CarriesOK
  <1>6. CarriesOK(pipeline', stream', link')
    BY <1>3, <1>4, <1>5 DEF CarriesOK
  <1>7. /\ TokenComing(stream', requests', tasks') /\ StreamOK(pipeline', stream')
        /\ IsStarted(stream')
    <2>1. pipeline # <<>> /\ pipeline' = pipeline
      BY <1>1, <1>2 DEF FrontInv, StreamOK, IsStarted
    <2> QED BY <1>3, <2>1 DEF TokenComing, StreamOK, IsStarted
  <1>8. OrderOK(queue', tasks') /\ IsFront(pipeline', queue'[user'])
    BY <1>1 DEF FrontInv
  <1>9. Settled(queue, tasks)'
    BY <1>1, SettledFrame DEF FrontInv
  <1> QED BY <1>1, <1>6, <1>7, <1>8, <1>9, FrontParts

LEMMA OnMutationResultFront ==
    ASSUME IInv, FrontInv, OnStreamRead, stream.handshake
    PROVE  /\ FrontInv' /\ stream'.handshake
           /\ queue' = [queue EXCEPT ![user] = Tail(@)] /\ queue[user] # <<>>
           /\ link'.replies = Tail(link.replies) /\ link'.closed = link.closed
  <1> DEFINE k == [link EXCEPT !.replies = Tail(@)]
             p == Tail(pipeline)
  <1>1. /\ link.replies # <<>>
        /\ Resolve(Head(pipeline), "ok")
        /\ FillWritePipeline(queue'[user], p, stream, k, requests)
        /\ UNCHANGED <<provider, tasks, user, author, verdict, spent>>
    BY DEF OnStreamRead, OnMutationResult
  <1>2. /\ k \in LinkType /\ k.replies = Tail(link.replies) /\ k.sent = link.sent
        /\ k.closed = link.closed
        /\ pipeline \in Seq(Writes) /\ pipeline # <<>> /\ p \in Seq(Writes)
        /\ Len(p) = Len(pipeline) - 1 /\ Len(p) <= kMaxPendingWrites
        /\ LinkOK(p, stream, k)
    BY <1>1, NextAnswer
  <1>3. /\ stream \in StreamType /\ requests \in SUBSET RequestType
        /\ tasks \in Seq(Tasks)
    BY TypeParts DEF IInv
  <1>4. /\ Len(link.replies) \in Nat \ {0} /\ 1 \in 1 .. Len(link.replies)
        /\ Len(Tail(link.replies)) = Len(link.replies) - 1
        /\ \A i \in 1 .. Len(Tail(link.replies)) :
            i + 1 \in 1 .. Len(link.replies) /\ Tail(link.replies)[i] = link.replies[i + 1]
    <2>1. link.replies \in Seq(Sendable)
      BY <1>1, AnswerFinds
    <2> QED BY <1>1, <2>1, HeadTailProperties
  <1>5. /\ \A i \in 1 .. Len(link.replies) :
             link.replies[i] = pipeline[i] /\ verdict[pipeline[i]] = "ok"
        /\ link.closed = "permanent" =>
             /\ Len(link.replies) < Len(pipeline)
             /\ verdict[pipeline[Len(link.replies) + 1]] = "refused"
        /\ Len(link.replies) <= Len(pipeline)
        /\ stream.state = "Open"
    BY <1>1, AnswerFinds DEF FrontInv, CarriesOK, IInv, LinkOK
  <1>6. /\ Len(pipeline) \in Nat \ {0} /\ Head(pipeline) = pipeline[1]
        /\ \A i \in 1 .. Len(p) : p[i] = pipeline[i + 1]
    BY <1>2, HeadTailProperties
  <1>7. verdict[Head(pipeline)] = "ok"
    BY <1>4, <1>5, <1>6
  <1> HIDE DEF k, p
  <1>8. CarriesOK(p, stream, k)
    <2>1. \A i \in 1 .. Len(k.replies) : k.replies[i] = p[i] /\ verdict[p[i]] = "ok"
      <3>1. \A i \in 1 .. Len(k.replies) : i \in 1 .. Len(p)
        BY <1>2, <1>4, <1>5, <1>6
      <3>2. ASSUME NEW i \in 1 .. Len(k.replies)
            PROVE  k.replies[i] = pipeline[i + 1] /\ verdict[pipeline[i + 1]] = "ok"
        <4>1. i + 1 \in 1 .. Len(link.replies) /\ k.replies[i] = link.replies[i + 1]
          BY <1>2, <1>4
        <4> QED BY <1>5, <4>1
      <3>3. \A i \in 1 .. Len(k.replies) : p[i] = pipeline[i + 1]
        BY <1>6, <3>1
      <3> QED BY <3>2, <3>3
    <2>2. ASSUME k.closed = "permanent"
          PROVE  Len(k.replies) < Len(p) /\ verdict[p[Len(k.replies) + 1]] = "refused"
      <3>1. Len(link.replies) < Len(pipeline)
            /\ verdict[pipeline[Len(link.replies) + 1]] = "refused"
        BY <1>2, <1>5, <2>2
      <3>2. /\ Len(k.replies) < Len(p) /\ Len(k.replies) + 1 = Len(link.replies)
            /\ Len(k.replies) + 1 \in 1 .. Len(p)
        BY <1>2, <1>4, <1>6, <3>1
      <3>3. p[Len(k.replies) + 1] = pipeline[Len(link.replies) + 1]
        BY <1>6, <3>2
      <3> QED BY <3>1, <3>2, <3>3
    <2> QED BY <1>2, <2>1, <2>2 DEF CarriesOK, FrontInv
  <1>9. /\ queue' = [queue EXCEPT ![user] = Tail(@)] /\ queue[user] # <<>>
        /\ queue'[user] \in Seq(Writes) /\ Ordered(queue'[user])
        /\ OrderOK(queue', tasks) /\ Begins(p, queue'[user])
        /\ Settled(queue, tasks)'
    <2>1. OrderOK(queue, tasks)
      BY DEF FrontInv
    <2>2. \A w : IsWaiting(w, queue', tasks') => IsWaiting(w, queue', tasks)
      BY <1>1
    <2> QED BY <1>1, <1>2, <1>3, <1>7, <2>1, <2>2, ResolveFront DEF p
  <1>10. ~stream.idle /\ TokenComing(stream, requests, tasks)
    BY <1>2 DEF FrontInv, StreamOK
  <1>11. /\ IsFront(pipeline', queue'[user]) /\ (pipeline' # <<>> => IsStarted(stream'))
         /\ StreamOK(pipeline', stream') /\ TokenComing(stream', requests', tasks)
         /\ CarriesOK(pipeline', stream', link')
         /\ stream'.handshake = stream.handshake
         /\ link'.replies = k.replies /\ link'.closed = k.closed
    <2>1. /\ stream.idle => p = <<>> /\ stream.state = "Open" /\ stream.handshake
          /\ IsStarted(stream) /\ ~stream.handshake => p # <<>>
      BY <1>10
    <2>2. /\ FillWritePipeline(queue'[user], p, stream, k, requests)
          /\ LinkOK(p, stream, k) /\ k \in LinkType
          /\ p \in Seq(Writes) /\ Len(p) <= kMaxPendingWrites
      BY <1>1, <1>2
    <2>3. /\ queue'[user] \in Seq(Writes) /\ Ordered(queue'[user])
          /\ Begins(p, queue'[user])
      BY <1>9
    <2> HIDE DEF p, k
    <2> QED BY <1>3, <1>8, <1>10, <2>1, <2>2, <2>3, FillStep
  <1>12. FrontInv'
    BY <1>1, <1>9, <1>11, FrontParts
  <1> QED BY <1>2, <1>9, <1>11, <1>12

LEMMA OnStreamClosedFront ==
    ASSUME IInv, FrontInv, OnStreamClosed
    PROVE  /\ FrontInv' /\ ~stream'.handshake
           /\ IF IsWriteError(link.closed)
              THEN queue' = [queue EXCEPT ![user] = Tail(@)] /\ queue[user] # <<>>
              ELSE UNCHANGED queue
  <1>1. /\ link.replies = <<>> /\ link.closed \in Statuses /\ tasks \in Seq(Tasks)
        /\ OnStreamFinish(link.closed, tasks)
        /\ UNCHANGED <<provider, user, author, verdict, spent>>
        /\ pipeline \in Seq(Writes)
    BY TypeParts DEF OnStreamClosed, IInv, LinkType
  <1>2. ASSUME IsWriteError(link.closed) PROVE verdict[Head(pipeline)] = "refused"
    <2>1. stream.handshake /\ link.closed = "permanent" /\ pipeline # <<>>
      BY <1>2 DEF IsWriteError
    <2>2. verdict[pipeline[0 + 1]] = "refused"
      BY <1>1, <2>1 DEF FrontInv, CarriesOK
    <2>3. Head(pipeline) = pipeline[0 + 1]
      BY <1>1, <2>1
    <2> QED BY <2>2, <2>3
  <1> QED BY <1>1, <1>2, FinishFront DEF FrontInv

\* The first request on a connection is the handshake or the first write
\* without an answer.
LEMMA NextRequest ==
    ASSUME IInv, FrontInv, link.closed = "no", link.sent # <<>>
    PROVE  /\ stream.state = "Open" /\ link.sent \in Seq(Sendable)
           /\ link.replies \in Seq(Sendable)
           /\ ~stream.handshake => Head(link.sent) = Handshake /\ link.replies = <<>>
           /\ stream.handshake =>
                /\ Len(link.replies) < Len(pipeline)
                /\ Len(link.replies) + 1 \in 1 .. Len(pipeline)
                /\ Head(link.sent) = pipeline[Len(link.replies) + 1]
                /\ Head(link.sent) \in Writes
                /\ \A i \in 1 .. Len(link.sent) : link.sent[i] # Handshake
  <1> DEFINE a == link.replies
             b == link.sent
  <1>1. /\ a \in Seq(Sendable) /\ b \in Seq(Sendable) /\ pipeline \in Seq(Writes)
    BY TypeParts DEF IInv, LinkType
  <1>2. stream.state = "Open"
    BY NoLinkType DEF IInv, LinkOK
  <1>3. a \o b = IF stream.handshake THEN pipeline ELSE <<Handshake>>
    BY <1>2 DEF IInv, LinkOK
  <1>4. b # <<>>
    OBVIOUS
  <1> HIDE DEF a, b
  <1>5. /\ Len(a) \in Nat /\ Len(b) \in Nat \ {0} /\ Head(b) = b[1]
        /\ Len(a \o b) = Len(a) + Len(b)
        /\ \A i \in 1 .. Len(a) + Len(b) :
            (a \o b)[i] = IF i <= Len(a) THEN a[i] ELSE b[i - Len(a)]
    BY <1>1, <1>4, ConcatProperties
  <1>6. \A i \in 1 .. Len(b) : /\ Len(a) + i \in 1 .. Len(a \o b)
                               /\ (a \o b)[Len(a) + i] = b[i]
    <2> TAKE i \in 1 .. Len(b)
    <2>1. /\ Len(a) + i \in 1 .. Len(a) + Len(b) /\ ~(Len(a) + i <= Len(a))
          /\ Len(a) + i - Len(a) = i
      BY <1>5
    <2> QED BY <1>5, <2>1
  <1>7. 1 \in 1 .. Len(b) /\ Len(a) < Len(a \o b)
    BY <1>5
  <1>8. ASSUME ~stream.handshake PROVE Head(b) = Handshake /\ a = <<>>
    <2>1. a \o b = <<Handshake>> /\ Len(a \o b) = 1
      BY <1>3, <1>8
    <2>2. Len(a) = 0
      BY <1>5, <2>1
    <2>3. a = <<>>
      BY <1>1, <2>2, EmptySeq
    <2>4. <<Handshake>>[0 + 1] = Handshake
      OBVIOUS
    <2> QED BY <1>5, <1>6, <1>7, <2>1, <2>2, <2>3, <2>4
  <1>9. ASSUME stream.handshake
        PROVE  /\ Len(a) < Len(pipeline) /\ Len(a) + 1 \in 1 .. Len(pipeline)
               /\ Head(b) = pipeline[Len(a) + 1] /\ Head(b) \in Writes
               /\ \A i \in 1 .. Len(b) : b[i] # Handshake
    <2>1. a \o b = pipeline
      BY <1>3, <1>9
    <2>2. \A w \in Writes : w # Handshake
      BY BoundsAssumption DEF Writes, Handshake
    <2>3. \A i \in 1 .. Len(b) : b[i] \in Writes
      BY <1>1, <1>6, <2>1
    <2> QED BY <1>5, <1>6, <1>7, <2>1, <2>2, <2>3
  <1> QED BY <1>1, <1>2, <1>8, <1>9 DEF a, b

\* Steps of the server and the network.
LEMMA WireStep ==
    ASSUME FrontInv, CarriesOK(pipeline, stream, link)', Settled(queue, tasks)',
           UNCHANGED <<requests, tasks, user, queue, pipeline, stream>>
    PROVE  FrontInv'
  BY DEF FrontInv, OrderOK, TokenComing, StreamOK, IsFront, Begins, Ordered, IsStarted

LEMMA PipelineDistinct ==
    ASSUME IInv, FrontInv, NEW i \in 1 .. Len(pipeline)
    PROVE  /\ IsWaiting(pipeline[i], queue, tasks)
           /\ \A j \in 1 .. Len(pipeline) : j # i => pipeline[j] # pipeline[i]
  <1>1. /\ pipeline \in Seq(Writes) /\ user \in Users /\ queue[user] \in Seq(Writes)
        /\ Len(pipeline) \in Nat /\ Len(queue[user]) \in Nat
    BY TypeParts DEF IInv
  <1>2. /\ Ordered(queue[user]) /\ Len(pipeline) <= Len(queue[user])
        /\ \A j \in 1 .. Len(pipeline) : pipeline[j] = queue[user][j]
    BY <1>1 DEF FrontInv, OrderOK, IsFront, Begins
  <1>3. \A j \in 1 .. Len(pipeline) :
            j \in 1 .. Len(queue[user]) /\ queue[user][j] \in Int
    <2>1. \A j \in 1 .. Len(pipeline) : j \in 1 .. Len(queue[user])
      BY <1>1, <1>2
    <2>2. \A j \in 1 .. Len(queue[user]) : queue[user][j] \in Int
      BY <1>1, BoundsAssumption DEF Writes
    <2> QED BY <2>1, <2>2
  <1>4. ASSUME NEW j \in 1 .. Len(pipeline), j # i PROVE pipeline[j] # pipeline[i]
    <2>1. j < i \/ i < j
      BY <1>4
    <2>2. queue[user][j] < queue[user][i] \/ queue[user][i] < queue[user][j]
      BY <1>2, <1>3, <2>1 DEF Ordered
    <2> QED BY <1>2, <1>3, <2>2
  <1>5. IsWaiting(pipeline[i], queue, tasks)
    BY <1>1, <1>2, <1>3 DEF IsWaiting
  <1> QED BY <1>4, <1>5

\* The server's word on a write that waits is not yet anyone's answer.
LEMMA VerdictStep ==
    ASSUME IInv, FrontInv, NEW x \in Writes, IsWaiting(x, queue, tasks), NEW answer,
           verdict' = [verdict EXCEPT ![x] = answer],
           UNCHANGED <<queue, tasks, author, told>>
    PROVE  /\ Settled(queue, tasks)' /\ verdict'[x] = answer
           /\ \A w \in Writes : w # x => verdict'[w] = verdict[w]
  <1>1. verdict \in [Writes -> {"none", "ok", "refused"}]
    BY TypeParts DEF IInv
  <1>2. /\ verdict'[x] = answer
        /\ \A w \in Writes : w # x => verdict'[w] = verdict[w]
    BY <1>1
  <1>3. ASSUME NEW w \in Writes, told[w] # "none"
        PROVE  /\ w \in 1 .. Len(author) /\ told[w] = verdict'[w]
               /\ ~IsWaiting(w, queue, tasks)
    <2>1. w \in 1 .. Len(author) /\ told[w] = verdict[w] /\ ~IsWaiting(w, queue, tasks)
      BY <1>3 DEF FrontInv, Settled
    <2>2. w # x
      BY <2>1
    <2> QED BY <1>2, <2>1, <2>2
  <1>4. Settled(queue, tasks)'
    BY <1>3 DEF Settled, IsWaiting
  <1> QED BY <1>2, <1>4

LEMMA ServerAcceptsFront == IInv /\ FrontInv /\ ServerAccepts => FrontInv'
  <1> SUFFICES ASSUME IInv, FrontInv, ServerAccepts PROVE FrontInv'
    OBVIOUS
  <1> DEFINE n == Len(link.replies)
             x == Head(link.sent)
  <1>1. /\ link.sent # <<>> /\ link.closed = "no" /\ link \in LinkType
        /\ link.replies \in Seq(Sendable) /\ x \in Sendable
        /\ link' = [link EXCEPT !.sent = Tail(@), !.replies = Append(@, x)]
        /\ verdict' = IF x = Handshake THEN verdict ELSE [verdict EXCEPT ![x] = "ok"]
        /\ UNCHANGED <<provider, requests, tasks, user, queue, awaited, pipeline,
                       stream, author, told, spent>>
        /\ author \in Seq(Users) /\ Len(author) \in Nat
    <2>1. link \in LinkType /\ link.sent \in Seq(Sendable) /\ author \in Seq(Users)
          /\ link.replies \in Seq(Sendable)
      BY TypeParts DEF IInv, LinkType
    <2>2. link.sent # <<>>
      BY DEF ServerAccepts
    <2>3. Head(link.sent) \in Sendable
      BY <2>1, <2>2, HeadTailProperties
    <2> QED BY <2>1, <2>2, <2>3 DEF ServerAccepts
  <1>2. link'.closed = "no" /\ link'.replies = Append(link.replies, x)
    BY <1>1 DEF LinkType
  <1>3. CASE ~stream.handshake
    <2>1. x = Handshake
      BY <1>1, <1>3, NextRequest
    <2>2. CarriesOK(pipeline, stream, link)'
      BY <1>1, <1>2, <1>3 DEF CarriesOK
    <2>3. verdict' = verdict
      BY <1>1, <2>1
    <2>4. Settled(queue, tasks)'
      BY <1>1, <2>3, SettledFrame DEF FrontInv
    <2> QED BY <1>1, <2>2, <2>4, WireStep
  <1>4. CASE stream.handshake
    <2>1. /\ n + 1 \in 1 .. Len(pipeline) /\ x = pipeline[n + 1] /\ x \in Writes
          /\ x # Handshake /\ n \in Nat
      BY <1>1, <1>4, NextRequest, BoundsAssumption DEF Writes, Handshake
    <2>2. verdict' = [verdict EXCEPT ![x] = "ok"]
      BY <1>1, <2>1
    <2>3. IsWaiting(x, queue, tasks)
      BY <2>1, PipelineDistinct
    <2>4. /\ Settled(queue, tasks)' /\ verdict'[x] = "ok"
          /\ \A w \in Writes : w # x => verdict'[w] = verdict[w]
      BY <1>1, <2>1, <2>2, <2>3, VerdictStep
    <2>5. /\ \A i \in 1 .. n : link.replies[i] = pipeline[i] /\ verdict[pipeline[i]] = "ok"
          /\ pipeline \in Seq(Writes)
      BY <1>4, TypeParts DEF FrontInv, CarriesOK, IInv
    <2>6. ASSUME NEW i \in 1 .. n + 1
          PROVE  link'.replies[i] = pipeline[i] /\ verdict'[pipeline[i]] = "ok"
      <3>1. CASE i = n + 1
        BY <1>1, <1>2, <2>1, <2>4, <3>1, AppendProperties
      <3>2. CASE i # n + 1
        <4>1. i \in 1 .. n /\ i \in 1 .. Len(pipeline)
          BY <2>1, <3>2
        <4>2. link'.replies[i] = link.replies[i]
          BY <1>1, <1>2, <4>1, AppendProperties
        <4>3. verdict'[pipeline[i]] = "ok"
          BY <2>4, <2>5, <4>1
        <4> QED BY <2>5, <4>1, <4>2, <4>3
      <3> QED BY <3>1, <3>2
    <2>7. Len(link'.replies) = n + 1
      BY <1>1, <1>2, AppendProperties
    <2>8. CarriesOK(pipeline, stream, link)'
      BY <1>1, <1>2, <1>4, <2>6, <2>7 DEF CarriesOK
    <2> QED BY <1>1, <2>4, <2>8, WireStep
  <1> QED BY <1>3, <1>4

LEMMA ServerRefusesFront ==
    IInv /\ FrontInv /\ ServerRefuses => FrontInv' /\ stream.handshake
  <1> SUFFICES ASSUME IInv, FrontInv, ServerRefuses
               PROVE  FrontInv' /\ stream.handshake
    OBVIOUS
  <1> DEFINE n == Len(link.replies)
             x == Head(link.sent)
  <1>1. /\ link.sent # <<>> /\ link.closed = "no" /\ link \in LinkType /\ x # Handshake
        /\ link' = [link EXCEPT !.sent = <<>>, !.closed = "permanent"]
        /\ verdict' = [verdict EXCEPT ![x] = "refused"]
        /\ UNCHANGED <<provider, requests, tasks, user, queue, awaited, pipeline,
                       stream, author, told, spent>>
    BY TypeParts DEF ServerRefuses, IInv
  <1>2. /\ link'.closed = "permanent" /\ link'.replies = link.replies
        /\ link'.sent = <<>>
    BY <1>1 DEF LinkType
  <1>3. /\ stream.handshake /\ n \in Nat /\ n < Len(pipeline)
        /\ n + 1 \in 1 .. Len(pipeline) /\ x = pipeline[n + 1] /\ x \in Writes
    <2>1. link.replies \in Seq(Sendable) /\ stream.handshake
      BY <1>1, NextRequest
    <2> HIDE DEF x
    <2>2. n \in Nat /\ stream.handshake
      BY <2>1
    <2>3. /\ n < Len(pipeline) /\ n + 1 \in 1 .. Len(pipeline)
          /\ x = pipeline[n + 1] /\ x \in Writes
      BY <1>1, <2>2, NextRequest DEF x
    <2> QED BY <2>2, <2>3
  <1>4. /\ Settled(queue, tasks)' /\ verdict'[x] = "refused"
        /\ \A w \in Writes : w # x => verdict'[w] = verdict[w]
    <2>1. IsWaiting(x, queue, tasks)
      BY <1>3, PipelineDistinct
    <2> HIDE DEF x
    <2> QED BY <1>1, <1>3, <2>1, VerdictStep
  <1>5. ASSUME NEW i \in 1 .. n
        PROVE  link.replies[i] = pipeline[i] /\ verdict'[pipeline[i]] = "ok"
    <2>1. i \in 1 .. Len(pipeline) /\ i # n + 1
      BY <1>3
    <2>2. pipeline[i] # x /\ pipeline[i] \in Writes
      BY <1>3, <2>1, PipelineDistinct, TypeParts DEF IInv
    <2>3. link.replies[i] = pipeline[i] /\ verdict[pipeline[i]] = "ok"
      BY <1>3 DEF FrontInv, CarriesOK
    <2> QED BY <1>4, <2>2, <2>3
  <1>6. CarriesOK(pipeline, stream, link)'
    BY <1>1, <1>2, <1>3, <1>4, <1>5 DEF CarriesOK
  <1> QED BY <1>1, <1>3, <1>4, <1>6, WireStep

\* A connection that is lost after its handshake is not closed for good, and
\* one that is refused before it holds no answer.
LEMMA LoseFinds ==
    ASSUME IInv, FrontInv, NEW status \in Statuses, Lose(status)
    PROVE  status = "permanent" => ~stream.handshake /\ link.replies = <<>>
  <1> SUFFICES ASSUME status = "permanent"
               PROVE  ~stream.handshake /\ link.replies = <<>>
    OBVIOUS
  <1>1. link.sent \in Seq(Sendable) /\ DOMAIN link.sent = 1 .. Len(link.sent)
    BY TypeParts DEF IInv, LinkType
  <1>2. PICK i \in 1 .. Len(link.sent) : link.sent[i] = Handshake
    BY <1>1 DEF Lose
  <1>3. link.closed = "no" /\ link.sent # <<>>
    BY <1>1, <1>2 DEF FrontInv, CarriesOK
  <1> QED BY <1>2, <1>3, NextRequest

LEMMA LoseFront ==
    ASSUME IInv, FrontInv, NEW status \in Statuses, Lose(status)
    PROVE  /\ FrontInv' /\ link'.closed = status
           /\ Len(link'.replies) <= Len(link.replies)
  <1>1. /\ link \in LinkType /\ link.replies \in Seq(Sendable)
        /\ Len(link.replies) \in Nat /\ author \in Seq(Users) /\ Len(author) \in Nat
        /\ UNCHANGED <<provider, requests, tasks, user, queue, awaited, pipeline,
                       stream, author, verdict, told>>
    BY TypeParts DEF IInv, LinkType, Lose
  <1>2. PICK n \in 0 .. Len(link.replies) :
          link' = [link EXCEPT !.sent = <<>>, !.closed = status,
                               !.replies = SubSeq(@, 1, n)]
    BY DEF Lose
  <1> DEFINE r == SubSeq(link.replies, 1, n)
  <1>3. link'.sent = <<>> /\ link'.closed = status /\ link'.replies = r
    BY <1>1, <1>2 DEF LinkType
  <1>4. /\ Len(r) = n /\ \A i \in 1 .. n : i \in 1 .. Len(link.replies)
                                           /\ r[i] = link.replies[i]
    <2>1. 1 \in Int /\ n \in Int /\ n \in Nat
          /\ \A i \in 1 .. n : i \in 1 .. Len(link.replies) /\ link.replies[i] \in Sendable
      BY <1>1
    <2>2. /\ Len(r) = IF 1 <= n THEN n - 1 + 1 ELSE 0
          /\ \A i \in 1 .. n - 1 + 1 : r[i] = link.replies[1 + i - 1]
      BY <2>1, SubSeqProperties
    <2> QED BY <2>1, <2>2
  <1> HIDE DEF r
  <1>5. status = "permanent" => ~stream.handshake /\ r = <<>>
    <2>1. CASE status = "permanent"
      <3>1. ~stream.handshake /\ link.replies = <<>>
        BY <2>1, LoseFinds
      <3>2. n = 0
        BY <3>1
      <3>3. r = <<>>
        BY <3>1, <3>2, SubSeqEmpty DEF r
      <3> QED BY <3>1, <3>3
    <2> QED BY <2>1
  <1>6. stream.handshake =>
            \A i \in 1 .. n : r[i] = pipeline[i] /\ verdict[pipeline[i]] = "ok"
    BY <1>4 DEF FrontInv, CarriesOK
  <1>7. CarriesOK(pipeline, stream, link)'
    <2>1. \A i \in 1 .. Len(link'.sent) : FALSE
      BY <1>3
    <2> QED BY <1>1, <1>3, <1>4, <1>5, <1>6, <2>1 DEF CarriesOK
  <1>8. Settled(queue, tasks)'
    BY <1>1, SettledFrame DEF FrontInv
  <1>9. Len(link'.replies) <= Len(link.replies)
    BY <1>1, <1>3, <1>4
  <1> QED BY <1>1, <1>3, <1>7, <1>8, <1>9, WireStep

LEMMA RestartFront == IInv /\ FrontInv /\ Restart => FrontInv' /\ ~stream'.handshake
  <1> SUFFICES ASSUME IInv, FrontInv, Restart PROVE FrontInv' /\ ~stream'.handshake
    OBVIOUS
  <1>1. /\ user' = provider /\ tasks' = <<>>
        /\ FillWritePipeline(queue[provider], <<>>, Closed("Initial"), NoLink, {})
        /\ UNCHANGED <<provider, queue, author, verdict, told>>
        /\ provider \in Users /\ queue[provider] \in Seq(Writes)
        /\ author \in Seq(Users) /\ Len(author) \in Nat
    BY TypeParts DEF Restart, IInv
  <1>2. /\ Closed("Initial") \in StreamType /\ ~IsStarted(Closed("Initial"))
        /\ ~Closed("Initial").handshake /\ ~Closed("Initial").idle
    BY ClosedType DEF States, IsStarted
  <1>3. \A i \in 1 .. Len(tasks') : FALSE
    BY <1>1
  <1>4. OrderOK(queue, tasks') /\ Ordered(queue[provider])
    BY <1>1, <1>3 DEF FrontInv, OrderOK
  <1>5. /\ IsFront(pipeline', queue[provider])
        /\ (pipeline' # <<>> => IsStarted(stream'))
        /\ StreamOK(pipeline', stream') /\ TokenComing(stream', requests', tasks')
        /\ CarriesOK(pipeline', stream', link') /\ ~stream'.handshake
    BY <1>1, <1>2, <1>4, RefillStep
  <1>6. \A w : IsWaiting(w, queue, tasks') => IsWaiting(w, queue, tasks)
    BY <1>3 DEF IsWaiting
  <1>7. Settled(queue, tasks)'
    BY <1>1, <1>6, SettledFrame DEF FrontInv
  <1> QED BY <1>1, <1>4, <1>5, <1>7, FrontParts

-----------------------------------------------------------------------------
(***************************************************************************)
(* The invariant holds                                                     *)
(***************************************************************************)
LEMMA InitFront == Init => FrontInv
  <1> SUFFICES ASSUME Init PROVE FrontInv
    OBVIOUS
  <1>1. /\ tasks = <<>> /\ pipeline = <<>> /\ link = NoLink /\ user \in Users
        /\ queue = [u \in Users |-> <<>>] /\ stream = Closed("Initial")
        /\ told = [w \in Writes |-> "none"]
    BY DEF Init
  <1>2. \A u \in Users : queue[u] = <<>>
    BY <1>1
  <1>3. /\ ~stream.idle /\ ~stream.handshake /\ stream.state # "Starting"
        /\ ~IsStarted(stream)
    BY <1>1 DEF Closed, IsStarted
  <1>4. OrderOK(queue, tasks)
    BY <1>1, <1>2 DEF OrderOK, Ordered
  <1>5. IsFront(pipeline, queue[user])
    <2>1. pipeline = <<>> /\ queue[user] = <<>>
      BY <1>1, <1>2
    <2> QED BY <2>1 DEF IsFront, Begins
  <1>6. /\ StreamOK(pipeline, stream) /\ TokenComing(stream, requests, tasks)
        /\ CarriesOK(pipeline, stream, link)
    BY <1>1, <1>3, NoLinkType DEF StreamOK, TokenComing, CarriesOK, IsStarted
  <1>7. Settled(queue, tasks)
    BY <1>1 DEF Settled
  <1> QED BY <1>1, <1>4, <1>5, <1>6, <1>7 DEF FrontInv

LEMMA RunTaskFront == IInv /\ FrontInv /\ RunTask => FrontInv'
  BY RunWriteFront, RunUserFront, RunTokenFront DEF RunTask

LEMMA NextFront == IInv /\ FrontInv /\ [Next]_vars => FrontInv'
  <1> SUFFICES ASSUME IInv, FrontInv, [Next]_vars PROVE FrontInv'
    OBVIOUS
  <1>1. CASE AppWrites
    BY <1>1, AppWritesFront
  <1>2. CASE \E u \in Users : AuthChanges(u)
    BY <1>2, AuthChangesFront
  <1>3. ASSUME NEW r \in requests, GotToken(r) \/ NoToken(r) PROVE FrontInv'
    <2>1. CASE GotToken(r)
      <3>1. TokenFor(r) \in {provider, NoUser}
        BY DEF TokenFor
      <3> QED BY <2>1, <3>1, TokenFront DEF GotToken
    <2>2. CASE NoToken(r)
      BY <2>2, TokenFront DEF NoToken
    <2> QED BY <1>3, <2>1, <2>2
  <1>4. CASE Client
    <2>1. CASE OnStreamRead
      BY <2>1, OnHandshakeCompleteFront, OnMutationResultFront
    <2>2. CASE OnStreamClosed
      BY <2>2, OnStreamClosedFront
    <2> QED BY <1>4, <2>1, <2>2, RunTaskFront, BackoffElapsedFront, IdleTimeoutFront
        DEF Client
  <1>5. CASE Server
    BY <1>5, ServerAcceptsFront, ServerRefusesFront DEF Server
  <1>6. CASE \E status \in Statuses : Lose(status)
    BY <1>6, LoseFront
  <1>7. CASE Restart
    BY <1>7, RestartFront
  <1>8. CASE UNCHANGED vars
    <2>1. UNCHANGED <<requests, tasks, user, queue, pipeline, stream, link, author,
                      verdict, told>>
      BY <1>8 DEF vars
    <2>2. CarriesOK(pipeline, stream, link)' /\ Settled(queue, tasks)'
      BY <2>1 DEF FrontInv, CarriesOK, Settled, IsWaiting
    <2> QED BY <2>1, <2>2, WireStep
  <1> QED BY <1>1, <1>2, <1>3, <1>4, <1>5, <1>6, <1>7, <1>8 DEF Next

LEMMA FrontInvariant == Spec => [](IInv /\ FrontInv)
  BY InitIInv, NextIInv, InitFront, NextFront, PTL DEF Spec

\* At most one element: none or one.
LEMMA AtMostOne ==
    ASSUME NEW S, \A x, y \in S : x = y
    PROVE  Cardinality(S) = IF S = {} THEN 0 ELSE 1
  <1>1. CASE S = {}
    BY <1>1, FS_EmptySet
  <1>2. CASE S # {}
    <2>1. PICK x \in S : S = {x}
      BY <1>2
    <2>2. Cardinality({x}) = 1
      BY FS_Singleton
    <2> QED BY <1>2, <2>1, <2>2
  <1> QED BY <1>1, <1>2

LEMMA OneToken == IInv /\ FrontInv => OneTokenWhileStarting
  <1> SUFFICES ASSUME IInv, FrontInv PROVE OneTokenWhileStarting
    OBVIOUS
  <1> DEFINE R == {r \in requests : r.live}
             T == {i \in TokenTasks : tasks[i].live}
  <1>1. /\ \A r \in R : r \in requests /\ r.live
        /\ \A i \in T : i \in 1 .. Len(tasks) /\ IsLiveToken(tasks[i])
        /\ \A r \in requests : r.live => r \in R
        /\ \A i \in 1 .. Len(tasks) : IsLiveToken(tasks[i]) => i \in T
    BY DEF TokenTasks, IsLiveToken
  <1> HIDE DEF R, T
  <1>2. \A x, y \in R : x = y
    BY <1>1 DEF IInv, TokenOK
  <1>3. \A x, y \in T : x = y
    BY <1>1 DEF IInv, TokenOK
  <1>4. T # {} => R = {}
    BY <1>1 DEF IInv, TokenOK
  <1>5. R # {} \/ T # {} <=> stream.state = "Starting"
    BY <1>1 DEF IInv, TokenOK, FrontInv, TokenComing
  <1>6. /\ Cardinality(R) = IF R = {} THEN 0 ELSE 1
        /\ Cardinality(T) = IF T = {} THEN 0 ELSE 1
    BY <1>2, <1>3, AtMostOne
  <1>7. Cardinality(R) + Cardinality(T) = IF stream.state = "Starting" THEN 1 ELSE 0
    BY <1>4, <1>5, <1>6
  <1> QED BY <1>7 DEF OneTokenWhileStarting, R, T

\* The pipeline is the front of the signed-in user's queue, as long as it can
\* be, and the stream runs for it; answers and requests match it write by write;
\* exactly one token is on its way while the stream is Starting; and the idle
\* timer never runs while writes wait: the pipeline, the queue, the connection
\* and the stream never fall out of step.
THEOREM PipelineStaysInStep == Spec => []PipelineInStep
  <1>1. IInv /\ FrontInv => PipelineInStep
    <2> SUFFICES ASSUME IInv, FrontInv PROVE PipelineInStep
      OBVIOUS
    <2>1. /\ user \in Users /\ queue[user] \in Seq(Writes) /\ pipeline \in Seq(Writes)
          /\ Len(pipeline) <= kMaxPendingWrites
      BY TypeParts DEF IInv
    <2>2. PipelineIsFront
      BY <2>1, FrontIsFresh DEF FrontInv, OrderOK, PipelineIsFront
    <2>3. AnswersMatchPipeline
      BY DEF IInv, LinkOK, AnswersMatchPipeline
    <2>4. NotStoppedWhileNeeded
      BY DEF IInv, LinkOK, FrontInv, StreamOK, NotStoppedWhileNeeded
    <2> QED BY <2>2, <2>3, <2>4, OneToken DEF PipelineInStep
  <1> QED BY <1>1, FrontInvariant, PTL

\* A completion block is told what the server last said of its write: never the
\* answer of another write, the error of a lost connection, or an answer the
\* server has since changed because the write was sent twice.
THEOREM CompletionsTellTheTruth == Spec => []ToldTheTruth
  <1>1. FrontInv => ToldTheTruth
    BY DEF FrontInv, Settled, ToldTheTruth
  <1> QED BY <1>1, FrontInvariant, PTL


-----------------------------------------------------------------------------
(***************************************************************************)
(* Each user's queue, with the answers on the wire, implements the         *)
(* abstract queue of writes                                                *)
(***************************************************************************)
AnswerSet == {"ok", "refused"}

\* What a connection k says of the writes in front of the queue.
Said(k) ==
    [i \in 1 .. Len(k.replies) |-> "ok"]
    \o (IF k.closed = "permanent" THEN <<"refused">> ELSE <<>>)

LEMMA OksType ==
    ASSUME NEW n \in Nat
    PROVE  /\ [i \in 1 .. n |-> "ok"] \in Seq(AnswerSet)
           /\ Len([i \in 1 .. n |-> "ok"]) = n
           /\ \A i \in 1 .. n : [j \in 1 .. n |-> "ok"][i] = "ok"
  BY DEF AnswerSet

LEMMA SaidType ==
    ASSUME NEW k \in LinkType
    PROVE  /\ Said(k) \in Seq(AnswerSet) /\ Len(k.replies) \in Nat
           /\ Len(Said(k)) \in Nat
           /\ \A i \in 1 .. Len(k.replies) : Said(k)[i] = "ok"
           /\ IF k.closed = "permanent"
              THEN /\ Len(Said(k)) = Len(k.replies) + 1
                   /\ Said(k)[Len(k.replies) + 1] = "refused"
              ELSE Len(Said(k)) = Len(k.replies)
  <1> DEFINE n == Len(k.replies)
             oks == [i \in 1 .. n |-> "ok"]
             end == <<"refused">>
  <1>1. n \in Nat
    BY DEF LinkType
  <1>2. /\ oks \in Seq(AnswerSet) /\ Len(oks) = n
        /\ \A i \in 1 .. n : oks[i] = "ok"
    BY <1>1, OksType
  <1>3. Said(k) = IF k.closed = "permanent" THEN oks \o end ELSE oks \o <<>>
    BY DEF Said
  <1>4. end \in Seq(AnswerSet) /\ Len(end) = 1 /\ end[1] = "refused"
    BY DEF AnswerSet
  <1> HIDE DEF oks, end, n
  <1>5. CASE k.closed = "permanent"
    <2>1. /\ oks \o end \in Seq(AnswerSet) /\ Len(oks \o end) = n + 1
          /\ \A i \in 1 .. n + 1 : (oks \o end)[i] =
                  IF i <= n THEN oks[i] ELSE end[i - n]
      <3>1. /\ oks \o end \in Seq(AnswerSet) /\ Len(oks \o end) = Len(oks) + Len(end)
            /\ \A i \in 1 .. Len(oks) + Len(end) : (oks \o end)[i] =
                    IF i <= Len(oks) THEN oks[i] ELSE end[i - Len(oks)]
        BY <1>2, <1>4, ConcatProperties
      <3> QED BY <1>2, <1>4, <3>1
    <2>2. /\ n + 1 \in Nat
          /\ \A i \in 1 .. n : i \in 1 .. n + 1 /\ i <= n
      BY <1>1
    <2>3. (oks \o end)[n + 1] = "refused"
      <3>1. \A i \in 1 .. n + 1 : ~(i <= n) => (oks \o end)[i] = end[i - n]
        BY <2>1
      <3> DEFINE e == n + 1
      <3>2. e \in 1 .. e /\ ~(e <= n) /\ e - n = 1
        BY <1>1
      <3>3. \A i \in 1 .. e : ~(i <= n) => (oks \o end)[i] = end[i - n]
        BY <3>1
      <3> HIDE DEF e
      <3>4. (oks \o end)[e] = end[1]
        BY <3>2, <3>3
      <3> QED BY <1>4, <3>4 DEF e
    <2>4. \A i \in 1 .. n : (oks \o end)[i] = "ok"
      BY <1>2, <2>1, <2>2
    <2> QED BY <1>1, <1>3, <1>5, <2>1, <2>2, <2>3, <2>4 DEF n
  <1>6. CASE k.closed # "permanent"
    <2>1. oks \o <<>> = oks
      BY <1>2, ConcatEmptySeq
    <2> QED BY <1>1, <1>2, <1>3, <1>6, <2>1 DEF n
  <1> QED BY <1>5, <1>6

\* An answer of the server comes last.
LEMMA SaidMore ==
    ASSUME NEW k \in LinkType, NEW l \in LinkType, k.closed = "no",
           \/ l.closed = "no" /\ Len(l.replies) = Len(k.replies) + 1
           \/ l.closed = "permanent" /\ Len(l.replies) = Len(k.replies)
    PROVE  \E a \in AnswerSet : Said(l) = Append(Said(k), a)
  <1> DEFINE n == Len(k.replies)
  <1>1. /\ Said(k) \in Seq(AnswerSet) /\ n \in Nat /\ Len(Said(k)) = n
        /\ \A i \in 1 .. n : Said(k)[i] = "ok"
    BY SaidType, "no" # "permanent"
  <1>2. PICK a \in AnswerSet :
            /\ Said(l) \in Seq(AnswerSet) /\ Len(Said(l)) = n + 1
            /\ \A i \in 1 .. n : Said(l)[i] = "ok"
            /\ Said(l)[n + 1] = a
    <2>1. CASE l.closed = "no" /\ Len(l.replies) = n + 1
      <3>1. /\ Said(l) \in Seq(AnswerSet) /\ Len(Said(l)) = n + 1
            /\ \A i \in 1 .. n + 1 : Said(l)[i] = "ok"
        BY <2>1, SaidType
      <3>2. n + 1 \in 1 .. n + 1 /\ \A i \in 1 .. n : i \in 1 .. n + 1
        BY <1>1
      <3> QED BY <3>1, <3>2 DEF AnswerSet
    <2>2. CASE l.closed = "permanent" /\ Len(l.replies) = n
      <3>1. /\ Said(l) \in Seq(AnswerSet) /\ Len(Said(l)) = n + 1
            /\ \A i \in 1 .. n : Said(l)[i] = "ok"
            /\ Said(l)[n + 1] = "refused"
        BY <2>2, SaidType
      <3> QED BY <3>1 DEF AnswerSet
    <2> QED BY <2>1, <2>2
  <1> HIDE DEF n
  <1>3. /\ Append(Said(k), a) \in Seq(AnswerSet) /\ Len(Append(Said(k), a)) = n + 1
        /\ \A i \in 1 .. n : Append(Said(k), a)[i] = Said(k)[i]
        /\ Append(Said(k), a)[n + 1] = a
    BY <1>1, AppendProperties
  <1>4. \A i \in 1 .. n + 1 : i \in 1 .. n \/ i = n + 1
    BY <1>1
  <1>5. \A i \in 1 .. n + 1 : Said(l)[i] = Append(Said(k), a)[i]
    BY <1>1, <1>2, <1>3, <1>4
  <1>6. Said(l) = Append(Said(k), a)
    BY <1>2, <1>3, <1>5, SeqEqual
  <1> QED BY <1>6

\* The first answer goes with the first write.
LEMMA SaidLess ==
    ASSUME NEW k \in LinkType, NEW l \in LinkType, k.replies # <<>>,
           l.closed = k.closed, Len(l.replies) = Len(k.replies) - 1
    PROVE  Said(k) # <<>> /\ Said(l) = Tail(Said(k))
  <1> DEFINE n == Len(l.replies)
             m == Len(Said(l))
  <1>1. /\ Said(l) \in Seq(AnswerSet) /\ n \in Nat /\ m \in Nat
        /\ \A i \in 1 .. n : Said(l)[i] = "ok"
        /\ IF l.closed = "permanent" THEN m = n + 1 /\ Said(l)[n + 1] = "refused"
           ELSE m = n
    BY SaidType
  <1>2. Len(k.replies) = n + 1
    BY DEF LinkType
  <1>3. /\ Said(k) \in Seq(AnswerSet) /\ Len(Said(k)) \in Nat
        /\ \A i \in 1 .. n + 1 : Said(k)[i] = "ok"
        /\ IF l.closed = "permanent"
           THEN Len(Said(k)) = n + 1 + 1 /\ Said(k)[n + 1 + 1] = "refused"
           ELSE Len(Said(k)) = n + 1
    BY <1>2, SaidType
  <1> HIDE DEF n, m
  <1>4. Len(Said(k)) = m + 1 /\ Said(k) # <<>>
    BY <1>1, <1>3, EmptySeq
  <1>5. /\ Tail(Said(k)) \in Seq(AnswerSet)
        /\ Len(Tail(Said(k))) = Len(Said(k)) - 1
        /\ \A i \in 1 .. Len(Tail(Said(k))) : Tail(Said(k))[i] = Said(k)[i + 1]
    BY <1>3, <1>4, HeadTailProperties
  <1>6. Len(Tail(Said(k))) = m
    BY <1>1, <1>4, <1>5
  <1>7. \A i \in 1 .. m : Said(l)[i] = Said(k)[i + 1]
    <2>1. \A i \in 1 .. n : i + 1 \in 1 .. n + 1
      BY <1>1
    <2>2. \A i \in 1 .. m : i \in 1 .. n \/ (l.closed = "permanent" /\ i = n + 1)
      BY <1>1
    <2> QED BY <1>1, <1>3, <2>1, <2>2
  <1>8. \A i \in 1 .. m : Said(l)[i] = Tail(Said(k))[i]
    BY <1>5, <1>6, <1>7
  <1> QED BY <1>1, <1>4, <1>5, <1>6, <1>8, SeqEqual DEF m

\* A lost connection keeps the first answers it had.
LEMMA SaidCut ==
    ASSUME NEW k \in LinkType, NEW l \in LinkType, l.closed # "permanent",
           Len(l.replies) <= Len(k.replies)
    PROVE  \E n \in 0 .. Len(Said(k)) : Said(l) = SubSeq(Said(k), 1, n)
  <1> DEFINE n == Len(l.replies)
             c == SubSeq(Said(k), 1, n)
  <1>1. /\ Said(l) \in Seq(AnswerSet) /\ n \in Nat /\ Len(Said(l)) = n
        /\ \A i \in 1 .. n : Said(l)[i] = "ok"
    BY SaidType
  <1>2. /\ Said(k) \in Seq(AnswerSet) /\ Len(Said(k)) \in Nat
        /\ \A i \in 1 .. Len(k.replies) : Said(k)[i] = "ok"
        /\ Len(k.replies) <= Len(Said(k)) /\ Len(k.replies) \in Nat
    BY SaidType
  <1>3. /\ n <= Len(Said(k)) /\ \A i \in 1 .. n : Said(k)[i] = "ok"
    <2>1. \A i \in 1 .. n : i \in 1 .. Len(k.replies)
      BY <1>1, <1>2
    <2> QED BY <1>1, <1>2, <2>1
  <1>4. /\ c \in Seq(AnswerSet) /\ Len(c) = n
        /\ \A i \in 1 .. n : c[i] = Said(k)[i]
    <2> HIDE DEF n
    <2>1. 0 \in Nat /\ 0 + 1 = 1 /\ 0 + n = n /\ \A i \in 1 .. n : 0 + i = i
      BY <1>1
    <2>2. /\ SubSeq(Said(k), 0 + 1, 0 + n) \in Seq(AnswerSet)
          /\ Len(SubSeq(Said(k), 0 + 1, 0 + n)) = n
          /\ \A i \in 1 .. n : SubSeq(Said(k), 0 + 1, 0 + n)[i] = Said(k)[0 + i]
      BY <1>1, <1>2, <1>3, <2>1, SliceType
    <2> QED BY <2>1, <2>2
  <1> HIDE DEF c, n
  <1>5. Said(l) = c
    BY <1>1, <1>3, <1>4, SeqEqual
  <1>6. n \in 0 .. Len(Said(k))
    BY <1>1, <1>2, <1>3
  <1> QED BY <1>5, <1>6 DEF c

\* Nobody but the signed-in user has answers coming, and only on a connection
\* that has completed its handshake.
LEMMA AnsweredBefore ==
    ASSUME user \in Users
    PROVE  Answered[user] = IF stream.handshake THEN Said(link) ELSE <<>>
  BY DEF Answered, AnswersOf, Said

LEMMA AnsweredStays ==
    ASSUME UNCHANGED <<queue, user>>, stream'.handshake = stream.handshake,
           stream.handshake => link'.replies = link.replies
                               /\ link'.closed = link.closed
    PROVE  UNCHANGED <<queue, Answered>>
  <1>1. \A u \in Users : AnswersOf(u)' = AnswersOf(u)
    BY DEF AnswersOf
  <1> QED BY <1>1 DEF Answered

LEMMA AnsweredNone ==
    ASSUME ~stream'.handshake
    PROVE  Answered' = [u \in Users |-> <<>>]
  BY DEF Answered, AnswersOf

LEMMA AnsweredAfter ==
    ASSUME UNCHANGED user, user \in Users, stream'.handshake
    PROVE  Answered' = [Answered EXCEPT ![user] = Said(link')]
  <1>1. \A u \in Users : AnswersOf(u)' = IF u = user THEN Said(link') ELSE AnswersOf(u)
    BY DEF AnswersOf, Said
  <1> QED BY <1>1 DEF Answered

\* The answers of every user but the signed-in one are gone already.
LEMMA AnsweredEmptied ==
    ASSUME user \in Users, ~stream'.handshake
    PROVE  Answered' = [Answered EXCEPT ![user] = <<>>]
  <1>1. \A u \in Users : u # user => Answered[u] = <<>>
    BY DEF Answered, AnswersOf
  <1>2. [Answered EXCEPT ![user] = <<>>] = [u \in Users |-> <<>>]
    BY <1>1 DEF Answered
  <1> QED BY <1>2, AnsweredNone

LEMMA EmptiedLoses ==
    ASSUME IInv, ~stream'.handshake, UNCHANGED queue
    PROVE  Queue!Lose(user)
  <1>1. user \in Users /\ link \in LinkType
    BY TypeParts DEF IInv
  <1>2. Answered[user] \in Seq(AnswerSet)
    <2>1. <<>> \in Seq(AnswerSet)
      BY EmptySeq
    <2> QED BY <1>1, <2>1, AnsweredBefore, SaidType
  <1>3. SubSeq(Answered[user], 1, 0) = <<>> /\ 0 \in 0 .. Len(Answered[user])
    BY <1>2, SubSeqEmpty
  <1>4. Answered' = [Answered EXCEPT ![user] = SubSeq(Answered[user], 1, 0)]
    BY <1>1, <1>3, AnsweredEmptied
  <1>5. \E n \in 0 .. Len(Answered[user]) :
            Answered' = [Answered EXCEPT ![user] = SubSeq(Answered[user], 1, n)]
    BY <1>3, <1>4
  <1> QED BY <1>5 DEF Queue!Lose, Answered

LEMMA LoseLoses ==
    ASSUME IInv, FrontInv, IInv', NEW status \in Statuses, Lose(status)
    PROVE  Queue!Lose(user)
  <1>1. /\ user \in Users /\ link \in LinkType /\ link' \in LinkType
        /\ UNCHANGED <<queue, user, stream>>
    BY TypeParts DEF IInv, TypeOK, LinkType, Sendable, Lose
  <1>2. CASE stream.handshake
    <2>1. /\ link'.closed # "permanent" /\ Len(link'.replies) <= Len(link.replies)
      BY <1>2, LoseFront, LoseFinds
    <2>2. PICK n \in 0 .. Len(Said(link)) : Said(link') = SubSeq(Said(link), 1, n)
      BY <1>1, <2>1, SaidCut
    <2>3. Answered[user] = Said(link)
      BY <1>1, <1>2, AnsweredBefore
    <2>4. Answered' = [Answered EXCEPT ![user] = Said(link')]
      BY <1>1, <1>2, AnsweredAfter
    <2>5. \E i \in 0 .. Len(Answered[user]) :
            Answered' = [Answered EXCEPT ![user] = SubSeq(Answered[user], 1, i)]
      BY <2>2, <2>3, <2>4
    <2> QED BY <1>1, <2>5 DEF Queue!Lose, Answered
  <1>3. CASE ~stream.handshake
    BY <1>1, <1>3, EmptiedLoses
  <1> QED BY <1>2, <1>3

LEMMA WriteEnqueues ==
    ASSUME IInv, FrontInv, tasks # <<>>, Head(tasks).kind = "write",
           RunWrite(Head(tasks).write)
    PROVE  Queue!Enqueue(user)
  <1>1. Head(tasks).write \in Writes
    BY HeadTask, TaskFields
  <1>2. queue' = [queue EXCEPT ![user] = Append(@, Head(tasks).write)]
        /\ UNCHANGED user
    BY DEF RunWrite
  <1>3. /\ stream'.handshake = stream.handshake
        /\ link'.replies = link.replies /\ link'.closed = link.closed
    BY RunWriteFront
  <1>4. UNCHANGED Answered
    <2>1. \A u \in Users : AnswersOf(u)' = AnswersOf(u)
      BY <1>2, <1>3 DEF AnswersOf
    <2> QED BY <2>1 DEF Answered
  <1> QED BY <1>1, <1>2, <1>4 DEF Queue!Enqueue, Answered

\* The server answers a write that is in the queue, and none behind a refusal.
LEMMA ServerAnswers ==
    ASSUME IInv, FrontInv, IInv', Server, stream.handshake
    PROVE  Queue!Answer(user)
  <1> DEFINE n == Len(link.replies)
  <1>1. /\ user \in Users /\ link \in LinkType /\ link' \in LinkType
        /\ link.sent # <<>> /\ link.closed = "no" /\ link.replies \in Seq(Sendable)
        /\ queue[user] \in Seq(Writes) /\ pipeline \in Seq(Writes)
        /\ UNCHANGED <<queue, user, stream>>
    BY TypeParts DEF IInv, TypeOK, LinkType, Sendable, Server, ServerAccepts,
                     ServerRefuses
  <1>2. n \in Nat /\ n < Len(queue[user])
    <2>1. Len(pipeline) <= Len(queue[user])
      BY DEF FrontInv, IsFront, Begins
    <2> QED BY <1>1, <2>1, NextRequest
  <1>3. \/ link'.closed = "no" /\ Len(link'.replies) = n + 1
        \/ link'.closed = "permanent" /\ Len(link'.replies) = n
    <2>1. CASE ServerAccepts
      <3>1. Head(link.sent) \in Sendable
        BY <1>1, HeadTailProperties DEF LinkType
      <3>2. /\ link'.closed = "no"
            /\ link'.replies = Append(link.replies, Head(link.sent))
        BY <1>1, <2>1 DEF ServerAccepts, LinkType
      <3> QED BY <1>1, <3>1, <3>2, AppendProperties
    <2>2. CASE ServerRefuses
      BY <1>1, <2>2 DEF ServerRefuses, LinkType
    <2> QED BY <2>1, <2>2 DEF Server
  <1>4. PICK a \in AnswerSet : Said(link') = Append(Said(link), a)
    BY <1>1, <1>3, SaidMore
  <1>5. Answered[user] = Said(link)
    BY <1>1, AnsweredBefore
  <1>6. Answered' = [Answered EXCEPT ![user] = Said(link')]
    BY <1>1, AnsweredAfter
  <1>7. /\ Len(Said(link)) = n
        /\ \A i \in 1 .. n : Said(link)[i] = "ok"
    BY <1>1, SaidType
  <1>8. Answered' = [Answered EXCEPT ![user] = Append(Answered[user], a)]
    BY <1>4, <1>5, <1>6
  <1> HIDE DEF n
  <1>9. /\ Len(Answered[user]) < Len(queue[user])
        /\ \A i \in 1 .. Len(Answered[user]) : Answered[user][i] # "refused"
    BY <1>2, <1>5, <1>7
  <1> QED BY <1>1, <1>8, <1>9 DEF Queue!Answer, Queue!Answers, AnswerSet, Answered

LEMMA ResultResolves ==
    ASSUME IInv, FrontInv, IInv', OnStreamRead, stream.handshake
    PROVE  Queue!Resolve(user)
  <1>1. /\ user \in Users /\ link \in LinkType /\ link' \in LinkType
        /\ link.replies # <<>> /\ UNCHANGED user
        /\ stream'.handshake /\ link'.closed = link.closed
        /\ queue' = [queue EXCEPT ![user] = Tail(@)]
        /\ Len(link'.replies) = Len(link.replies) - 1
    BY TypeParts, AnswerFinds, OnMutationResultFront
        DEF IInv, TypeOK, LinkType, Sendable, OnStreamRead
  <1>2. Said(link) # <<>> /\ Said(link') = Tail(Said(link))
    BY <1>1, SaidLess
  <1>3. Answered[user] = Said(link)
    BY <1>1, AnsweredBefore
  <1>4. Answered' = [Answered EXCEPT ![user] = Tail(Answered[user])]
    BY <1>1, <1>2, <1>3, AnsweredAfter
  <1> QED BY <1>1, <1>2, <1>3, <1>4 DEF Queue!Resolve, Answered

\* A refusal takes its write with it and leaves no answer.
LEMMA ClosedResolves ==
    ASSUME IInv, FrontInv, OnStreamClosed, IsWriteError(link.closed)
    PROVE  Queue!Resolve(user)
  <1>1. /\ user \in Users /\ link \in LinkType /\ link.replies = <<>>
        /\ stream.handshake /\ link.closed = "permanent"
    BY TypeParts DEF IInv, OnStreamClosed, IsWriteError
  <1>2. ~stream'.handshake /\ queue' = [queue EXCEPT ![user] = Tail(@)]
    BY OnStreamClosedFront
  <1>3. Answered[user] = Said(link)
    BY <1>1, AnsweredBefore
  <1>4. Said(link) \in Seq(AnswerSet) /\ Len(Said(link)) = 1
    <2>1. /\ Said(link) \in Seq(AnswerSet) /\ Len(link.replies) \in Nat
          /\ Len(Said(link)) = Len(link.replies) + 1
      BY <1>1, SaidType
    <2>2. Len(link.replies) = 0
      BY <1>1, EmptySeq
    <2> QED BY <2>1, <2>2
  <1>5. Said(link) # <<>> /\ Tail(Said(link)) = <<>>
    <2>1. Said(link) # <<>>
      BY <1>4
    <2>2. /\ Tail(Said(link)) \in Seq(AnswerSet)
          /\ Len(Tail(Said(link))) = Len(Said(link)) - 1
      BY <1>4, <2>1, HeadTailProperties
    <2>3. Len(Tail(Said(link))) = 0
      BY <1>4, <2>2
    <2> QED BY <2>1, <2>2, <2>3, EmptySeq
  <1>6. Answered' = [Answered EXCEPT ![user] = Tail(Answered[user])]
    BY <1>1, <1>2, <1>3, <1>5, AnsweredEmptied
  <1> QED BY <1>2, <1>3, <1>5, <1>6 DEF Queue!Resolve, Answered

LEMMA QueueStep ==
    IInv /\ FrontInv /\ IInv' /\ [Next]_vars => [Queue!Next]_<<queue, Answered>>
  <1> SUFFICES ASSUME IInv, FrontInv, IInv', [Next]_vars
               PROVE  Queue!Next \/ UNCHANGED <<queue, Answered>>
    OBVIOUS
  <1> DEFINE Step == Queue!Next \/ UNCHANGED <<queue, Answered>>
  <1> SUFFICES Step
    OBVIOUS
  <1>1. user \in Users
    BY TypeParts DEF IInv
  <1>2. /\ Queue!Enqueue(user) => Queue!Next
        /\ Queue!Answer(user) => Queue!Next
        /\ Queue!Resolve(user) => Queue!Next
        /\ Queue!Lose(user) => Queue!Next
    BY <1>1 DEF Queue!Next
  <1> HIDE DEF Step
  <1>3. UNCHANGED <<queue, user, stream, link>> => Step
    BY AnsweredStays DEF Step
  <1>4. UNCHANGED queue /\ ~stream'.handshake => Step
    BY <1>2, EmptiedLoses DEF Step
  <1>5. CASE \/ AppWrites \/ \E u \in Users : AuthChanges(u)
             \/ \E r \in requests : GotToken(r) \/ NoToken(r)
             \/ UNCHANGED vars
    BY <1>3, <1>5 DEF AppWrites, AuthChanges, GotToken, NoToken, vars
  <1>6. CASE RunTask
    <2>1. CASE Head(tasks).kind = "write" /\ RunWrite(Head(tasks).write)
      BY <1>2, <1>6, <2>1, WriteEnqueues DEF RunTask, Step
    <2>2. CASE Head(tasks).kind = "user" /\ RunUser(Head(tasks).user)
      <3>1. UNCHANGED queue /\ ~stream'.handshake
        BY <1>6, <2>2, RunUserFront DEF RunTask, RunUser
      <3> QED BY <1>4, <3>1
    <2>3. CASE Head(tasks).kind = "token" /\ RunToken(Head(tasks))
      BY <1>3, <1>4, <1>6, <2>3, RunTokenFront DEF RunTask
    <2> QED BY <1>6, <2>1, <2>2, <2>3 DEF RunTask
  <1>7. CASE BackoffElapsed
    <2>1. UNCHANGED <<queue, user, link>> /\ stream'.handshake = stream.handshake
      BY <1>7, TypeParts DEF BackoffElapsed, Start, IInv, StreamType
    <2> QED BY <2>1, AnsweredStays DEF Step
  <1>8. CASE IdleTimeout
    BY <1>4, <1>8 DEF IdleTimeout, Closed
  <1>9. CASE OnStreamRead
    <2>1. CASE stream.handshake
      BY <1>2, <1>9, <2>1, ResultResolves DEF Step
    <2>2. CASE ~stream.handshake
      <3>1. /\ link.replies # <<>> /\ UNCHANGED <<queue, user>>
            /\ stream' = Wrote([stream EXCEPT !.handshake = TRUE])
            /\ link' = [link EXCEPT !.replies = Tail(@), !.sent = @ \o pipeline]
        BY <1>9, <2>2 DEF OnStreamRead, OnHandshakeComplete
      <3>2. Tail(link.replies) = <<>> /\ link.closed # "permanent"
        BY <2>2, <3>1, HandshakeAnswer
      <3>3. /\ stream'.handshake /\ link'.replies = <<>>
            /\ link'.closed # "permanent" /\ link' \in LinkType
        BY <3>1, <3>2, TypeParts DEF IInv, TypeOK, StreamType, LinkType, Wrote, Sendable
      <3>4. Said(link') = <<>>
        BY <3>3, SaidType, EmptySeq
      <3>5. Answered' = [Answered EXCEPT ![user] = <<>>]
        BY <1>1, <3>1, <3>3, <3>4, AnsweredAfter
      <3>6. Answered[user] = <<>>
        BY <1>1, <2>2, AnsweredBefore
      <3>7. UNCHANGED Answered
        BY <3>5, <3>6 DEF Answered
      <3> QED BY <3>1, <3>7 DEF Step
    <2> QED BY <2>1, <2>2
  <1>10. CASE OnStreamClosed
    <2>1. CASE IsWriteError(link.closed)
      BY <1>2, <1>10, <2>1, ClosedResolves DEF Step
    <2>2. CASE ~IsWriteError(link.closed)
      BY <1>4, <1>10, <2>2, OnStreamClosedFront
    <2> QED BY <2>1, <2>2
  <1>11. CASE Server
    <2>1. CASE stream.handshake
      BY <1>2, <1>11, <2>1, ServerAnswers DEF Step
    <2>2. CASE ~stream.handshake
      BY <1>11, <2>2, AnsweredStays DEF Server, ServerAccepts, ServerRefuses, Step
    <2> QED BY <2>1, <2>2
  <1>12. CASE \E status \in Statuses : Lose(status)
    BY <1>2, <1>12, LoseLoses DEF Step
  <1>13. CASE Restart
    BY <1>4, <1>13, RestartFront DEF Restart
  <1> QED BY <1>5, <1>6, <1>7, <1>8, <1>9, <1>10, <1>11, <1>12, <1>13
        DEF Next, Client

\* Over user changes, restarts, lost connections, refusals and writes sent
\* again, each user's queue is an abstract queue of writes: writes leave it at
\* its front only, each with its answer, and none is executed behind a refused
\* one the device has not heard of.
THEOREM ImplementsWriteQueue == Spec => QueueSpec
  <1>1. Init => Queue!Init
    <2> SUFFICES ASSUME Init PROVE Queue!Init
      OBVIOUS
    <2>1. queue = [u \in Users |-> <<>>] /\ ~stream.handshake
      BY DEF Init, Closed
    <2>2. Answered = [u \in Users |-> <<>>]
      BY <2>1 DEF Answered, AnswersOf
    <2> QED BY <2>1, <2>2 DEF Queue!Init
  <1>2. IInv /\ FrontInv /\ IInv' /\ [Next]_vars => [Queue!Next]_<<queue, Answered>>
    BY QueueStep
  <1> QED BY <1>1, <1>2, FrontInvariant, PTL DEF Spec, QueueSpec, Queue!Spec
=============================================================================
