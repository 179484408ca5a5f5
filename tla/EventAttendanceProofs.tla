------------------------ MODULE EventAttendanceProofs ------------------------
(***************************************************************************)
(* Proofs about EventAttendance, for every set of users and devices, every *)
(* assignment of accounts to devices and every bound.                      *)
(***************************************************************************)
EXTENDS EventAttendance, TLAPS

-----------------------------------------------------------------------------

\* A transform of a member's RSVP yields a document, and never makes one
\* exist or cease to exist.
LEMMA TransformType ==
    ASSUME NEW op, NEW u \in Users, NEW doc \in Doc
    PROVE  /\ Transform(op, u, doc) \in Doc
           /\ Transform(op, u, doc).exists = doc.exists
  BY DEF Transform, Doc

LEMMA OverlayType ==
    ASSUME NEW doc \in Doc, NEW ops \in Seq(Ops), NEW u,
           u \in Users \/ ops = <<>>
    PROVE  /\ Overlay(doc, ops, u) \in Doc
           /\ Overlay(doc, ops, u).exists = doc.exists
  <1>1. CASE ops = <<>>
    BY <1>1 DEF Overlay
  <1>2. CASE ops # <<>>
    BY <1>2, TransformType DEF Overlay
  <1> QED BY <1>1, <1>2

LEMMA ViewType ==
    ASSUME TypeOK, NEW d \in Devices
    PROVE  /\ View(d) \in Doc
           /\ View(d).exists = cache[d].doc.exists
  <1>1. /\ cache[d].doc \in Doc
        /\ pending[d] \in Seq(Ops)
        /\ Owner[d] \in Users \/ pending[d] = <<>>
    BY OwnerAssumption DEF TypeOK, Cached
  <1> QED BY <1>1, OverlayType DEF View

LEMMA AppendType ==
    ASSUME NEW S, NEW s \in Seq(S), NEW x \in S
    PROVE  /\ Append(s, x) \in Seq(S) /\ Append(s, x) # <<>>
           /\ Len(Append(s, x)) = Len(s) + 1
           /\ Append(s, x)[Len(s) + 1] = x
           /\ \A i \in 1 .. Len(s) : Append(s, x)[i] = s[i]
  OBVIOUS

LEMMA TailType ==
    ASSUME NEW S, NEW s \in Seq(S), s # <<>>
    PROVE  /\ Head(s) \in S /\ Head(s) = s[1]
           /\ Tail(s) \in Seq(S)
           /\ Len(Tail(s)) = Len(s) - 1
           /\ \A i \in 1 .. Len(s) - 1 : Tail(s)[i] = s[i + 1]
  OBVIOUS

-----------------------------------------------------------------------------

\* The listener's queue keeps its type when the caches and queues do.
LEMMA NotifyType ==
    ASSUME TypeOK, NEW d \in Devices, Notify(d),
           cache' \in [Devices -> Cached],
           pending' \in [Devices -> Seq(Ops)],
           Owner[d] = NoUser => pending'[d] = <<>>
    PROVE  snapshots' \in [Devices -> Seq(Doc)]
  <1>1. View(d)' = Overlay(cache'[d].doc, pending'[d], Owner[d])
    BY DEF View
  <1>2. /\ cache'[d].doc \in Doc
        /\ pending'[d] \in Seq(Ops)
        /\ Owner[d] \in Users \/ pending'[d] = <<>>
    BY OwnerAssumption DEF Cached
  <1>3. View(d)' \in Doc
    BY <1>1, <1>2, OverlayType
  <1>4. snapshots[d] \in Seq(Doc) /\ snapshots \in [Devices -> Seq(Doc)]
    BY DEF TypeOK
  <1>5. Append(snapshots[d], View(d)') \in Seq(Doc)
    BY <1>3, <1>4, AppendType
  <1> QED BY <1>4, <1>5 DEF Notify

LEMMA TypeInit == Init => TypeOK
  <1> SUFFICES ASSUME Init PROVE TypeOK
    OBVIOUS
  <1>1. PICK doc \in Doc :
          /\ log = <<doc>>
          /\ cache = [d \in Devices |-> Watched(1, doc)]
    BY DEF Init
  <1>2. log \in Seq(Doc) /\ log # <<>> /\ Len(log) = 1
    BY <1>1
  <1>3. /\ Watched(1, doc) \in Cached
        /\ Watched(1, doc).version = 1 /\ Watched(1, doc).snapshot = 1
    BY DEF Watched, Cached
  <1>4. /\ cache \in [Devices -> Cached]
        /\ \A d \in Devices : /\ cache[d].version \in 1 .. Len(log)
                              /\ cache[d].snapshot \in 1 .. Len(log)
    BY <1>1, <1>2, <1>3
  <1> QED BY <1>2, <1>4 DEF Init, TypeOK, ClosedScreen, Ops, Doc

LEMMA SeqMonotone ==
    ASSUME NEW S, NEW T, S \subseteq T, NEW s \in Seq(S)
    PROVE  s \in Seq(T)
  OBVIOUS

LEMMA CommitType == ASSUME TypeOK, NEW d \in Devices, Commit(d) PROVE TypeOK'
  <1> DEFINE next == Len(results[d]) + 1
             doc == Executed(d, pending[d][next])
  <1>1. /\ pending[d] \in Seq(Ops) /\ results[d] \in Seq(0 .. Len(log))
        /\ log \in Seq(Doc) /\ Len(log) \in Nat \ {0}
        /\ next \in 1 .. Len(pending[d])
    BY DEF TypeOK, Commit
  <1>2. Owner[d] \in Users
    BY <1>1, OwnerAssumption DEF TypeOK
  <1>3. Current \in Doc /\ doc \in Doc
    BY <1>1, <1>2, TransformType DEF Current, Executed
  <1>4. /\ log' \in Seq(Doc) /\ log' # <<>>
        /\ Len(log) <= Len(log') /\ Len(log') \in Nat
    <2>1. log' = log \/ log' = Append(log, doc)
      BY DEF Commit
    <2>2. /\ Append(log, doc) \in Seq(Doc) /\ Append(log, doc) # <<>>
          /\ Len(Append(log, doc)) = Len(log) + 1
      BY <1>1, <1>3, AppendType
    <2> HIDE DEF doc
    <2>3. CASE log' = log
      BY <1>1, <2>3
    <2>4. CASE log' = Append(log, doc)
      BY <1>1, <2>2, <2>4
    <2> QED BY <2>1, <2>3, <2>4
  <1>5. PICK r \in 0 .. Len(log') : results' = [results EXCEPT ![d] = Append(@, r)]
    BY <1>4 DEF Commit, NotFound
  <1>6. \A e \in Devices : results[e] \in Seq(0 .. Len(log'))
    <2>1. 0 .. Len(log) \subseteq 0 .. Len(log')
      BY <1>1, <1>4
    <2> QED BY <2>1, SeqMonotone DEF TypeOK
  <1>7. /\ results'[d] = Append(results[d], r)
        /\ results' \in [Devices -> Seq(0 .. Len(log'))]
        /\ \A e \in Devices : e # d => results'[e] = results[e]
    BY <1>5, <1>6, AppendType DEF TypeOK
  <1>8. \A e \in Devices : Len(results'[e]) <= Len(pending[e])
    <2>1. Len(results'[d]) = next
      BY <1>6, <1>7, AppendType
    <2>2. Len(results'[d]) <= Len(pending[d])
      BY <1>1, <2>1
    <2> QED BY <1>7, <2>2 DEF TypeOK
  <1>9. intent' \in [Devices -> Ops \cup {"none"}]
    BY DEF Commit, TypeOK
  <1>10. \A e \in Devices : /\ cache[e].version \in 1 .. Len(log')
                            /\ cache[e].snapshot \in 1 .. Len(log')
    BY <1>1, <1>4 DEF TypeOK
  <1> QED BY <1>4, <1>7, <1>8, <1>9, <1>10 DEF Commit, TypeOK

\* Taking the answered write off both queues keeps them in step.
LEMMA PopType ==
    ASSUME TypeOK, NEW d \in Devices, results[d] # <<>>,
           pending' = [pending EXCEPT ![d] = Tail(@)],
           results' = [results EXCEPT ![d] = Tail(@)]
    PROVE  /\ pending[d] # <<>> /\ Owner[d] \in Users
           /\ Head(pending[d]) \in Ops
           /\ Head(results[d]) \in 0 .. Len(log)
           /\ pending' \in [Devices -> Seq(Ops)]
           /\ results' \in [Devices -> Seq(0 .. Len(log))]
           /\ \A e \in Devices :
                /\ Len(results'[e]) <= Len(pending'[e])
                /\ Owner[e] = NoUser => pending'[e] = <<>>
  <1>1. /\ pending[d] \in Seq(Ops) /\ results[d] \in Seq(0 .. Len(log))
        /\ Len(results[d]) <= Len(pending[d])
        /\ Owner[d] = NoUser => pending[d] = <<>>
    BY DEF TypeOK
  <1>2. pending[d] # <<>> /\ Owner[d] \in Users /\ Owner[d] # NoUser
    BY <1>1, OwnerAssumption
  <1>3. /\ Head(pending[d]) \in Ops
        /\ Tail(pending[d]) \in Seq(Ops)
        /\ Len(Tail(pending[d])) = Len(pending[d]) - 1
    BY <1>1, <1>2, TailType
  <1>4. /\ Head(results[d]) \in 0 .. Len(log)
        /\ Tail(results[d]) \in Seq(0 .. Len(log))
        /\ Len(Tail(results[d])) = Len(results[d]) - 1
    BY <1>1, TailType
  <1>5. Len(Tail(results[d])) <= Len(Tail(pending[d]))
    BY <1>1, <1>3, <1>4
  <1> QED BY <1>2, <1>3, <1>4, <1>5 DEF TypeOK

\* An acknowledgement replays its write, or finds a copy as new.
LEMMA AcknowledgedIs ==
    ASSUME NEW d \in Devices, cache[d] \in Cached
    PROVE  \/ /\ cache[d].version < Head(results[d])
              /\ Acknowledged(d) =
                    [version |-> Head(results[d]),
                     doc |-> Transform(Head(pending[d]), Owner[d], cache[d].doc),
                     committed |-> TRUE,
                     snapshot |-> cache[d].snapshot]
           \/ /\ ~(cache[d].version < Head(results[d]))
              /\ Acknowledged(d) = cache[d]
  BY DEF Acknowledged, Replayed, Cached

LEMMA AckType == ASSUME TypeOK, NEW d \in Devices, Ack(d) PROVE TypeOK'
  <1>1. /\ pending[d] # <<>> /\ Owner[d] \in Users
        /\ Head(pending[d]) \in Ops /\ Head(results[d]) \in 0 .. Len(log)
        /\ pending' \in [Devices -> Seq(Ops)]
        /\ results' \in [Devices -> Seq(0 .. Len(log))]
        /\ \A e \in Devices :
             /\ Len(results'[e]) <= Len(pending'[e])
             /\ Owner[e] = NoUser => pending'[e] = <<>>
    BY PopType DEF Ack
  <1>2. /\ cache[d] \in Cached
        /\ cache[d].version \in 1 .. Len(log)
        /\ cache[d].snapshot \in 1 .. Len(log)
        /\ Transform(Head(pending[d]), Owner[d], cache[d].doc) \in Doc
        /\ Len(log) \in Nat
    BY <1>1, TransformType DEF TypeOK, Cached
  <1>3. /\ Acknowledged(d) \in Cached
        /\ Acknowledged(d).version \in 1 .. Len(log)
        /\ Acknowledged(d).snapshot \in 1 .. Len(log)
    <2>1. CASE ~(cache[d].version < Head(results[d]))
      BY <1>2, <2>1, AcknowledgedIs
    <2>2. CASE cache[d].version < Head(results[d])
      <3>1. Head(results[d]) \in 1 .. Len(log)
        BY <1>1, <1>2, <2>2
      <3>2. Acknowledged(d) =
                    [version |-> Head(results[d]),
                     doc |-> Transform(Head(pending[d]), Owner[d], cache[d].doc),
                     committed |-> TRUE,
                     snapshot |-> cache[d].snapshot]
        BY <1>2, <2>2, AcknowledgedIs
      <3> QED BY <1>2, <3>1, <3>2 DEF Cached
    <2> QED BY <2>1, <2>2
  <1>4. /\ cache' \in [Devices -> Cached]
        /\ \A e \in Devices : /\ cache'[e].version \in 1 .. Len(log)
                              /\ cache'[e].snapshot \in 1 .. Len(log)
    BY <1>3 DEF Ack, TypeOK
  <1>5. snapshots' \in [Devices -> Seq(Doc)]
    BY <1>1, <1>4, NotifyType DEF Ack
  <1> QED BY <1>1, <1>4, <1>5 DEF Ack, TypeOK

LEMMA RejectType == ASSUME TypeOK, NEW d \in Devices, Reject(d) PROVE TypeOK'
  <1>1. /\ pending' \in [Devices -> Seq(Ops)]
        /\ results' \in [Devices -> Seq(0 .. Len(log))]
        /\ \A e \in Devices :
             /\ Len(results'[e]) <= Len(pending'[e])
             /\ Owner[e] = NoUser => pending'[e] = <<>>
    BY PopType DEF Reject
  <1>2. cache' \in [Devices -> Cached]
    BY DEF Reject, TypeOK
  <1>3. snapshots' \in [Devices -> Seq(Doc)]
    BY <1>1, <1>2, NotifyType DEF Reject
  <1> QED BY <1>1, <1>3 DEF Reject, TypeOK

ScreenState == [open : BOOLEAN, attending : BOOLEAN, attendingUID : SUBSET Users]

LEMMA ScreenUpdate ==
    ASSUME NEW s \in [Devices -> ScreenState], NEW d \in Devices,
           NEW b \in BOOLEAN, NEW list \in SUBSET Users
    PROVE  /\ [s EXCEPT ![d].attending = b] \in [Devices -> ScreenState]
           /\ [s EXCEPT ![d].attendingUID = list, ![d].attending = b]
                \in [Devices -> ScreenState]
  BY DEF ScreenState

LEMMA SpentUpdate ==
    ASSUME NEW s \in [taps : Nat, admin : Nat, drops : Nat]
    PROVE  /\ [s EXCEPT !.taps = @ + 1] \in [taps : Nat, admin : Nat, drops : Nat]
           /\ [s EXCEPT !.admin = @ + 1] \in [taps : Nat, admin : Nat, drops : Nat]
           /\ [s EXCEPT !.drops = @ + 1] \in [taps : Nat, admin : Nat, drops : Nat]
  OBVIOUS

LEMMA ScreenActionsType ==
    ASSUME TypeOK, NEW d \in Devices,
           OpenDetails(d) \/ BackButton(d) \/ ListenerFires(d)
    PROVE  TypeOK'
  <1> USE DEF ClosedScreen, OpenScreen
  <1>1. CASE OpenDetails(d)
    <2>1. <<View(d)>> \in Seq(Doc)
      BY ViewType
    <2>2. PICK doc \in History \cup {View(d)} :
            screen' = [screen EXCEPT ![d] = OpenScreen(doc.attending)]
      BY <1>1 DEF OpenDetails
    <2>3. doc.attending \in SUBSET Users
      <3>1. History \subseteq Doc
        BY DEF History, TypeOK
      <3> QED BY <3>1, ViewType DEF Doc
    <2> QED BY <1>1, <2>1, <2>2, <2>3 DEF OpenDetails, TypeOK
  <1>2. CASE BackButton(d)
    BY <1>2 DEF BackButton, TypeOK
  <1>3. CASE ListenerFires(d)
    <2>1. /\ snapshots[d] \in Seq(Doc) /\ snapshots[d] # <<>>
      BY <1>3 DEF ListenerFires, TypeOK
    <2>2. Head(snapshots[d]) \in Doc /\ Tail(snapshots[d]) \in Seq(Doc)
      BY <2>1, TailType
    <2>3. FlagAfter(d, Head(snapshots[d])) \in BOOLEAN
      BY DEF FlagAfter, TypeOK
    <2>4. Head(snapshots[d]).attending \in SUBSET Users
      BY <2>2 DEF Doc
    <2>5. screen' \in [Devices -> ScreenState]
      <3>1. screen \in [Devices -> ScreenState]
        BY DEF TypeOK, ScreenState
      <3>2. screen' = screen
            \/ screen' = [screen EXCEPT
                   ![d].attendingUID = Head(snapshots[d]).attending,
                   ![d].attending = FlagAfter(d, Head(snapshots[d]))]
        BY <1>3 DEF ListenerFires
      <3>3. [screen EXCEPT
               ![d].attendingUID = Head(snapshots[d]).attending,
               ![d].attending = FlagAfter(d, Head(snapshots[d]))]
             \in [Devices -> ScreenState]
        BY <2>3, <2>4, <3>1, ScreenUpdate, Zenon
      <3> QED BY <3>1, <3>2, <3>3
    <2>6. snapshots' \in [Devices -> Seq(Doc)]
      BY <1>3, <2>2 DEF ListenerFires, TypeOK
    <2> QED BY <1>3, <2>5, <2>6 DEF ListenerFires, TypeOK, ScreenState
  <1> QED BY <1>1, <1>2, <1>3

LEMMA ButtonType ==
    ASSUME TypeOK, NEW d \in Devices, AttendingButton(d) PROVE TypeOK'
  <1> DEFINE op == IF screen[d].attending THEN "arrayRemove" ELSE "arrayUnion"
  <1>1. op \in Ops /\ pending[d] \in Seq(Ops)
    BY DEF Ops, TypeOK
  <1>2. /\ Append(pending[d], op) \in Seq(Ops)
        /\ Len(Append(pending[d], op)) = Len(pending[d]) + 1
    BY <1>1, AppendType
  <1>3. pending' = [pending EXCEPT ![d] = Append(@, op)]
    BY DEF AttendingButton
  <1> HIDE DEF op
  <1>4. /\ pending' \in [Devices -> Seq(Ops)]
        /\ \A e \in Devices : Len(pending'[e]) >= Len(pending[e])
        /\ \A e \in Devices : Owner[e] = NoUser => pending'[e] = <<>>
    BY <1>1, <1>2, <1>3 DEF AttendingButton, TypeOK
  <1>5. cache' \in [Devices -> Cached]
    BY DEF AttendingButton, TypeOK
  <1>6. snapshots' \in [Devices -> Seq(Doc)]
    BY <1>4, <1>5, NotifyType DEF AttendingButton
  <1>7. intent' \in [Devices -> Ops \cup {"none"}]
    BY <1>1 DEF AttendingButton, TypeOK, op
  <1>8. \A e \in Devices : Len(results[e]) <= Len(pending'[e])
    BY <1>4 DEF TypeOK
  <1>9. screen' \in [Devices -> ScreenState]
    <2>1. screen \in [Devices -> ScreenState]
      BY DEF TypeOK, ScreenState
    <2>2. (~screen[d].attending) \in BOOLEAN
      BY Zenon
    <2>3. screen' = [screen EXCEPT ![d].attending = ~screen[d].attending]
      BY DEF AttendingButton
    <2> QED BY <2>1, <2>2, <2>3, ScreenUpdate
  <1>10. spent' \in [taps : Nat, admin : Nat, drops : Nat]
    BY SpentUpdate DEF AttendingButton, TypeOK
  <1> QED BY <1>4, <1>6, <1>7, <1>8, <1>9, <1>10
       DEF AttendingButton, TypeOK, ScreenState

\* A watch update brings the document of its snapshot, or only moves that of
\* the cache on.
LEMMA WatchIs ==
    ASSUME TypeOK, NEW d \in Devices, WatchUpdate(d)
    PROVE  \E v \in 1 .. Len(log), c \in Cached :
             /\ cache' = [cache EXCEPT ![d] = c]
             /\ v >= cache[d].snapshot /\ c.snapshot = v
             /\ \/ Applies(d, v) /\ c.version = v /\ ~c.committed
                \/ /\ ~Applies(d, v)
                   /\ c.version = cache[d].version
                   /\ c.committed = cache[d].committed
  <1>1. PICK v \in Deliverable(d) :
          cache' = [cache EXCEPT ![d] = IF Applies(d, v) THEN Watched(v, log[v])
                                        ELSE [@ EXCEPT !.snapshot = v]]
    BY DEF WatchUpdate
  <1>2. /\ v \in 1 .. Len(log) /\ log[v] \in Doc /\ v >= cache[d].snapshot
        /\ cache[d] \in Cached
    BY DEF Deliverable, TypeOK
  <1> DEFINE c == IF Applies(d, v) THEN Watched(v, log[v])
                  ELSE [cache[d] EXCEPT !.snapshot = v]
  <1>3. /\ c \in Cached /\ c.snapshot = v
        /\ \/ Applies(d, v) /\ c.version = v /\ ~c.committed
           \/ /\ ~Applies(d, v)
              /\ c.version = cache[d].version
              /\ c.committed = cache[d].committed
    <2>1. CASE Applies(d, v)
      <3>1. c = Watched(v, log[v])
        BY <2>1
      <3> QED BY <1>2, <2>1, <3>1 DEF Watched, Cached
    <2>2. CASE ~Applies(d, v)
      <3>1. c = [cache[d] EXCEPT !.snapshot = v]
        BY <2>2
      <3> QED BY <1>2, <2>2, <3>1 DEF Cached
    <2> QED BY <2>1, <2>2
  <1>4. cache' = [cache EXCEPT ![d] = c]
    BY <1>1
  <1> QED BY <1>2, <1>3, <1>4

LEMMA WatchType ==
    ASSUME TypeOK, NEW d \in Devices, WatchUpdate(d) PROVE TypeOK'
  <1>1. PICK v \in 1 .. Len(log), c \in Cached :
             /\ cache' = [cache EXCEPT ![d] = c]
             /\ c.snapshot = v
             /\ c.version = v \/ c.version = cache[d].version
    BY WatchIs
  <1>2. /\ cache' \in [Devices -> Cached]
        /\ \A e \in Devices : /\ cache'[e].version \in 1 .. Len(log)
                              /\ cache'[e].snapshot \in 1 .. Len(log)
    BY <1>1 DEF TypeOK
  <1>3. snapshots' \in [Devices -> Seq(Doc)]
    <2>1. pending' \in [Devices -> Seq(Ops)]
          /\ (Owner[d] = NoUser => pending'[d] = <<>>)
      BY DEF WatchUpdate, TypeOK
    <2> QED BY <1>2, <2>1, NotifyType DEF WatchUpdate
  <1> QED BY <1>2, <1>3 DEF WatchUpdate, TypeOK

LEMMA DropType ==
    ASSUME TypeOK, NEW d \in Devices, Reconnect(d) \/ Restart(d) PROVE TypeOK'
  <1>1. results' = [results EXCEPT ![d] = <<>>]
    BY DEF Reconnect, Restart
  <1>2. /\ results' \in [Devices -> Seq(0 .. Len(log))]
        /\ \A e \in Devices : Len(results'[e]) <= Len(pending[e])
    BY <1>1 DEF TypeOK
  <1>3. spent' \in [taps : Nat, admin : Nat, drops : Nat]
    BY SpentUpdate DEF Reconnect, Restart, TypeOK
  <1>4. CASE Reconnect(d)
    BY <1>2, <1>3, <1>4 DEF Reconnect, TypeOK
  <1>5. CASE Restart(d)
    <2>1. snapshots' \in [Devices -> Seq(Doc)]
      BY <1>5 DEF Restart, TypeOK
    <2>2. screen' \in [Devices -> [open : BOOLEAN, attending : BOOLEAN,
                                   attendingUID : SUBSET Users]]
      BY <1>5 DEF Restart, TypeOK, ClosedScreen
    <2> QED BY <1>2, <1>3, <1>5, <2>1, <2>2 DEF Restart, TypeOK
  <1> QED BY <1>4, <1>5

LEMMA AdminType ==
    ASSUME TypeOK, AdminSave \/ AdminDelete PROVE TypeOK'
  <1>1. PICK doc \in Doc : AdminWrite(doc)
    BY DEF AdminSave, AdminDelete, NewDoc, NoDoc, Doc
  <1>2. /\ log' \in Seq(Doc) /\ log' # <<>> /\ Len(log') = Len(log) + 1
        /\ Len(log) \in Nat
    <2>1. log \in Seq(Doc) /\ log' = Append(log, doc)
      BY <1>1 DEF AdminWrite, TypeOK
    <2> QED BY <2>1, AppendType
  <1>3. \A e \in Devices : results[e] \in Seq(0 .. Len(log'))
    <2>1. 0 .. Len(log) \subseteq 0 .. Len(log')
      BY <1>2
    <2> QED BY <2>1, SeqMonotone DEF TypeOK
  <1>4. results' \in [Devices -> Seq(0 .. Len(log'))]
    BY <1>1, <1>3 DEF AdminWrite, TypeOK
  <1>5. \A e \in Devices : /\ cache'[e].version \in 1 .. Len(log')
                           /\ cache'[e].snapshot \in 1 .. Len(log')
    BY <1>1, <1>2 DEF AdminWrite, TypeOK
  <1>6. /\ intent' \in [Devices -> Ops \cup {"none"}]
        /\ spent' \in [taps : Nat, admin : Nat, drops : Nat]
    BY <1>1, SpentUpdate DEF AdminWrite, TypeOK
  <1>7. UNCHANGED <<cache, pending, results, snapshots, screen>>
    BY <1>1 DEF AdminWrite
  <1> QED BY <1>2, <1>4, <1>5, <1>6, <1>7 DEF TypeOK

LEMMA TypeNext == TypeOK /\ [Next]_vars => TypeOK'
  <1> SUFFICES ASSUME TypeOK, [Next]_vars PROVE TypeOK'
    OBVIOUS
  <1>1. CASE AdminSave \/ AdminDelete
    BY <1>1, AdminType
  <1>2. ASSUME NEW d \in Devices, DeviceStep(d) PROVE TypeOK'
    BY <1>2, ScreenActionsType, ButtonType, CommitType, AckType, RejectType,
       WatchType, DropType DEF DeviceStep
  <1>3. CASE UNCHANGED vars
    BY <1>3 DEF vars, TypeOK
  <1> QED BY <1>1, <1>2, <1>3 DEF Next

\* Every variable keeps its type; in particular the answers on the wire never
\* outnumber the writes they answer, and a guest's device never writes.
THEOREM TypeCorrect == Spec => []TypeOK
  <1> QED BY TypeInit, TypeNext, PTL DEF Spec

-----------------------------------------------------------------------------
(***************************************************************************)
(* ScreenFollowsView. The invariant says nothing of a screen with events   *)
(* still queued, so it is not inductive: what has to be known of such a    *)
(* screen is that the last event queued is the present view.               *)
(***************************************************************************)
Shows(d) ==
    View(d).exists =>
        /\ screen[d].attendingUID = View(d).attending
        /\ Owner[d] \in View(d).attending => screen[d].attending

Follows(d) ==
    screen[d].open =>
        /\ snapshots[d] = <<>> => Shows(d)
        /\ snapshots[d] # <<>> => snapshots[d][Len(snapshots[d])] = View(d)

ScreenInv == \A d \in Devices : Follows(d)

\* A device no step touches keeps following its view.
LEMMA FollowsFrame ==
    ASSUME NEW e \in Devices, Follows(e),
           cache'[e] = cache[e], pending'[e] = pending[e],
           screen'[e] = screen[e], snapshots'[e] = snapshots[e]
    PROVE  Follows(e)'
  BY DEF Follows, Shows, View

\* A step that goes through Notify keeps the device following its view, if
\* an unchanged view still agrees with the button afterwards.
LEMMA NotifyFollows ==
    ASSUME TypeOK, TypeOK', NEW d \in Devices, Follows(d), Notify(d),
           screen'[d].open = screen[d].open,
           screen'[d].attendingUID = screen[d].attendingUID,
           View(d)' = View(d) /\ View(d).exists
             /\ Owner[d] \in View(d).attending /\ screen[d].attending
             => screen'[d].attending
    PROVE  Follows(d)'
  <1> DEFINE view == View(d)'
  <1>1. view \in Doc
    <2>1. /\ cache'[d].doc \in Doc /\ pending'[d] \in Seq(Ops)
          /\ Owner[d] \in Users \/ pending'[d] = <<>>
      BY OwnerAssumption DEF TypeOK, Cached
    <2> QED BY <2>1, OverlayType DEF View
  <1>2. snapshots[d] \in Seq(Doc) /\ snapshots \in [Devices -> Seq(Doc)]
    BY DEF TypeOK
  <1>3. CASE screen[d].open /\ view # View(d)
    <2>1. snapshots'[d] = Append(snapshots[d], view)
      BY <1>2, <1>3 DEF Notify
    <2> HIDE DEF view
    <2>2. snapshots'[d] # <<>> /\ snapshots'[d][Len(snapshots'[d])] = view
      BY <1>1, <1>2, <2>1, AppendType
    <2> QED BY <2>2 DEF Follows, view
  <1>4. CASE ~(screen[d].open /\ view # View(d))
    <2>1. snapshots' = snapshots
      BY <1>4 DEF Notify
    <2>2. CASE screen[d].open
      BY <1>4, <2>1, <2>2 DEF Follows, Shows
    <2>3. CASE ~screen[d].open
      BY <2>3 DEF Follows
    <2> QED BY <2>2, <2>3
  <1> QED BY <1>3, <1>4

LEMMA ScreenInit == Init => ScreenInv
  BY DEF Init, ScreenInv, Follows, ClosedScreen

\* Taking oneself off the list one sees changes the view.
LEMMA ButtonFollows ==
    ASSUME TypeOK, TypeOK', NEW d \in Devices, Follows(d), AttendingButton(d)
    PROVE  Follows(d)'
  <1> DEFINE op == IF screen[d].attending THEN "arrayRemove" ELSE "arrayUnion"
  <1>1. /\ op \in Ops /\ pending[d] \in Seq(Ops)
        /\ Owner[d] \in Users
        /\ cache[d].doc \in Doc
    <2>1. op \in Ops
      BY DEF Ops
    <2>2. Owner[d] \in Users
      BY OwnerAssumption DEF AttendingButton
    <2> QED BY <2>1, <2>2 DEF TypeOK, Cached
  <1>2. pending'[d] = Append(pending[d], op) /\ cache' = cache
    BY DEF AttendingButton, TypeOK
  <1>3. View(d)' = Transform(op, Owner[d], cache[d].doc)
    <2>1. /\ pending'[d] # <<>>
          /\ pending'[d][Len(pending'[d])] = op
      <3> HIDE DEF op
      <3> QED BY <1>1, <1>2, AppendType
    <2> QED BY <1>2, <2>1 DEF View, Overlay
  <1>4. ASSUME View(d)' = View(d), View(d).exists,
               Owner[d] \in View(d).attending, screen[d].attending
        PROVE  FALSE
    <2>1. op = "arrayRemove" /\ cache[d].doc.exists
      BY <1>4, ViewType
    <2>2. Owner[d] \notin View(d)'.attending
      BY <1>1, <1>3, <2>1 DEF Transform, Doc
    <2> QED BY <1>4, <2>2
  <1>5. /\ screen'[d].open = screen[d].open
        /\ screen'[d].attendingUID = screen[d].attendingUID
    <2>1. screen' = [screen EXCEPT ![d].attending = ~screen[d].attending]
      BY DEF AttendingButton
    <2>2. screen \in [Devices -> ScreenState]
      BY DEF TypeOK, ScreenState
    <2> QED BY <2>1, <2>2 DEF ScreenState
  <1>6. Notify(d)
    BY DEF AttendingButton
  <1> QED BY <1>4, <1>5, <1>6, NotifyFollows

\* The last event run brings the view itself; an earlier one leaves the last
\* where it is.
LEMMA ListenerFollows ==
    ASSUME TypeOK, NEW d \in Devices, Follows(d), ListenerFires(d)
    PROVE  Follows(d)'
  <1> DEFINE q == snapshots[d]
             doc == Head(q)
  <1>1. /\ q \in Seq(Doc) /\ q # <<>> /\ doc \in Doc /\ doc = q[1]
        /\ Tail(q) \in Seq(Doc) /\ Len(Tail(q)) = Len(q) - 1
        /\ \A i \in 1 .. Len(q) - 1 : Tail(q)[i] = q[i + 1]
        /\ Len(q) \in Nat \ {0}
    <2>1. snapshots[d] \in Seq(Doc) /\ snapshots[d] # <<>>
      BY DEF ListenerFires, TypeOK
    <2> QED BY <2>1, TailType
  <1>2. snapshots'[d] = Tail(q) /\ View(d)' = View(d)
    BY DEF ListenerFires, TypeOK, View
  <1>3. screen'[d].open = screen[d].open
    BY DEF ListenerFires, TypeOK
  <1>4. CASE Len(q) > 1
    <2> HIDE DEF q
    <2>1. Tail(q) # <<>> /\ Tail(q)[Len(Tail(q))] = q[Len(q)]
      BY <1>1, <1>4
    <2> QED BY <1>2, <1>3, <2>1 DEF Follows, q
  <1>5. CASE Len(q) = 1
    <2>1. snapshots'[d] = <<>>
      <3> HIDE DEF q
      <3> QED BY <1>1, <1>2, <1>5
    <2>2. screen[d].open => doc = View(d)
      BY <1>1, <1>5 DEF Follows
    <2>3. doc.exists => /\ screen'[d].attendingUID = doc.attending
                        /\ screen'[d].attending = FlagAfter(d, doc)
      BY DEF ListenerFires, TypeOK
    <2>4. Owner[d] \in doc.attending => FlagAfter(d, doc)
      BY <1>1, OwnerAssumption DEF FlagAfter, Doc
    <2> QED BY <1>2, <1>3, <2>1, <2>2, <2>3, <2>4 DEF Follows, Shows
  <1>6. Len(q) = 1 \/ Len(q) > 1
    <2> HIDE DEF q
    <2> QED BY <1>1
  <1> QED BY <1>4, <1>5, <1>6

LEMMA ScreenNext == TypeOK /\ TypeOK' /\ ScreenInv /\ [Next]_vars => ScreenInv'
  <1> SUFFICES ASSUME TypeOK, TypeOK', ScreenInv, [Next]_vars,
                      NEW e \in Devices
               PROVE  Follows(e)'
    BY DEF ScreenInv
  <1>1. Follows(e)
    BY DEF ScreenInv
  <1>2. CASE AdminSave \/ AdminDelete \/ UNCHANGED vars
    BY <1>1, <1>2, FollowsFrame DEF AdminSave, AdminDelete, AdminWrite, vars
  <1>3. ASSUME NEW d \in Devices, DeviceStep(d) PROVE Follows(e)'
    <2>1. CASE e # d
      <3>1. /\ cache'[e] = cache[e] /\ pending'[e] = pending[e]
            /\ screen'[e] = screen[e] /\ snapshots'[e] = snapshots[e]
        BY <1>3, <2>1 DEF DeviceStep, OpenDetails, BackButton, AttendingButton,
           ListenerFires, Commit, Ack, Reject, WatchUpdate, Reconnect, Restart,
           Notify, TypeOK
      <3> QED BY <1>1, <3>1, FollowsFrame
    <2>2. CASE e = d
      <3>1. CASE OpenDetails(d)
        <4>1. snapshots'[d] = <<View(d)>> /\ View(d)' = View(d)
          BY <3>1 DEF OpenDetails, TypeOK, View
        <4> QED BY <2>2, <4>1 DEF Follows
      <3>2. CASE BackButton(d) \/ Restart(d)
        BY <2>2, <3>2 DEF BackButton, Restart, TypeOK, ClosedScreen, Follows
      <3>3. CASE AttendingButton(d)
        BY <1>1, <2>2, <3>3, ButtonFollows
      <3>4. CASE ListenerFires(d)
        BY <1>1, <2>2, <3>4, ListenerFollows
      <3>5. CASE Ack(d) \/ Reject(d) \/ WatchUpdate(d)
        <4>1. Notify(d) /\ screen' = screen
          BY <3>5 DEF Ack, Reject, WatchUpdate
        <4> QED BY <1>1, <2>2, <4>1, NotifyFollows
      <3>6. CASE Commit(d) \/ Reconnect(d)
        BY <1>1, <2>2, <3>6, FollowsFrame DEF Commit, Reconnect
      <3> QED BY <1>3, <3>1, <3>2, <3>3, <3>4, <3>5, <3>6 DEF DeviceStep
    <2> QED BY <2>1, <2>2
  <1> QED BY <1>2, <1>3 DEF Next

\* On every number of devices and with every interleaving of taps, answers,
\* updates and listener events, a screen with no event left to run shows the
\* device's view, and the button of a listed user says "attending".
THEOREM ScreenFollows == Spec => []ScreenFollowsView
  <1>1. ScreenInv => ScreenFollowsView
    BY DEF ScreenInv, Follows, Shows, ScreenFollowsView, Drained
  <1> QED BY <1>1, ScreenInit, ScreenNext, TypeCorrect, PTL DEF Spec

-----------------------------------------------------------------------------
(***************************************************************************)
(* LastTapWins. It speaks of an empty queue; the invariant follows the     *)
(* queue on its way there: its last write is what the last tap asked for,  *)
(* and from the moment the server has executed all of it the list agrees.  *)
(***************************************************************************)
Holds(d) ==
    /\ Current.exists
    /\ intent[d] = "arrayUnion" <=> Owner[d] \in Current.attending

Delivers(d) ==
    SoleDevice(d) /\ intent[d] # "none" =>
        /\ pending[d] # <<>> => pending[d][Len(pending[d])] = intent[d]
        /\ Len(results[d]) = Len(pending[d]) => Holds(d)

DeliveryInv == \A d \in Devices : Delivers(d)

LEMMA DeliveryInit == Init => DeliveryInv
  BY DEF Init, DeliveryInv, Delivers

\* What the server holds after a commit: the transform of what it held.
LEMMA CommitCurrent ==
    ASSUME TypeOK, NEW d \in Devices, Commit(d)
    PROVE  /\ Owner[d] \in Users
           /\ Current \in Doc
           /\ Current.exists =>
                Current' = Transform(pending[d][Len(results[d]) + 1], Owner[d], Current)
           /\ ~Current.exists => Current' = Current /\ intent'[d] = "none"
  <1> DEFINE next == Len(results[d]) + 1
             doc == Executed(d, pending[d][next])
  <1>1. /\ pending[d] \in Seq(Ops) /\ results[d] \in Seq(0 .. Len(log))
        /\ log \in Seq(Doc) /\ Len(log) \in Nat \ {0}
        /\ next \in 1 .. Len(pending[d])
    BY DEF TypeOK, Commit
  <1>2. Owner[d] \in Users
    BY <1>1, OwnerAssumption DEF TypeOK
  <1>3. Current \in Doc /\ doc \in Doc
    BY <1>1, <1>2, TransformType DEF Current, Executed
  <1>4. CASE Current.exists
    <2>1. log' = IF doc = Current THEN log ELSE Append(log, doc)
      BY <1>4 DEF Commit
    <2>2. log'[Len(log')] = doc
      <3> HIDE DEF doc
      <3>1. CASE doc = Current
        BY <2>1, <3>1 DEF Current
      <3>2. CASE doc # Current
        BY <1>1, <1>3, <2>1, <3>2, AppendType
      <3> QED BY <3>1, <3>2
    <2> QED BY <1>2, <1>3, <1>4, <2>2 DEF Current, Executed
  <1>5. CASE ~Current.exists
    BY <1>2, <1>3, <1>5 DEF Commit, Current, TypeOK
  <1> QED BY <1>4, <1>5

LEMMA CommitDelivers ==
    ASSUME TypeOK, NEW d \in Devices, NEW e \in Devices, Delivers(e), Commit(d)
    PROVE  Delivers(e)'
  <1> SUFFICES ASSUME SoleDevice(e), intent'[e] # "none"
               PROVE  /\ pending'[e] # <<>> => pending'[e][Len(pending'[e])] = intent'[e]
                      /\ Len(results'[e]) = Len(pending'[e]) => Holds(e)'
    BY DEF Delivers, SoleDevice
  <1>1. pending' = pending /\ intent'[e] = intent[e]
    BY DEF Commit, TypeOK
  <1>2. /\ Owner[d] \in Users /\ Current \in Doc
        /\ Current.exists =>
             Current' = Transform(pending[d][Len(results[d]) + 1], Owner[d], Current)
        /\ ~Current.exists => Current' = Current /\ intent'[d] = "none"
    BY CommitCurrent
  <1>3. CASE e # d
    <2>1. Owner[e] # Owner[d]
      BY <1>3 DEF SoleDevice
    <2>2. results'[e] = results[e]
      BY <1>3 DEF Commit, TypeOK
    <2>3. Holds(e) => Holds(e)'
      BY <1>1, <1>2, <2>1 DEF Holds, Transform, Doc
    <2> QED BY <1>1, <2>2, <2>3 DEF Delivers
  <1>4. CASE e = d
    <2>1. /\ pending[d] \in Seq(Ops) /\ results[d] \in Seq(0 .. Len(log))
          /\ Len(results[d]) + 1 <= Len(pending[d])
      BY DEF Commit, TypeOK
    <2>2. Len(results'[d]) = Len(results[d]) + 1
      <3>1. PICK r : results' = [results EXCEPT ![d] = Append(@, r)]
        BY DEF Commit
      <3>2. results'[d] = Append(results[d], r)
        BY <3>1 DEF TypeOK
      <3> QED BY <2>1, <3>2
    <2>3. ASSUME Len(results'[d]) = Len(pending[d]) PROVE Holds(d)'
      <3>1. pending[d][Len(results[d]) + 1] = intent[d] /\ intent[d] \in Ops
        BY <1>1, <1>4, <2>1, <2>2, <2>3 DEF Delivers, TypeOK
      <3>2. Current.exists
        BY <1>2, <1>4
      <3> QED BY <1>1, <1>2, <1>4, <3>1, <3>2 DEF Holds, Transform, Doc, Ops
    <2> QED BY <1>1, <1>4, <2>3 DEF Delivers
  <1> QED BY <1>3, <1>4

\* Taking answered writes off the queue keeps its last one last.
LEMMA PopDelivers ==
    ASSUME TypeOK, NEW d \in Devices, Delivers(d), results[d] # <<>>,
           pending' = [pending EXCEPT ![d] = Tail(@)],
           results' = [results EXCEPT ![d] = Tail(@)],
           UNCHANGED <<log, intent>>
    PROVE  Delivers(d)'
  <1>1. /\ pending[d] \in Seq(Ops) /\ pending[d] # <<>>
        /\ results[d] \in Seq(0 .. Len(log))
    BY DEF TypeOK
  <1>2. pending'[d] = Tail(pending[d]) /\ results'[d] = Tail(results[d])
    BY DEF TypeOK
  <1>3. Len(results'[d]) = Len(pending'[d]) => Len(results[d]) = Len(pending[d])
    <2>1. Len(pending'[d]) = Len(pending[d]) - 1
      BY <1>1, <1>2, TailType
    <2>2. Len(results'[d]) = Len(results[d]) - 1
      BY <1>1, <1>2, TailType
    <2> QED BY <1>1, <2>1, <2>2
  <1>4. pending'[d] # <<>> => pending'[d][Len(pending'[d])] = pending[d][Len(pending[d])]
    BY <1>1, <1>2, TailType
  <1>5. Holds(d)' <=> Holds(d)
    BY DEF Holds, Current
  <1> QED BY <1>1, <1>3, <1>4, <1>5 DEF Delivers, SoleDevice

LEMMA ButtonDelivers ==
    ASSUME TypeOK, NEW d \in Devices, AttendingButton(d) PROVE Delivers(d)'
  <1> DEFINE op == IF screen[d].attending THEN "arrayRemove" ELSE "arrayUnion"
  <1>1. op \in Ops /\ pending[d] \in Seq(Ops) /\ results[d] \in Seq(0 .. Len(log))
    BY DEF Ops, TypeOK
  <1>2. pending'[d] = Append(pending[d], op) /\ intent'[d] = op /\ results' = results
    BY DEF AttendingButton, TypeOK
  <1>3. Len(results[d]) <= Len(pending[d])
    BY DEF TypeOK
  <1> HIDE DEF op
  <1>4. /\ pending'[d][Len(pending'[d])] = intent'[d]
        /\ Len(results'[d]) # Len(pending'[d])
    BY <1>1, <1>2, <1>3, AppendType
  <1> QED BY <1>4 DEF Delivers

LEMMA DeliveryNext == TypeOK /\ DeliveryInv /\ [Next]_vars => DeliveryInv'
  <1> SUFFICES ASSUME TypeOK, DeliveryInv, [Next]_vars, NEW e \in Devices
               PROVE  Delivers(e)'
    BY DEF DeliveryInv
  <1>1. Delivers(e)
    BY DEF DeliveryInv
  <1> USE DEF SoleDevice
  <1>2. ASSUME UNCHANGED log, pending'[e] = pending[e], results'[e] = results[e],
               intent'[e] = intent[e]
        PROVE  Delivers(e)'
    BY <1>1, <1>2 DEF Delivers, Holds, Current
  <1>3. CASE UNCHANGED vars
    BY <1>2, <1>3 DEF vars
  <1>4. CASE AdminSave \/ AdminDelete
    BY <1>4 DEF AdminSave, AdminDelete, AdminWrite, Delivers
  <1>5. ASSUME NEW d \in Devices, DeviceStep(d) PROVE Delivers(e)'
    <2>1. CASE OpenDetails(d) \/ BackButton(d) \/ ListenerFires(d) \/ WatchUpdate(d)
      BY <1>2, <2>1 DEF OpenDetails, BackButton, ListenerFires, WatchUpdate
    <2>2. CASE Commit(d)
      BY <1>1, <2>2, CommitDelivers
    <2>3. CASE e # d /\ ~Commit(d)
      <3>1. /\ UNCHANGED log /\ pending'[e] = pending[e]
            /\ results'[e] = results[e] /\ intent'[e] = intent[e]
        BY <1>5, <2>3 DEF DeviceStep, OpenDetails, BackButton, AttendingButton,
           ListenerFires, Ack, Reject, WatchUpdate, Reconnect, Restart, TypeOK
      <3> QED BY <1>2, <3>1
    <2>4. CASE e = d /\ AttendingButton(d)
      BY <2>4, ButtonDelivers
    <2>5. CASE e = d /\ (Ack(d) \/ Reject(d))
      BY <1>1, <2>5, PopDelivers DEF Ack, Reject
    <2>6. CASE e = d /\ (Reconnect(d) \/ Restart(d))
      <3>1. /\ results'[d] = <<>>
            /\ UNCHANGED <<log, pending, intent>>
        BY <2>6 DEF Reconnect, Restart, TypeOK
      <3>2. /\ results[d] \in Seq(0 .. Len(log)) /\ pending[d] \in Seq(Ops)
            /\ Len(results[d]) <= Len(pending[d])
        BY DEF TypeOK
      <3>3. Len(results'[d]) = Len(pending'[d]) => Len(results[d]) = Len(pending[d])
        BY <3>1, <3>2
      <3> QED BY <1>1, <2>6, <3>1, <3>3 DEF Delivers, Holds, Current
    <2> QED BY <1>5, <2>1, <2>2, <2>3, <2>4, <2>5, <2>6 DEF DeviceStep
  <1> QED BY <1>3, <1>4, <1>5 DEF Next

\* Over any number of taps, restarts and repeated executions, an emptied
\* queue leaves on the server what the last tap asked for.
THEOREM LastTapHolds == Spec => []LastTapWins
  <1>1. TypeOK /\ DeliveryInv => LastTapWins
    <2> SUFFICES ASSUME TypeOK, DeliveryInv, NEW d \in Devices,
                        SoleDevice(d), pending[d] = <<>>, intent[d] # "none"
                 PROVE  Holds(d)
      BY DEF LastTapWins, Holds
    <2>1. results[d] \in Seq(0 .. Len(log)) /\ Len(results[d]) <= Len(pending[d])
      BY DEF TypeOK
    <2>2. Len(results[d]) = Len(pending[d])
      BY <2>1
    <2> QED BY <2>2 DEF DeliveryInv, Delivers
  <1> QED BY <1>1, DeliveryInit, DeliveryNext, TypeCorrect, PTL DEF Spec

-----------------------------------------------------------------------------
(***************************************************************************)
(* What a step may do to the cache and to the server's document.           *)
(***************************************************************************)
\* Why watch updates may be applied blindly: a cached document that came by
\* the stream is the one of its last snapshot, which the stream never goes
\* behind. An acknowledged one is ahead of the stream and marked as such.
Marked(d) ==
    IF cache[d].committed THEN cache[d].version > cache[d].snapshot
    ELSE cache[d].version = cache[d].snapshot

CacheInv == \A d \in Devices : Marked(d)

LEMMA CacheInit == Init => CacheInv
  BY DEF Init, CacheInv, Marked, Watched

LEMMA CacheStep ==
    ASSUME TypeOK, CacheInv, [Next]_vars, NEW e \in Devices
    PROVE  Marked(e)' /\ cache'[e].version >= cache[e].version
  <1>1. CASE UNCHANGED cache
    BY <1>1 DEF TypeOK, CacheInv, Marked
  <1>2. CASE AdminSave \/ AdminDelete
    BY <1>1, <1>2 DEF AdminSave, AdminDelete, AdminWrite
  <1>3. ASSUME NEW d \in Devices, DeviceStep(d)
        PROVE  Marked(e)' /\ cache'[e].version >= cache[e].version
    <2>1. ASSUME cache'[e] = cache[e]
          PROVE  Marked(e)' /\ cache'[e].version >= cache[e].version
      BY <2>1 DEF TypeOK, CacheInv, Marked
    <2>2. cache \in [Devices -> Cached] /\ cache[d] \in Cached /\ Marked(d)
      BY DEF TypeOK, CacheInv
    <2>3. CASE Ack(d)
      <3>1. Head(results[d]) \in Nat
        <4>1. results[d] \in Seq(0 .. Len(log)) /\ results[d] # <<>>
          BY <2>3 DEF Ack, TypeOK
        <4>2. Head(results[d]) \in 0 .. Len(log)
          BY <4>1, TailType
        <4> QED BY <4>2
      <3>2. cache' = [cache EXCEPT ![d] = Acknowledged(d)]
        BY <2>3 DEF Ack
      <3>3. CASE e # d
        BY <2>1, <2>2, <3>2, <3>3
      <3>4. CASE e = d
        <4>1. cache'[d] = Acknowledged(d)
          BY <2>2, <3>2
        <4>2. CASE ~(cache[d].version < Head(results[d]))
          BY <2>1, <2>2, <3>4, <4>1, <4>2, AcknowledgedIs
        <4>3. CASE cache[d].version < Head(results[d])
          <5>1. /\ cache'[d].version = Head(results[d]) /\ cache'[d].committed
                /\ cache'[d].snapshot = cache[d].snapshot
            BY <2>2, <4>1, <4>3, AcknowledgedIs
          <5>2. cache[d].version >= cache[d].snapshot
            BY <2>2 DEF Marked, Cached
          <5> QED BY <2>2, <3>1, <3>4, <4>3, <5>1, <5>2 DEF Marked, Cached
        <4> QED BY <4>2, <4>3
      <3> QED BY <3>3, <3>4
    <2>4. CASE WatchUpdate(d)
      <3>1. PICK v \in 1 .. Len(log), c \in Cached :
              /\ cache' = [cache EXCEPT ![d] = c]
              /\ v >= cache[d].snapshot /\ c.snapshot = v
              /\ \/ Applies(d, v) /\ c.version = v /\ ~c.committed
                 \/ /\ ~Applies(d, v)
                    /\ c.version = cache[d].version
                    /\ c.committed = cache[d].committed
        BY <2>4, WatchIs
      <3>2. CASE e # d
        BY <2>1, <2>2, <3>1, <3>2
      <3>3. CASE e = d
        <4>1. cache'[d] = c
          BY <2>2, <3>1
        <4>2. CASE Applies(d, v)
          <5>1. v >= cache[d].version
            BY <2>2, <3>1, <4>2 DEF Applies, Marked, Cached
          <5> QED BY <3>1, <3>3, <4>1, <4>2, <5>1 DEF Marked
        <4>3. CASE ~Applies(d, v)
          <5>1. v < cache[d].version
            BY <2>2, <4>3 DEF Applies, Cached
          <5>2. cache[d].committed
            <6>1. ~cache[d].committed => cache[d].version = cache[d].snapshot
              BY <2>2 DEF Marked
            <6>2. v # cache[d].version /\ ~(cache[d].version <= v)
              BY <2>2, <5>1 DEF Cached
            <6> QED BY <3>1, <6>1, <6>2
          <5>3. /\ c.version = cache[d].version /\ c.committed /\ c.snapshot = v
                /\ cache[d].version \in Nat
            BY <2>2, <3>1, <4>3, <5>2 DEF Cached
          <5>4. c.version > c.snapshot
            BY <5>1, <5>3
          <5> QED BY <3>3, <4>1, <5>3, <5>4 DEF Marked
        <4> QED BY <4>2, <4>3
      <3> QED BY <3>2, <3>3
    <2>5. CASE ~Ack(d) /\ ~WatchUpdate(d)
      BY <1>1, <1>3, <2>5 DEF DeviceStep, OpenDetails, BackButton,
         AttendingButton, ListenerFires, Commit, Reject, Reconnect, Restart
    <2> QED BY <2>3, <2>4, <2>5
  <1>4. CASE UNCHANGED vars
    BY <1>1, <1>4 DEF vars
  <1> QED BY <1>2, <1>3, <1>4 DEF Next

\* No acknowledgement and no watch update, however late, moves a device's
\* cached document back to an older version, although updates of documents in
\* a target are applied without a look at theirs.
THEOREM CacheIsMonotone == Spec => CacheGoesForward
  <1>1. TypeOK /\ CacheInv /\ [Next]_vars => CacheInv'
    BY CacheStep DEF CacheInv
  <1>2. TypeOK /\ CacheInv /\ [Next]_vars
          => \A d \in Devices : cache'[d].version >= cache[d].version
    BY CacheStep
  <1> QED BY <1>1, <1>2, CacheInit, TypeCorrect, PTL DEF Spec, CacheGoesForward

LEMMA RegisterStep == TypeOK /\ [Next]_vars => [Register!Next]_Current
  <1> SUFFICES ASSUME TypeOK, [Next]_vars PROVE [Register!Next]_Current
    OBVIOUS
  <1>1. CASE UNCHANGED log
    BY <1>1 DEF Current
  <1>2. ASSUME NEW doc \in Doc, AdminWrite(doc) PROVE Current' = doc
    <2>1. log \in Seq(Doc) /\ log' = Append(log, doc)
      BY <1>2 DEF AdminWrite, TypeOK
    <2> QED BY <2>1, AppendType DEF Current
  <1>3. CASE AdminSave
    <2>1. Current' = NewDoc
      BY <1>2, <1>3 DEF AdminSave, NewDoc, Doc
    <2> QED BY <2>1 DEF Register!Next, Register!Publish, Register!NewDoc, NewDoc
  <1>4. CASE AdminDelete
    <2>1. Current' = NoDoc
      BY <1>2, <1>4 DEF AdminDelete, NoDoc, Doc
    <2> QED BY <2>1 DEF Register!Next, Register!Withdraw, Register!NoDoc, NoDoc
  <1>5. ASSUME NEW d \in Devices, DeviceStep(d) PROVE [Register!Next]_Current
    <2>1. CASE Commit(d)
      <3>1. CASE ~Current.exists
        BY <2>1, <3>1, CommitCurrent
      <3>2. CASE Current.exists
        <4>1. PICK op : Current' = Transform(op, Owner[d], Current)
          BY <2>1, <3>2, CommitCurrent
        <4>2. Owner[d] \in Users
          BY <2>1, CommitCurrent
        <4>3. Register!Join(Owner[d]) \/ Register!Leave(Owner[d])
          BY <3>2, <4>1 DEF Transform, Register!Join, Register!Leave
        <4> QED BY <4>2, <4>3 DEF Register!Next
      <3> QED BY <3>1, <3>2
    <2>2. CASE ~Commit(d)
      BY <1>1, <1>5, <2>2 DEF DeviceStep, OpenDetails, BackButton,
         AttendingButton, ListenerFires, Ack, Reject, WatchUpdate, Reconnect,
         Restart
    <2> QED BY <2>1, <2>2
  <1>6. CASE UNCHANGED vars
    BY <1>1, <1>6 DEF vars
  <1> QED BY <1>3, <1>4, <1>5, <1>6 DEF Next

\* The devices, their caches and queues implement the register: the server's
\* list loses or gains one user at a time, never on a missing event, and is
\* emptied only by the administrator.
THEOREM ImplementsRegister == Spec => RegisterSpec
  <1>1. Init => Register!Init
    <2> SUFFICES ASSUME Init PROVE Register!Init
      OBVIOUS
    <2>1. PICK doc \in Doc : doc.exists /\ log = <<doc>>
      BY DEF Init
    <2> QED BY <2>1 DEF Current, Register!Init, Register!Doc, Doc
  <1> QED BY <1>1, RegisterStep, TypeCorrect, PTL
       DEF Spec, RegisterSpec, Register!Spec

-----------------------------------------------------------------------------
(***************************************************************************)
(* Each device's RSVPs and the answers to them implement the abstract      *)
(* queue of writes.                                                        *)
(***************************************************************************)
LEMMA VerdictType ==
    ASSUME TypeOK, NEW d \in Devices
    PROVE  /\ Verdict(d) \in Seq({"ok", "refused"})
           /\ Len(Verdict(d)) = Len(results[d])
           /\ \A i \in 1 .. Len(results[d]) :
                Verdict(d)[i] = IF results[d][i] = NotFound THEN "refused" ELSE "ok"
  <1>1. results[d] \in Seq(0 .. Len(log))
    BY DEF TypeOK
  <1> QED BY <1>1 DEF Verdict

\* Two sequences of one length that agree everywhere are the same.
LEMMA SameSequence ==
    ASSUME NEW S, NEW s \in Seq(S), NEW t \in Seq(S), Len(s) = Len(t),
           \A i \in 1 .. Len(s) : s[i] = t[i]
    PROVE  s = t
  OBVIOUS

LEMMA AnswersFrame ==
    ASSUME NEW d \in Devices, \A e \in Devices \ {d} : results'[e] = results[e]
    PROVE  Verdicts' = [Verdicts EXCEPT ![d] = Verdict(d)']
  BY DEF Verdicts, Verdict

LEMMA CommitAnswers ==
    ASSUME TypeOK, TypeOK', NEW d \in Devices, Commit(d) PROVE Queue!Answer(d)
  <1>1. PICK r : /\ results' = [results EXCEPT ![d] = Append(@, r)]
    BY DEF Commit
  <1>2. /\ results[d] \in Seq(0 .. Len(log))
        /\ results'[d] = Append(results[d], r)
        /\ \A e \in Devices \ {d} : results'[e] = results[e]
    BY <1>1 DEF TypeOK
  <1>3. results'[d] \in Seq(0 .. Len(log'))
    BY DEF TypeOK
  <1>4. /\ Len(results'[d]) = Len(results[d]) + 1
        /\ \A i \in 1 .. Len(results[d]) : results'[d][i] = results[d][i]
    BY <1>2
  <1> DEFINE a == IF results'[d][Len(results'[d])] = NotFound
                  THEN "refused" ELSE "ok"
  <1>5. Verdict(d)' = Append(Verdict(d), a)
    <2>1. /\ Verdict(d)' \in Seq({"ok", "refused"})
          /\ Len(Verdict(d)') = Len(results'[d])
          /\ \A i \in 1 .. Len(results'[d]) : Verdict(d)'[i] =
                IF results'[d][i] = NotFound THEN "refused" ELSE "ok"
      BY <1>3 DEF Verdict
    <2>2. a \in {"ok", "refused"}
      OBVIOUS
    <2>3. /\ Append(Verdict(d), a) \in Seq({"ok", "refused"})
          /\ Len(Append(Verdict(d), a)) = Len(results'[d])
          /\ Append(Verdict(d), a)[Len(results'[d])] = a
          /\ \A i \in 1 .. Len(results[d]) :
                Append(Verdict(d), a)[i] = Verdict(d)[i]
      <3> HIDE DEF a
      <3> QED BY <1>4, <2>2, VerdictType, AppendType
    <2>4. ASSUME NEW i \in 1 .. Len(results'[d])
          PROVE  Verdict(d)'[i] = Append(Verdict(d), a)[i]
      <3>1. CASE i = Len(results'[d])
        BY <2>1, <2>3, <3>1
      <3>2. CASE i # Len(results'[d])
        <4>1. i \in 1 .. Len(results[d])
          BY <1>2, <1>4, <3>2
        <4> QED BY <1>4, <2>1, <2>3, <4>1, VerdictType
      <3> QED BY <3>1, <3>2
    <2> HIDE DEF a
    <2> QED BY <2>1, <2>3, <2>4, SameSequence
  <1>6. Verdicts' = [Verdicts EXCEPT ![d] = Append(@, a)]
    BY <1>2, <1>5, AnswersFrame DEF Verdicts
  <1>7. /\ Len(Verdicts[d]) < Len(pending[d])
        /\ \A i \in 1 .. Len(Verdicts[d]) : Verdicts[d][i] # "refused"
    <2>1. Verdicts[d] = Verdict(d)
      BY DEF Verdicts
    <2>2. Len(results[d]) < Len(pending[d])
      BY <1>2 DEF Commit, TypeOK
    <2>3. \A i \in 1 .. Len(results[d]) : results[d][i] # NotFound
      BY DEF Commit
    <2> QED BY <2>1, <2>2, <2>3, VerdictType
  <1>8. a \in Queue!Answers /\ UNCHANGED pending
    BY DEF Queue!Answers, Commit
  <1> HIDE DEF a
  <1> QED BY <1>6, <1>7, <1>8 DEF Queue!Answer, Verdicts

LEMMA PopResolves ==
    ASSUME TypeOK, TypeOK', NEW d \in Devices, results[d] # <<>>,
           pending' = [pending EXCEPT ![d] = Tail(@)],
           results' = [results EXCEPT ![d] = Tail(@)]
    PROVE  Queue!Resolve(d)
  <1>1. /\ results[d] \in Seq(0 .. Len(log)) /\ results'[d] \in Seq(0 .. Len(log'))
        /\ results'[d] = Tail(results[d])
        /\ \A e \in Devices \ {d} : results'[e] = results[e]
    BY DEF TypeOK
  <1>2. /\ Len(results'[d]) = Len(results[d]) - 1
        /\ \A i \in 1 .. Len(results'[d]) : results'[d][i] = results[d][i + 1]
    <2>1. /\ Len(Tail(results[d])) = Len(results[d]) - 1
          /\ \A i \in 1 .. Len(results[d]) - 1 :
                Tail(results[d])[i] = results[d][i + 1]
      BY <1>1, TailType
    <2> QED BY <1>1, <2>1
  <1>3. Verdict(d) # <<>>
    BY <1>1, VerdictType
  <1>4. Verdict(d)' = Tail(Verdict(d))
    <2>1. /\ Verdict(d)' \in Seq({"ok", "refused"})
          /\ Len(Verdict(d)') = Len(results'[d])
          /\ \A i \in 1 .. Len(results'[d]) : Verdict(d)'[i] =
                IF results'[d][i] = NotFound THEN "refused" ELSE "ok"
      BY <1>1 DEF Verdict
    <2>2. /\ Tail(Verdict(d)) \in Seq({"ok", "refused"})
          /\ Len(Tail(Verdict(d))) = Len(results'[d])
          /\ \A i \in 1 .. Len(results'[d]) : Tail(Verdict(d))[i] = Verdict(d)[i + 1]
      BY <1>2, <1>3, VerdictType, TailType
    <2>3. \A i \in 1 .. Len(results'[d]) : i + 1 \in 1 .. Len(results[d])
      BY <1>1, <1>2
    <2>4. \A i \in 1 .. Len(results'[d]) : Verdict(d)'[i] = Tail(Verdict(d))[i]
      BY <1>2, <2>1, <2>2, <2>3, VerdictType
    <2> QED BY <2>1, <2>2, <2>4, SameSequence
  <1>5. Verdicts' = [Verdicts EXCEPT ![d] = Tail(@)]
    BY <1>1, <1>4, AnswersFrame DEF Verdicts
  <1> QED BY <1>3, <1>5 DEF Queue!Resolve, Verdicts

LEMMA DropLoses ==
    ASSUME TypeOK, TypeOK', NEW d \in Devices,
           results' = [results EXCEPT ![d] = <<>>], UNCHANGED pending
    PROVE  Queue!Lose(d)
  <1>1. /\ results'[d] = <<>>
        /\ \A e \in Devices \ {d} : results'[e] = results[e]
    BY DEF TypeOK
  <1>2. Verdict(d)' = <<>>
    BY <1>1 DEF Verdict
  <1>3. Verdict(d) \in Seq({"ok", "refused"})
    BY VerdictType
  <1>4. SubSeq(Verdict(d), 1, 0) = <<>> /\ 0 \in 0 .. Len(Verdict(d))
    BY <1>3
  <1>5. Verdicts' = [Verdicts EXCEPT ![d] = SubSeq(@, 1, 0)]
    BY <1>1, <1>2, <1>4, AnswersFrame DEF Verdicts
  <1>6. Verdicts[d] = Verdict(d)
    BY DEF Verdicts
  <1>7. \E n \in 0 .. Len(Verdicts[d]) :
            Verdicts' = [Verdicts EXCEPT ![d] = SubSeq(@, 1, n)]
    BY <1>4, <1>5, <1>6
  <1> QED BY <1>7 DEF Queue!Lose, Verdicts

LEMMA QueueStep ==
    TypeOK /\ TypeOK' /\ [Next]_vars => [Queue!Next]_<<pending, Verdicts>>
  <1> SUFFICES ASSUME TypeOK, TypeOK', [Next]_vars
               PROVE  Queue!Next \/ UNCHANGED <<pending, Verdicts>>
    OBVIOUS
  <1>1. CASE UNCHANGED <<pending, results>>
    BY <1>1 DEF Verdicts, Verdict
  <1>2. CASE AdminSave \/ AdminDelete
    BY <1>1, <1>2 DEF AdminSave, AdminDelete, AdminWrite
  <1>3. ASSUME NEW d \in Devices, DeviceStep(d)
        PROVE  Queue!Next \/ UNCHANGED <<pending, Verdicts>>
    <2>1. CASE AttendingButton(d)
      <3>1. \E op \in Ops : pending' = [pending EXCEPT ![d] = Append(@, op)]
        BY <2>1 DEF AttendingButton, Ops
      <3>2. UNCHANGED Verdicts
        BY <2>1 DEF AttendingButton, Verdicts, Verdict
      <3>3. Queue!Enqueue(d)
        BY <3>1, <3>2 DEF Queue!Enqueue, Verdicts
      <3> QED BY <3>3 DEF Queue!Next
    <2>2. CASE Commit(d)
      BY <2>2, CommitAnswers DEF Queue!Next
    <2>3. CASE Ack(d) \/ Reject(d)
      <3>1. Queue!Resolve(d)
        BY <2>3, PopResolves DEF Ack, Reject
      <3> QED BY <3>1 DEF Queue!Next
    <2>4. CASE Reconnect(d) \/ Restart(d)
      <3>1. Queue!Lose(d)
        BY <2>4, DropLoses DEF Reconnect, Restart
      <3> QED BY <3>1 DEF Queue!Next
    <2>5. CASE OpenDetails(d) \/ BackButton(d) \/ ListenerFires(d) \/ WatchUpdate(d)
      BY <1>1, <2>5 DEF OpenDetails, BackButton, ListenerFires, WatchUpdate
    <2> QED BY <1>3, <2>1, <2>2, <2>3, <2>4, <2>5 DEF DeviceStep
  <1>4. CASE UNCHANGED vars
    BY <1>1, <1>4 DEF vars
  <1> QED BY <1>2, <1>3, <1>4 DEF Next

\* Taps, answers, lost connections and restarts of every device implement the
\* abstract queue: RSVPs leave it at its front only, each with its answer, and
\* none is executed behind a refused one the device has not heard of.
THEOREM ImplementsQueue == Spec => QueueSpec
  <1>1. Init => Queue!Init
    BY DEF Init, Queue!Init, Verdicts, Verdict
  <1>2. TypeOK /\ TypeOK' /\ [Next]_vars
            => [Queue!Next]_<<pending, Verdicts>>
    BY QueueStep
  <1> QED BY <1>1, <1>2, TypeCorrect, PTL DEF Spec, QueueSpec, Queue!Spec
=============================================================================
