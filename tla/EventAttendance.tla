--------------------------- MODULE EventAttendance ---------------------------
(***************************************************************************)
(* The attendance list of one event: VC_EventDetails on every device, the  *)
(* Firestore client under it (cache, mutation queue, snapshot listener)    *)
(* and the server's document, which the administrator's screen writes too. *)
(*                                                                         *)
(* log        the document's committed states; its index is the version    *)
(* cache      per device, what its disk holds of the server's: the last    *)
(*            known document, its version, whether an acknowledgement made *)
(*            it (hasCommittedMutations), and the version of the watch     *)
(*            stream's last snapshot                                       *)
(* pending    per device, RSVPs written locally and not yet acknowledged   *)
(* results    per device, server answers to a prefix of pending, on the    *)
(*            wire: the version written, or NotFound                       *)
(* snapshots  per device, listener events not yet run on the main queue    *)
(* screen     per device, the view controller's attending, attendingUID    *)
(* intent     per device, what the last tap asked for, until the server    *)
(*            refuses it or the administrator overwrites the list; no code *)
(*            reads it, the properties do                                  *)
(* spent      taps, administrator writes and connection losses so far      *)
(***************************************************************************)
EXTENDS Integers, Sequences

CONSTANTS
    Users,           \* the accounts
    Devices,
    NoUser,          \* currentUser?.uid of a guest
    Owner,           \* the account each device is signed in with
    MaxTaps,         \* bound on taps of the attending button
    MaxAdminWrites,  \* bound on the administrator's writes to the event
    MaxDrops         \* bound on restarts and lost connections

ASSUME OwnerAssumption ==
    /\ NoUser \notin Users
    /\ Owner \in [Devices -> Users \cup {NoUser}]

ASSUME BoundsAssumption ==
    MaxTaps \in Nat /\ MaxAdminWrites \in Nat /\ MaxDrops \in Nat

VARIABLES log, cache, pending, results, snapshots, screen, intent, spent

vars == <<log, cache, pending, results, snapshots, screen, intent, spent>>

-----------------------------------------------------------------------------

Doc == [exists : BOOLEAN, attending : SUBSET Users]

NoDoc == [exists |-> FALSE, attending |-> {}]

NewDoc == [exists |-> TRUE, attending |-> {}]

Ops == {"arrayUnion", "arrayRemove"}

NotFound == 0

Current == log[Len(log)]

History == {log[v] : v \in 1 .. Len(log)}

\* FieldValue.arrayUnion([u]) and arrayRemove([u]) under updateData, whose
\* precondition is that the document exists.
Transform(op, u, doc) ==
    IF ~doc.exists THEN doc
    ELSE [doc EXCEPT !.attending =
                        IF op = "arrayUnion" THEN @ \cup {u} ELSE @ \ {u}]

\* The document a device shows: the cached one under its pending RSVPs. They
\* all concern the device's own user, so the last one decides.
Overlay(doc, ops, u) ==
    IF ops = <<>> THEN doc ELSE Transform(ops[Len(ops)], u, doc)

View(d) == Overlay(cache[d].doc, pending[d], Owner[d])

\* Variant of Notify: local writes are not overlaid on what listeners see.
NotifyOfCache(d) ==
    snapshots' = IF screen[d].open /\ cache'[d].doc # cache[d].doc
                 THEN [snapshots EXCEPT ![d] = Append(@, cache'[d].doc)]
                 ELSE snapshots

\* A changed view is queued for the listener of an open screen.
Notify(d) ==
    snapshots' = IF screen[d].open /\ View(d)' # View(d)
                 THEN [snapshots EXCEPT ![d] = Append(@, View(d)')]
                 ELSE snapshots

ClosedScreen == [open |-> FALSE, attending |-> FALSE, attendingUID |-> {}]

OpenScreen(guests) ==
    [open |-> TRUE, attending |-> FALSE, attendingUID |-> guests]

Cached == [version : Nat, doc : Doc, committed : BOOLEAN, snapshot : Nat]

TypeOK ==
    /\ log \in Seq(Doc) /\ log # <<>>
    /\ cache \in [Devices -> Cached]
    /\ pending \in [Devices -> Seq(Ops)]
    /\ results \in [Devices -> Seq(0 .. Len(log))]
    /\ snapshots \in [Devices -> Seq(Doc)]
    /\ screen \in [Devices -> [open : BOOLEAN, attending : BOOLEAN,
                               attendingUID : SUBSET Users]]
    /\ intent \in [Devices -> Ops \cup {"none"}]
    /\ spent \in [taps : Nat, admin : Nat, drops : Nat]
    /\ \A d \in Devices :
        /\ cache[d].version \in 1 .. Len(log)
        /\ cache[d].snapshot \in 1 .. Len(log)
        /\ Len(results[d]) <= Len(pending[d])
        /\ Owner[d] = NoUser => pending[d] = <<>>

-----------------------------------------------------------------------------

\* The document as the watch stream brings it with its snapshot v.
Watched(v, doc) ==
    [version |-> v, doc |-> doc, committed |-> FALSE, snapshot |-> v]

\* Every device has loaded the events list, so it holds the first version.
Init ==
    /\ \E doc \in Doc :
        /\ doc.exists
        /\ log = <<doc>>
        /\ cache = [d \in Devices |-> Watched(1, doc)]
    /\ pending = [d \in Devices |-> <<>>]
    /\ results = [d \in Devices |-> <<>>]
    /\ snapshots = [d \in Devices |-> <<>>]
    /\ screen = [d \in Devices |-> ClosedScreen]
    /\ intent = [d \in Devices |-> "none"]
    /\ spent = [taps |-> 0, admin |-> 0, drops |-> 0]

\* A cell of the events list is chosen: a new view controller gets the guests
\* of that list, however old, and viewDidLoad adds the listener, which first
\* reports the cached document.
OpenDetails(d) ==
    /\ ~screen[d].open
    /\ \E guests \in {doc.attending : doc \in History \cup {View(d)}} :
        screen' = [screen EXCEPT ![d] = OpenScreen(guests)]
    /\ snapshots' = [snapshots EXCEPT ![d] = <<View(d)>>]
    /\ UNCHANGED <<log, cache, pending, results, intent, spent>>

BackButton(d) ==
    /\ screen[d].open
    /\ screen' = [screen EXCEPT ![d] = ClosedScreen]
    /\ snapshots' = [snapshots EXCEPT ![d] = <<>>]
    /\ UNCHANGED <<log, cache, pending, results, intent, spent>>

\* The button toggles on the screen's own flag; nobody waits for the write.
AttendingButton(d) ==
    LET op == IF screen[d].attending THEN "arrayRemove" ELSE "arrayUnion" IN
    /\ screen[d].open
    /\ Owner[d] # NoUser
    /\ spent.taps < MaxTaps
    /\ spent' = [spent EXCEPT !.taps = @ + 1]
    /\ pending' = [pending EXCEPT ![d] = Append(@, op)]
    /\ screen' = [screen EXCEPT ![d].attending = ~@]
    /\ intent' = [intent EXCEPT ![d] = op]
    /\ UNCHANGED <<log, cache, results>>
    /\ Notify(d)

\* The flag after a snapshot: it is set for a listed user and never cleared,
\* except for a guest.
FlagAfter(d, doc) ==
    IF Owner[d] # NoUser
    THEN screen[d].attending \/ Owner[d] \in doc.attending
    ELSE FALSE

\* loadAttending's listener: a document without the field changes nothing.
ListenerFires(d) ==
    /\ snapshots[d] # <<>>
    /\ LET doc == Head(snapshots[d]) IN
       screen' = IF doc.exists
                 THEN [screen EXCEPT
                        ![d].attendingUID = doc.attending,
                        ![d].attending = FlagAfter(d, doc)]
                 ELSE screen
    /\ snapshots' = [snapshots EXCEPT ![d] = Tail(@)]
    /\ UNCHANGED <<log, cache, pending, results, intent, spent>>

-----------------------------------------------------------------------------

\* Variant of Executed: the list is written back whole, as the device saw it.
ExecutedOnCache(d, op) ==
    [Current EXCEPT !.attending =
        Transform(op, Owner[d], [cache[d].doc EXCEPT !.exists = TRUE]).attending]

\* The document after an RSVP: the transform is applied where the list is.
Executed(d, op) == Transform(op, Owner[d], Current)

\* The server executes the first write it has not answered. It refuses a
\* write to a missing document and then takes no other on that connection.
Commit(d) ==
    LET next == Len(results[d]) + 1
        doc == Executed(d, pending[d][next])
    IN
    /\ next <= Len(pending[d])
    /\ \A i \in 1 .. Len(results[d]) : results[d][i] # NotFound
    /\ IF Current.exists
       THEN /\ log' = IF doc = Current THEN log ELSE Append(log, doc)
            /\ results' = [results EXCEPT ![d] = Append(@, Len(log'))]
            /\ UNCHANGED intent
       ELSE /\ results' = [results EXCEPT ![d] = Append(@, NotFound)]
            /\ intent' = [intent EXCEPT ![d] = "none"]
            /\ UNCHANGED log
    /\ UNCHANGED <<cache, pending, snapshots, screen, spent>>

\* The write replayed on the cached document, as of the version it got.
Replayed(d) ==
    [cache[d] EXCEPT !.version = Head(results[d]),
                     !.doc = Transform(Head(pending[d]), Owner[d], @),
                     !.committed = TRUE]

\* Variant of Acknowledged: the cached version is not looked at.
AcknowledgedAlways(d) == Replayed(d)

\* The cached document after an acknowledgement: the write is replayed on it,
\* unless the watch stream already brought a document as new.
Acknowledged(d) ==
    IF cache[d].version < Head(results[d]) THEN Replayed(d) ELSE cache[d]

Ack(d) ==
    /\ results[d] # <<>>
    /\ Head(results[d]) # NotFound
    /\ cache' = [cache EXCEPT ![d] = Acknowledged(d)]
    /\ pending' = [pending EXCEPT ![d] = Tail(@)]
    /\ results' = [results EXCEPT ![d] = Tail(@)]
    /\ UNCHANGED <<log, screen, intent, spent>>
    /\ Notify(d)

\* Variant of Reject: the answer is not taken off the pipeline.
RejectKeepingAnswer(d) ==
    /\ results[d] # <<>>
    /\ Head(results[d]) = NotFound
    /\ pending' = [pending EXCEPT ![d] = Tail(@)]
    /\ UNCHANGED <<log, cache, results, screen, intent, spent>>
    /\ Notify(d)

\* Variant of Reject: a refusal is taken for a transient error.
RejectAndRetry(d) ==
    /\ results[d] # <<>>
    /\ Head(results[d]) = NotFound
    /\ results' = [results EXCEPT ![d] = Tail(@)]
    /\ UNCHANGED <<log, cache, pending, snapshots, screen, intent, spent>>

\* A refused write leaves the queue; updateData was given no completion
\* handler, so the screen's flag keeps the value the tap gave it.
Reject(d) ==
    /\ results[d] # <<>>
    /\ Head(results[d]) = NotFound
    /\ pending' = [pending EXCEPT ![d] = Tail(@)]
    /\ results' = [results EXCEPT ![d] = Tail(@)]
    /\ UNCHANGED <<log, cache, screen, intent, spent>>
    /\ Notify(d)

\* The snapshots the watch stream may bring: none before its last ("Watch
\* stream reverted to previous snapshot??"), but any that a device's own
\* acknowledgements are already ahead of.
Deliverable(d) == cache[d].snapshot .. Len(log)

\* Variant of Applies: an authoritative document is always applied.
AppliesBlindly(d, v) == log[v].exists \/ v >= cache[d].version

\* Variant of Applies: the version already cached is not taken again.
AppliesIfNewer(d, v) ==
    \/ log[v].exists /\ ~cache[d].committed
    \/ v > cache[d].version

\* A document added to or modified in a target is authoritative and applied
\* whatever its version, unless the cached one is an acknowledgement's. That
\* one, and a deletion, give way to versions as new: an acknowledgement may
\* have guessed the content.
Applies(d, v) ==
    \/ log[v].exists /\ ~cache[d].committed
    \/ v >= cache[d].version

\* The listener of VC_EventDetails is never removed and the events list asks
\* again on its own, so the cache moves with the screen closed too.
WatchUpdate(d) ==
    /\ \E v \in Deliverable(d) :
        cache' = [cache EXCEPT ![d] = IF Applies(d, v) THEN Watched(v, log[v])
                                      ELSE [@ EXCEPT !.snapshot = v]]
    /\ cache' # cache
    /\ UNCHANGED <<log, pending, results, screen, intent, spent>>
    /\ Notify(d)

\* A lost connection: unanswered writes are sent again, and the server may
\* already have executed them.
Reconnect(d) ==
    /\ results[d] # <<>>
    /\ spent.drops < MaxDrops
    /\ spent' = [spent EXCEPT !.drops = @ + 1]
    /\ results' = [results EXCEPT ![d] = <<>>]
    /\ UNCHANGED <<log, cache, pending, snapshots, screen, intent>>

\* Variant of Restart: the mutation queue lived in memory only.
RestartForgetting(d) ==
    /\ spent.drops < MaxDrops
    /\ spent' = [spent EXCEPT !.drops = @ + 1]
    /\ screen' = [screen EXCEPT ![d] = ClosedScreen]
    /\ snapshots' = [snapshots EXCEPT ![d] = <<>>]
    /\ results' = [results EXCEPT ![d] = <<>>]
    /\ pending' = [pending EXCEPT ![d] = <<>>]
    /\ UNCHANGED <<log, cache, intent>>

\* The application ends and starts again: the cache and the mutation queue
\* are on disk, the view controller and its events are gone.
Restart(d) ==
    /\ spent.drops < MaxDrops
    /\ spent' = [spent EXCEPT !.drops = @ + 1]
    /\ screen' = [screen EXCEPT ![d] = ClosedScreen]
    /\ snapshots' = [snapshots EXCEPT ![d] = <<>>]
    /\ results' = [results EXCEPT ![d] = <<>>]
    /\ UNCHANGED <<log, cache, pending, intent>>

\* The administrator's writes overwrite whatever the list holds.
AdminWrite(doc) ==
    /\ spent.admin < MaxAdminWrites
    /\ spent' = [spent EXCEPT !.admin = @ + 1]
    /\ log' = Append(log, doc)
    /\ intent' = [d \in Devices |-> "none"]
    /\ UNCHANGED <<cache, pending, results, snapshots, screen>>

\* saveProfile of VC_AdminEvents: setData with an empty list.
AdminSave == AdminWrite(NewDoc)

AdminDelete == Current.exists /\ AdminWrite(NoDoc)

DeviceStep(d) ==
    \/ OpenDetails(d) \/ BackButton(d) \/ AttendingButton(d)
    \/ ListenerFires(d)
    \/ Commit(d) \/ Ack(d) \/ Reject(d) \/ WatchUpdate(d)
    \/ Reconnect(d) \/ Restart(d)

Next == AdminSave \/ AdminDelete \/ \E d \in Devices : DeviceStep(d)

Spec == Init /\ [][Next]_vars

\* The main queue runs what is posted to it, and a reachable server answers
\* writes and, to the listener of an open screen, delivers updates. Nothing
\* makes a user or administrator act.
Fairness ==
    \A d \in Devices :
        /\ WF_vars(Commit(d)) /\ WF_vars(Ack(d)) /\ WF_vars(Reject(d))
        /\ WF_vars(screen[d].open /\ WatchUpdate(d)) /\ WF_vars(ListenerFires(d))

FairSpec == Spec /\ Fairness

-----------------------------------------------------------------------------

\* Every listener event has run and the screen shows an existing event.
Drained(d) ==
    screen[d].open /\ snapshots[d] = <<>> /\ View(d).exists

\* With no event left to run, the list on an open screen is the device's view
\* of the event, own RSVPs included, and a user in it sees the button say so,
\* whatever taps, acknowledgements, refusals and updates came in between.
ScreenFollowsView ==
    \A d \in Devices : Drained(d) =>
        /\ screen[d].attendingUID = View(d).attending
        /\ Owner[d] \in View(d).attending => screen[d].attending

\* The button of an attending user is never left saying "not attending" with
\* the list saying otherwise, nor the reverse: the image is chosen from the
\* flag alone, "from attending to empty(not attending)".
ButtonShowsAttendance ==
    \A d \in Devices : Drained(d) /\ pending[d] = <<>> =>
        (screen[d].attending <=> Owner[d] \in View(d).attending)

SoleDevice(d) ==
    Owner[d] # NoUser /\ \A e \in Devices : Owner[e] = Owner[d] => e = d

\* Once the queue of a user's only device is empty, the server holds what the
\* last tap asked for, over restarts and writes executed twice, unless the
\* server refused it or the administrator published or deleted the event.
LastTapWins ==
    \A d \in Devices :
        SoleDevice(d) /\ pending[d] = <<>> /\ intent[d] # "none" =>
            /\ Current.exists
            /\ intent[d] = "arrayUnion" <=> Owner[d] \in Current.attending

\* The device's copy of the document goes forward only, though watch updates
\* are applied blindly: the stream may be behind an acknowledgement, never
\* behind what it brought itself, and no acknowledgement replaces a newer copy.
CacheGoesForward ==
    [][\A d \in Devices : cache'[d].version >= cache[d].version]_vars

\* The server's document changes as the abstract register allows: one user
\* at a time, never on a missing event, and wholesale only by the admin.
Register == INSTANCE AttendanceRegister WITH event <- Current

RegisterSpec == Register!Spec

Verdict(d) ==
    [i \in 1 .. Len(results[d]) |->
        IF results[d][i] = NotFound THEN "refused" ELSE "ok"]

Verdicts == [d \in Devices |-> Verdict(d)]

\* Each device's RSVPs are a queue of writes answered in order, over lost
\* connections and restarts: the promise that WritePipeline keeps in detail.
Queue == INSTANCE WriteQueue WITH
            Clients <- Devices, Writes <- Ops,
            answers <- Verdicts

QueueSpec == Queue!Spec

\* Every RSVP is answered: no queue of writes stays non-empty.
EveryRsvpResolves ==
    \A d \in Devices : pending[d] # <<>> ~> pending[d] = <<>>

\* An open screen catches up with the server's list again and again, also
\* when an acknowledgement left a cached document no server ever had.
ScreenCatchesUp ==
    \A d \in Devices :
        []<>(screen[d].open /\ Current.exists =>
                screen[d].attendingUID = Current.attending)

\* What users asked for settles: at the server, and on every open screen.
RsvpsSettle == EveryRsvpResolves /\ ScreenCatchesUp
=============================================================================
