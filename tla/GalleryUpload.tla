---------------------------- MODULE GalleryUpload ----------------------------
(***************************************************************************)
(* A gallery photo from upload to deletion. An upload puts two files,      *)
(* thumbnail and photo, into Storage side by side; each of them, when its  *)
(* URL is known, stores that URL in the view controller and saves the      *)
(* GalleryPhotos document with both of the controller's URLs. A deletion   *)
(* from an edit screen removes both files and the document.                *)
(*                                                                         *)
(* phase     per upload and half, how far the upload of that file is       *)
(* store     per device, thumbURLstore and photoURLstore of VC_Gallery: a  *)
(*           URL is named by the upload whose file it leads to             *)
(* blobs     the files in Storage                                          *)
(* docs      the GalleryPhotos documents at the server                     *)
(* queue     per device, document writes not yet executed, in order        *)
(* rows      per device, the uploads listed on its edit screen             *)
(* removing  Storage deletions on their way: device, upload, half          *)
(* failures  uploads, deletions and applications lost so far               *)
(* shared, deleted                                                         *)
(*           uploads that overlapped another one on their screen, and      *)
(*           uploads some user deleted; only the properties read them      *)
(***************************************************************************)
EXTENDS Integers, Sequences, SequencesExt

CONSTANTS
    Uploads,     \* dateString, the name of the document and of the files
    Devices,
    Uploader,    \* the device each upload is made on
    Admins,      \* devices on which the administrator is signed in
    NoURL,       \* ""
    MaxFailures  \* bound on failed calls and ended applications

ASSUME UploaderAssumption == Uploader \in [Uploads -> Devices]

ASSUME GalleryAssumption ==
    Admins \subseteq Devices /\ NoURL \notin Uploads /\ MaxFailures \in Nat

VARIABLES phase, store, blobs, docs, queue, rows, removing, failures,
          shared, deleted

vars == <<phase, store, blobs, docs, queue, rows, removing, failures,
          shared, deleted>>

-----------------------------------------------------------------------------

Halves == {"thumbnail", "photo"}

Phases == {"none", "putting", "stored", "saved", "failed"}

URLs == [Halves -> Uploads \cup {NoURL}]

NoDoc == [h \in Halves |-> "missing"]

\* What marks a missing document is no URL.
ASSUME NoDocAssumption == "missing" \notin Uploads \cup {NoURL}

Blobs == Uploads \X Halves

Sets == [op : {"set"}, id : Uploads, fields : URLs]

Deletes == [op : {"delete"}, id : Uploads]

TypeOK ==
    /\ phase \in [Uploads -> [Halves -> Phases]]
    /\ store \in [Devices -> URLs]
    /\ blobs \subseteq Blobs
    /\ docs \in [Uploads -> URLs \cup {NoDoc}]
    /\ queue \in [Devices -> Seq(Sets \cup Deletes)]
    /\ rows \in [Devices -> SUBSET Uploads]
    /\ removing \subseteq Devices \X Blobs
    /\ failures \in 0 .. MaxFailures
    /\ shared \subseteq Uploads /\ deleted \subseteq Uploads

Init ==
    /\ phase = [u \in Uploads |-> [h \in Halves |-> "none"]]
    /\ store = [d \in Devices |-> [h \in Halves |-> NoURL]]
    /\ blobs = {}
    /\ docs = [u \in Uploads |-> NoDoc]
    /\ queue = [d \in Devices |-> <<>>]
    /\ rows = [d \in Devices |-> {}]
    /\ removing = {}
    /\ failures = 0
    /\ shared = {} /\ deleted = {}

Active(u) == \E h \in Halves : phase[u][h] \in {"putting", "stored"}

Settled(u) == \A h \in Halves : phase[u][h] \in {"saved", "failed"}

Fail == failures < MaxFailures /\ failures' = failures + 1

-----------------------------------------------------------------------------

\* An image is picked: both files start on their way, whatever else the
\* screen is still uploading.
UploadImage(u) ==
    LET others == {v \in Uploads \ {u} : Uploader[v] = Uploader[u] /\ Active(v)}
    IN
    /\ \A h \in Halves : phase[u][h] = "none"
    /\ phase' = [phase EXCEPT ![u] = [h \in Halves |-> "putting"]]
    /\ shared' = IF others = {} THEN shared ELSE shared \cup others \cup {u}
    /\ UNCHANGED <<store, blobs, docs, queue, rows, removing, failures, deleted>>

PutCompletes(u, h) ==
    /\ phase[u][h] = "putting"
    /\ phase' = [phase EXCEPT ![u][h] = "stored"]
    /\ blobs' = blobs \cup {<<u, h>>}
    /\ UNCHANGED <<store, docs, queue, rows, removing, failures, shared, deleted>>

\* Variant of SaveImageData: a field is left out of the dictionary.
SavePhotoOnly(d, u, fields) ==
    queue' = [queue EXCEPT
                ![d] = Append(@, [op |-> "set", id |-> u,
                                  fields |-> [photo |-> fields["photo"]]])]

\* Variant of SaveImageData: the field of the other file is left empty.
SaveOwnFieldOnly(d, u, fields) ==
    queue' = [queue EXCEPT
                ![d] = Append(@, [op |-> "set", id |-> u, fields |->
                    [h \in Halves |-> IF phase[u][h] = "stored" THEN fields[h]
                                      ELSE NoURL]])]

\* saveImageData: setData of the whole document.
SaveImageData(d, u, fields) ==
    queue' = [queue EXCEPT
                ![d] = Append(@, [op |-> "set", id |-> u, fields |-> fields])]

\* Variant of URLArrives: the document is saved before the URL is stored.
SaveBeforeStore(u, h) ==
    LET d == Uploader[u] IN
    /\ phase[u][h] = "stored"
    /\ <<u, h>> \in blobs
    /\ SaveImageData(d, u, store[d])
    /\ store' = [store EXCEPT ![d][h] = u]
    /\ phase' = [phase EXCEPT ![u][h] = "saved"]
    /\ UNCHANGED <<blobs, docs, rows, removing, failures, shared, deleted>>

\* downloadURL answers: the URL goes to the screen's store, and the document
\* is saved with both URLs the screen has at that moment.
URLArrives(u, h) ==
    LET d == Uploader[u]
        urls == [store[d] EXCEPT ![h] = u]
    IN
    /\ phase[u][h] = "stored"
    /\ <<u, h>> \in blobs
    /\ store' = [store EXCEPT ![d] = urls]
    /\ SaveImageData(d, u, urls)
    /\ phase' = [phase EXCEPT ![u][h] = "saved"]
    /\ UNCHANGED <<blobs, docs, rows, removing, failures, shared, deleted>>

\* putData or downloadURL fails, the latter surely when the file is gone: the
\* completion handler returns and nothing else happens.
HalfFails(u, h) ==
    /\ phase[u][h] \in {"putting", "stored"}
    /\ IF phase[u][h] = "stored" /\ <<u, h>> \notin blobs
       THEN UNCHANGED failures
       ELSE Fail
    /\ phase' = [phase EXCEPT ![u][h] = "failed"]
    /\ UNCHANGED <<store, blobs, docs, queue, rows, removing, shared, deleted>>

-----------------------------------------------------------------------------

\* Variant of Commit: the newest write goes first.
CommitNewest(d) ==
    /\ queue[d] # <<>>
    /\ LET write == Last(queue[d]) IN
       docs' = [docs EXCEPT ![write.id] =
                    IF write.op = "set" THEN write.fields ELSE NoDoc]
    /\ queue' = [queue EXCEPT ![d] = Front(@)]
    /\ UNCHANGED <<phase, store, blobs, rows, removing, failures, shared, deleted>>

\* The server executes the next document write of a device.
Commit(d) ==
    /\ queue[d] # <<>>
    /\ LET write == Head(queue[d]) IN
       docs' = [docs EXCEPT ![write.id] =
                    IF write.op = "set" THEN write.fields ELSE NoDoc]
    /\ queue' = [queue EXCEPT ![d] = Tail(@)]
    /\ UNCHANGED <<phase, store, blobs, rows, removing, failures, shared, deleted>>

\* The document as a device's getDocuments reports it, under its own writes.
Seen(d, u) ==
    LET writes == SelectSeq(queue[d], LAMBDA w : w.id = u) IN
    IF writes = <<>> THEN docs[u] # NoDoc ELSE Last(writes).op = "set"

\* filteritems: the photos the member uploaded.
Filteritems(d, photos) == {u \in photos : Uploader[u] = d}

List(d, photos) ==
    /\ rows' = [rows EXCEPT ![d] = photos]
    /\ UNCHANGED <<phase, store, blobs, docs, queue, removing, failures,
                   shared, deleted>>

\* The edit screens list a member's own photos, the administrator's all.
LoadImages(d) == List(d, Filteritems(d, {u \in Uploads : Seen(d, u)}))

AdminLoadImages(d) ==
    d \in Admins /\ List(d, {u \in Uploads : Seen(d, u)})

\* Variant of DeleteRow: the files are found by the URLs of the document.
DeleteByURL(d, u) ==
    /\ u \in rows[d]
    /\ removing' = removing
         \cup {<<d, <<docs[u][h], h>>>> : h \in {i \in Halves : docs[u][i] \in Uploads}}
    /\ queue' = [queue EXCEPT ![d] = Append(@, [op |-> "delete", id |-> u])]
    /\ rows' = [rows EXCEPT ![d] = @ \ {u}]
    /\ deleted' = deleted \cup {u}
    /\ UNCHANGED <<phase, store, blobs, docs, failures, shared>>

\* A row is deleted: both files, the document, the row; no call waits for
\* another, and the row may be older than what it names.
DeleteRow(d, u) ==
    /\ u \in rows[d]
    /\ removing' = removing \cup {<<d, <<u, h>>>> : h \in Halves}
    /\ queue' = [queue EXCEPT ![d] = Append(@, [op |-> "delete", id |-> u])]
    /\ rows' = [rows EXCEPT ![d] = @ \ {u}]
    /\ deleted' = deleted \cup {u}
    /\ UNCHANGED <<phase, store, blobs, docs, failures, shared>>

RemovalArrives(r) ==
    /\ r \in removing
    /\ removing' = removing \ {r}
    /\ blobs' = blobs \ {r[2]}
    /\ UNCHANGED <<phase, store, docs, queue, rows, failures, shared, deleted>>

RemovalFails(r) ==
    /\ r \in removing
    /\ Fail
    /\ removing' = removing \ {r}
    /\ UNCHANGED <<phase, store, blobs, docs, queue, rows, shared, deleted>>

\* The application ends: its transfers and screens are gone, the queue of
\* document writes is on disk.
Restart(d) ==
    /\ Fail
    /\ phase' = [u \in Uploads |->
                    IF Uploader[u] # d THEN phase[u]
                    ELSE [h \in Halves |->
                            IF phase[u][h] \in {"putting", "stored"}
                            THEN "failed" ELSE phase[u][h]]]
    /\ store' = [store EXCEPT ![d] = [h \in Halves |-> NoURL]]
    /\ rows' = [rows EXCEPT ![d] = {}]
    /\ removing' = {r \in removing : r[1] # d}
    /\ UNCHANGED <<blobs, docs, queue, shared, deleted>>

Next ==
    \/ \E u \in Uploads :
        \/ UploadImage(u)
        \/ \E h \in Halves :
            PutCompletes(u, h) \/ URLArrives(u, h) \/ HalfFails(u, h)
    \/ \E d \in Devices :
        \/ Commit(d) \/ LoadImages(d) \/ AdminLoadImages(d) \/ Restart(d)
        \/ \E u \in Uploads : DeleteRow(d, u)
    \/ \E r \in removing : RemovalArrives(r) \/ RemovalFails(r)

Spec == Init /\ [][Next]_vars

\* A reachable server executes queued writes; nothing else is promised.
FairSpec == Spec /\ \A d \in Devices : WF_vars(Commit(d))

-----------------------------------------------------------------------------

Saved(u) == \A h \in Halves : phase[u][h] = "saved"

NoneQueued(u, ops) ==
    \A d \in Devices : \A i \in 1 .. Len(queue[d]) :
        queue[d][i].id = u => queue[d][i].op \notin ops

\* Once both halves are saved, and executed by the server, an upload nobody
\* deleted is listed with two URLs, whichever half came last; and both lead
\* to its own files if no other upload ran on the screen meanwhile.
CompleteUploadListed ==
    \A u \in Uploads :
        Saved(u) /\ u \notin deleted /\ NoneQueued(u, {"set"}) =>
            /\ docs[u] # NoDoc
            /\ \A h \in Halves : docs[u][h] # NoURL
            /\ u \notin shared => \A h \in Halves : docs[u][h] = u

\* A URL in a document leads to a file that exists, unless the upload that
\* owns the file was deleted: deletions of others never take it away.
NoDanglingURL ==
    \A u \in Uploads, h \in Halves :
        LET v == docs[u][h] IN
        v \in Uploads \ deleted => <<v, h>> \in blobs

\* Some device is going to delete u after every save of u still queued.
DeleteIsLast(u) ==
    \E d \in Devices : \E i \in 1 .. Len(queue[d]) :
        /\ queue[d][i] = [op |-> "delete", id |-> u]
        /\ \A e \in Devices : \A j \in 1 .. Len(queue[e]) :
            queue[e][j].id = u /\ queue[e][j].op = "set" => e = d /\ j < i

\* A deletion made when no half of the upload is on its way any more holds,
\* if it is queued behind the upload's saves: the document goes and never
\* comes back, over restarts of any device.
DeleteSticks ==
    \A u \in Uploads :
        [](Settled(u) /\ DeleteIsLast(u) => <>[](docs[u] = NoDoc))

\* "Deletes the reference to the photo": with the upload over and its writes
\* executed, a deleted document is gone.
DeletedStaysDeleted ==
    \A u \in Uploads :
        u \in deleted /\ Settled(u) /\ NoneQueued(u, {"set", "delete"})
            => docs[u] = NoDoc

\* The documents behave as the abstract library: whatever fails, overlaps or
\* restarts, a document never loses the URL of one file and keeps the other.
Library ==
    INSTANCE PhotoLibrary WITH
        Photos <- Uploads,
        entry <- [u \in Uploads |->
                    IF docs[u] = NoDoc THEN {}
                    ELSE {h \in Halves : docs[u][h] # NoURL}]

LibrarySpec == Library!Spec

=============================================================================
