-------------------------- MODULE GalleryUploadProofs --------------------------
(***************************************************************************)
(* Proofs about GalleryUpload, for every set of uploads and devices, any   *)
(* number of administrators and every bound on failures.                   *)
(***************************************************************************)
EXTENDS GalleryUpload, TLAPS

-----------------------------------------------------------------------------
(* The inductive invariant.                                                  *)

\* The saves of u still queued: positions in the queue of u's device.
SavesOf(u) ==
    {i \in 1 .. Len(queue[Uploader[u]]) :
        queue[Uploader[u]][i].op = "set" /\ queue[Uploader[u]][i].id = u}

Save(u, i) == queue[Uploader[u]][i].fields

SavesByUploader ==
    \A d \in Devices : \A i \in 1 .. Len(queue[d]) :
        queue[d][i].op = "set" => Uploader[queue[d][i].id] = d

\* What is on its way to be deleted belongs to an upload somebody deleted.
DeletionsKnown ==
    /\ \A r \in removing : r[2][1] \in deleted
    /\ \A d \in Devices : \A i \in 1 .. Len(queue[d]) :
        queue[d][i].op = "delete" => queue[d][i].id \in deleted

FilesExist(fields) ==
    \A h \in Halves :
        fields[h] \in Uploads \ deleted => <<fields[h], h>> \in blobs

\* Wherever a URL is, its file exists.
URLsHaveFiles ==
    /\ \A d \in Devices : FilesExist(store[d])
    /\ \A u \in Uploads : FilesExist(docs[u])
    /\ \A u \in Uploads : \A i \in SavesOf(u) : FilesExist(Save(u, i))

HasURL(fields) == \E h \in Halves : fields[h] # NoURL

Keeps(old, new) == \A h \in Halves : old[h] # NoURL => new[h] # NoURL

\* The document of an upload, its saves in their order and, while it runs, the
\* screen's store: each has the URLs of the one before.
DocumentsGrow ==
    \A u \in Uploads :
        /\ docs[u] # NoDoc =>
            /\ HasURL(docs[u])
            /\ \A i \in SavesOf(u) : Keeps(docs[u], Save(u, i))
            /\ Active(u) => Keeps(docs[u], store[Uploader[u]])
        /\ \A i \in SavesOf(u) :
            /\ HasURL(Save(u, i))
            /\ \A j \in SavesOf(u) : i < j => Keeps(Save(u, i), Save(u, j))
            /\ Active(u) => Keeps(Save(u, i), store[Uploader[u]])

\* An upload not begun has left nothing.
NothingBefore ==
    \A u \in Uploads :
        (\A h \in Halves : phase[u][h] = "none") =>
            SavesOf(u) = {} /\ docs[u] = NoDoc

OverlapsKnown ==
    \A u, v \in Uploads :
        u # v /\ Uploader[u] = Uploader[v] /\ Active(u) /\ Active(v) =>
            u \in shared

\* The URL of each half of u that was saved, u's own if u was alone.
Complete(u, fields) ==
    \A h \in Halves : phase[u][h] = "saved" =>
        fields[h] # NoURL /\ (u \notin shared => fields[h] = u)

StoreComplete ==
    \A u \in Uploads : Active(u) => Complete(u, store[Uploader[u]])

\* The last save of an upload, in the queue or executed, has all there is.
LastSaveComplete ==
    \A u \in Uploads \ deleted :
        (\E h \in Halves : phase[u][h] = "saved") =>
            \/ SavesOf(u) = {} /\ docs[u] # NoDoc /\ Complete(u, docs[u])
            \/ \E i \in SavesOf(u) :
                (\A j \in SavesOf(u) : j <= i) /\ Complete(u, Save(u, i))

IInv ==
    /\ TypeOK
    /\ SavesByUploader /\ DeletionsKnown /\ URLsHaveFiles
    /\ DocumentsGrow /\ NothingBefore
    /\ OverlapsKnown /\ StoreComplete /\ LastSaveComplete

-----------------------------------------------------------------------------
(* Types.                                                                   *)

Write == Sets \cup Deletes

\* A document that does not exist is not a pair of URLs.
LEMMA NoDocIsNone ==
    /\ NoDoc \notin URLs
    /\ \A h \in Halves : NoDoc[h] = "missing"
    /\ \A fields \in URLs \cup {NoDoc}, h \in Halves :
        fields[h] \in Uploads => fields \in URLs
  BY NoDocAssumption DEF NoDoc, URLs, Halves

LEMMA WriteFields ==
    ASSUME NEW w \in Write
    PROVE  /\ w.id \in Uploads /\ w.op \in {"set", "delete"}
           /\ w.op = "set" => w.fields \in URLs
  BY DEF Write, Sets, Deletes

\* Appending a write to a queue and taking the first one away.
LEMMA Appended ==
    ASSUME NEW q \in Seq(Write), NEW w \in Write
    PROVE  /\ Append(q, w) \in Seq(Write)
           /\ Len(Append(q, w)) = Len(q) + 1
           /\ Append(q, w)[Len(q) + 1] = w
           /\ \A i \in 1 .. Len(q) : Append(q, w)[i] = q[i]
  OBVIOUS

LEMMA Taken ==
    ASSUME NEW q \in Seq(Write), q # <<>>
    PROVE  /\ Head(q) = q[1] /\ Head(q) \in Write /\ Len(q) \in Nat \ {0}
           /\ Tail(q) \in Seq(Write)
           /\ Len(Tail(q)) = Len(q) - 1
           /\ \A i \in 1 .. Len(q) - 1 : Tail(q)[i] = q[i + 1]
  OBVIOUS

LEMMA TypeInit == Init => TypeOK
  BY NoDocIsNone, GalleryAssumption
  DEF Init, TypeOK, URLs, Phases, Halves

LEMMA TypeNext == TypeOK /\ [Next]_vars => TypeOK'
  <1> SUFFICES ASSUME TypeOK, [Next]_vars PROVE TypeOK'
    OBVIOUS
  <1> USE DEF Write
  <1>1. ASSUME NEW u \in Uploads, UploadImage(u) PROVE TypeOK'
    <2>1. [h \in Halves |-> "putting"] \in [Halves -> Phases]
      BY DEF Phases
    <2>2. shared' \subseteq Uploads
      BY <1>1 DEF UploadImage, TypeOK
    <2> QED BY <1>1, <2>1, <2>2 DEF UploadImage, TypeOK
  <1>2. ASSUME NEW u \in Uploads, NEW h \in Halves, PutCompletes(u, h)
        PROVE  TypeOK'
    BY <1>2 DEF PutCompletes, TypeOK, Phases, Blobs
  <1>3. ASSUME NEW u \in Uploads, NEW h \in Halves, URLArrives(u, h)
        PROVE  TypeOK'
    <2> DEFINE d == Uploader[u]
               urls == [store[d] EXCEPT ![h] = u]
               w == [op |-> "set", id |-> u, fields |-> urls]
    <2>1. d \in Devices
      BY UploaderAssumption
    <2>2. urls \in URLs
      BY <2>1 DEF TypeOK, URLs
    <2>3. w \in Sets
      BY <2>2 DEF Sets
    <2>4. /\ store' = [store EXCEPT ![d] = urls]
          /\ queue' = [queue EXCEPT ![d] = Append(@, w)]
          /\ phase' = [phase EXCEPT ![u][h] = "saved"]
          /\ UNCHANGED <<blobs, docs, rows, removing, failures, shared, deleted>>
      BY <1>3 DEF URLArrives, SaveImageData
    <2>5. Append(queue[d], w) \in Seq(Write)
      BY <2>1, <2>3, Appended DEF TypeOK
    <2> HIDE DEF d, urls, w
    <2>6. store' \in [Devices -> URLs] /\ queue' \in [Devices -> Seq(Write)]
      BY <2>1, <2>2, <2>4, <2>5 DEF TypeOK
    <2>7. phase' \in [Uploads -> [Halves -> Phases]]
      BY <2>4 DEF TypeOK, Phases
    <2> QED BY <2>4, <2>6, <2>7 DEF TypeOK
  <1>4. ASSUME NEW u \in Uploads, NEW h \in Halves, HalfFails(u, h)
        PROVE  TypeOK'
    BY <1>4, GalleryAssumption DEF HalfFails, Fail, TypeOK, Phases
  <1>5. ASSUME NEW d \in Devices, Commit(d) PROVE TypeOK'
    <2>1. queue[d] \in Seq(Write) /\ queue[d] # <<>>
      BY <1>5 DEF Commit, TypeOK
    <2>2. Head(queue[d]) \in Write /\ Tail(queue[d]) \in Seq(Write)
      BY <2>1, Taken
    <2>3. (IF Head(queue[d]).op = "set" THEN Head(queue[d]).fields ELSE NoDoc)
            \in URLs \cup {NoDoc}
      BY <2>2, WriteFields
    <2>4. docs' \in [Uploads -> URLs \cup {NoDoc}]
      BY <1>5, <2>3 DEF Commit, TypeOK
    <2>5. queue' \in [Devices -> Seq(Write)]
      BY <1>5, <2>2 DEF Commit, TypeOK
    <2> QED BY <1>5, <2>4, <2>5 DEF Commit, TypeOK
  <1>6. ASSUME NEW d \in Devices, LoadImages(d) PROVE TypeOK'
    BY <1>6 DEF LoadImages, List, Filteritems, TypeOK
  <1>7. ASSUME NEW d \in Devices, AdminLoadImages(d) PROVE TypeOK'
    BY <1>7 DEF AdminLoadImages, List, TypeOK
  <1>8. ASSUME NEW d \in Devices, Restart(d) PROVE TypeOK'
    <2>1. phase' \in [Uploads -> [Halves -> Phases]]
      BY <1>8 DEF Restart, TypeOK, Phases
    <2>2. store' \in [Devices -> URLs]
      BY <1>8 DEF Restart, TypeOK, URLs
    <2>3. failures' \in 0 .. MaxFailures
      BY <1>8, GalleryAssumption DEF Restart, Fail, TypeOK
    <2> QED BY <1>8, <2>1, <2>2, <2>3 DEF Restart, TypeOK
  <1>9. ASSUME NEW d \in Devices, NEW u \in Uploads, DeleteRow(d, u)
        PROVE  TypeOK'
    <2>1. [op |-> "delete", id |-> u] \in Write
      BY DEF Deletes
    <2>2. queue' \in [Devices -> Seq(Write)]
      BY <1>9, <2>1, Appended DEF DeleteRow, TypeOK
    <2>3. removing' \subseteq Devices \X Blobs
      BY <1>9 DEF DeleteRow, TypeOK, Blobs
    <2> QED BY <1>9, <2>2, <2>3 DEF DeleteRow, TypeOK
  <1>10. ASSUME NEW r \in removing, RemovalArrives(r) PROVE TypeOK'
    BY <1>10 DEF RemovalArrives, TypeOK
  <1>11. ASSUME NEW r \in removing, RemovalFails(r) PROVE TypeOK'
    BY <1>11, GalleryAssumption DEF RemovalFails, Fail, TypeOK
  <1>12. CASE UNCHANGED vars
    BY <1>12 DEF vars, TypeOK
  <1> QED BY <1>1, <1>2, <1>3, <1>4, <1>5, <1>6, <1>7, <1>8, <1>9, <1>10,
             <1>11, <1>12 DEF Next

\* Every reachable state is well typed; the queues hold saves of pairs of URLs
\* and deletions, and nothing else.
THEOREM TypeCorrect == Spec => []TypeOK
  BY TypeInit, TypeNext, PTL DEF Spec

-----------------------------------------------------------------------------
(* The saves of an upload after a step.                                     *)

LEMMA SaveType ==
    ASSUME TypeOK, NEW u \in Uploads, NEW i \in SavesOf(u)
    PROVE  /\ Save(u, i) \in URLs
           /\ i \in 1 .. Len(queue[Uploader[u]])
           /\ Uploader[u] \in Devices /\ queue[Uploader[u]] \in Seq(Write)
  <1>1. Uploader[u] \in Devices /\ queue[Uploader[u]] \in Seq(Write)
    BY UploaderAssumption DEF TypeOK, Write
  <1>2. i \in 1 .. Len(queue[Uploader[u]]) /\ queue[Uploader[u]][i].op = "set"
    BY DEF SavesOf
  <1>3. queue[Uploader[u]][i] \in Write
    BY <1>1, <1>2
  <1> QED BY <1>1, <1>2, <1>3, WriteFields DEF Save

LEMMA SavesKept ==
    ASSUME queue' = queue
    PROVE  \A u \in Uploads :
            /\ SavesOf(u)' = SavesOf(u)
            /\ \A i : Save(u, i)' = Save(u, i)
  BY DEF SavesOf, Save

\* Queueing a deletion changes no save.
LEMMA SavesBeforeDelete ==
    ASSUME TypeOK, NEW d \in Devices, NEW v \in Uploads, NEW u \in Uploads,
           queue' = [queue EXCEPT ![d] = Append(@, [op |-> "delete", id |-> v])]
    PROVE  /\ SavesOf(u)' = SavesOf(u)
           /\ \A i \in SavesOf(u) : Save(u, i)' = Save(u, i)
  <1> DEFINE e == Uploader[u]
             w == [op |-> "delete", id |-> v]
  <1>1. e \in Devices /\ queue[e] \in Seq(Write) /\ w \in Write
        /\ w.op # "set"
    BY UploaderAssumption DEF TypeOK, Write, Deletes
  <1>2. CASE e # d
    BY <1>1, <1>2 DEF SavesOf, Save, TypeOK
  <1>3. CASE e = d
    <2>1. queue'[e] = Append(queue[e], w)
      BY <1>1, <1>3 DEF TypeOK
    <2> HIDE DEF w
    <2>2. /\ Len(queue'[e]) = Len(queue[e]) + 1 /\ Len(queue[e]) \in Nat
          /\ queue'[e][Len(queue[e]) + 1].op # "set"
          /\ \A i \in 1 .. Len(queue[e]) : queue'[e][i] = queue[e][i]
      BY <1>1, <2>1, Appended
    <2>3. \A i \in 1 .. Len(queue'[e]) :
            i \in 1 .. Len(queue[e]) \/ i = Len(queue[e]) + 1
      BY <2>2
    <2> QED BY <2>2, <2>3 DEF SavesOf, Save
  <1> QED BY <1>2, <1>3

\* Queueing a save adds one for its upload, behind the others.
LEMMA SavesBeforeSave ==
    ASSUME TypeOK, NEW v \in Uploads, NEW fields \in URLs, NEW u \in Uploads,
           SaveImageData(Uploader[v], v, fields)
    PROVE  /\ u # v => SavesOf(u)' = SavesOf(u)
           /\ \A i \in SavesOf(u) : Save(u, i)' = Save(u, i)
           /\ u = v => \E n \in Nat :
                /\ SavesOf(u)' = SavesOf(u) \cup {n}
                /\ \A i \in SavesOf(u) : i \in Nat /\ i < n
                /\ Save(u, n)' = fields
  <1> DEFINE e == Uploader[u]
             w == [op |-> "set", id |-> v, fields |-> fields]
  <1>1. /\ e \in Devices /\ queue[e] \in Seq(Write) /\ w \in Write
        /\ w.op = "set" /\ w.id = v /\ w.fields = fields
    BY UploaderAssumption DEF TypeOK, Write, Sets
  <1>2. queue' = [queue EXCEPT ![Uploader[v]] = Append(@, w)]
    BY DEF SaveImageData
  <1> HIDE DEF w
  <1>3. CASE e # Uploader[v]
    BY <1>1, <1>2, <1>3 DEF SavesOf, Save, TypeOK
  <1>4. CASE e = Uploader[v]
    <2>1. queue'[e] = Append(queue[e], w)
      BY <1>1, <1>2, <1>4 DEF TypeOK
    <2>2. /\ Len(queue'[e]) = Len(queue[e]) + 1 /\ Len(queue[e]) \in Nat
          /\ queue'[e][Len(queue[e]) + 1] = w
          /\ \A i \in 1 .. Len(queue[e]) : queue'[e][i] = queue[e][i]
      BY <1>1, <2>1, Appended
    <2>3. /\ \A i \in 1 .. Len(queue'[e]) :
                i \in 1 .. Len(queue[e]) \/ i = Len(queue[e]) + 1
          /\ \A i \in 1 .. Len(queue[e]) :
                i \in 1 .. Len(queue'[e]) /\ i \in Nat /\ i < Len(queue[e]) + 1
          /\ Len(queue[e]) + 1 \in 1 .. Len(queue'[e])
      BY <2>2
    <2>4. CASE u # v
      BY <1>1, <2>2, <2>3, <2>4 DEF SavesOf, Save
    <2>5. CASE u = v
      <3> PICK n \in Nat : n = Len(queue[e]) + 1
        BY <2>2
      <3>1. SavesOf(u)' = SavesOf(u) \cup {n}
        BY <1>1, <2>2, <2>3, <2>5 DEF SavesOf
      <3>2. \A i \in SavesOf(u) : i \in 1 .. Len(queue[e])
        BY DEF SavesOf
      <3>3. \A i \in SavesOf(u) : Save(u, i)' = Save(u, i)
        BY <2>2, <3>2 DEF Save
      <3>4. \A i \in SavesOf(u) : i \in Nat /\ i < n
        BY <2>3, <3>2
      <3>5. Save(u, n)' = fields
        BY <1>1, <2>2 DEF Save
      <3> QED BY <2>5, <3>1, <3>3, <3>4, <3>5
    <2> QED BY <2>4, <2>5
  <1> QED BY <1>3, <1>4

\* The saves of u that a device's first write leaves, one place further on.
LEMMA SavesAfterCommit ==
    ASSUME TypeOK, NEW d \in Devices, Commit(d), NEW u \in Uploads
    PROVE  /\ Uploader[u] # d =>
                /\ SavesOf(u)' = SavesOf(u)
                /\ \A i : Save(u, i)' = Save(u, i)
           /\ Uploader[u] = d =>
                /\ \A i \in SavesOf(u)' :
                    /\ i \in Nat /\ i + 1 \in SavesOf(u)
                    /\ Save(u, i)' = Save(u, i + 1)
                /\ \A i \in SavesOf(u) :
                    i = 1 \/ (i \in Nat /\ i - 1 \in SavesOf(u)')
  <1> DEFINE q == queue[d]
  <1>1. q \in Seq(Write) /\ q # <<>> /\ queue' = [queue EXCEPT ![d] = Tail(q)]
    BY DEF Commit, TypeOK, Write
  <1>2. CASE Uploader[u] # d
    BY <1>1, <1>2, UploaderAssumption DEF SavesOf, Save, TypeOK
  <1>3. CASE Uploader[u] = d
    <2>1. queue'[d] = Tail(q)
      BY <1>1 DEF TypeOK
    <2>2. /\ Len(q) \in Nat \ {0} /\ Len(queue'[d]) = Len(q) - 1
          /\ \A i \in 1 .. Len(q) - 1 : queue'[d][i] = q[i + 1]
      BY <1>1, <2>1, Taken
    <2>3. /\ \A i \in 1 .. Len(queue'[d]) :
                i \in Nat /\ i + 1 \in 1 .. Len(q) /\ i \in 1 .. Len(q) - 1
          /\ \A i \in 1 .. Len(q) :
                i = 1 \/ (/\ i \in Nat /\ i - 1 \in 1 .. Len(queue'[d])
                          /\ i - 1 \in 1 .. Len(q) - 1 /\ (i - 1) + 1 = i)
      BY <2>2
    <2>4. \A i \in SavesOf(u)' :
            i \in Nat /\ i + 1 \in SavesOf(u) /\ Save(u, i)' = Save(u, i + 1)
      BY <1>3, <2>2, <2>3 DEF SavesOf, Save
    <2>5. \A i \in SavesOf(u) :
            i = 1 \/ (i \in Nat /\ i - 1 \in SavesOf(u)')
      <3> TAKE i \in SavesOf(u)
      <3>1. i \in 1 .. Len(q) /\ q[i].op = "set" /\ q[i].id = u
        BY <1>3 DEF SavesOf
      <3>2. CASE i = 1
        BY <3>2
      <3>3. CASE i # 1
        <4>1. /\ i \in Nat /\ i - 1 \in 1 .. Len(queue'[d])
              /\ queue'[d][i - 1] = q[i]
          BY <2>2, <2>3, <3>1, <3>3
        <4> QED BY <1>3, <3>1, <4>1 DEF SavesOf
      <3> QED BY <3>2, <3>3
    <2> QED BY <1>3, <2>4, <2>5
  <1> QED BY <1>2, <1>3

-----------------------------------------------------------------------------
(* The invariant holds at first and is kept by every action.                *)

LEMMA InvInit == Init => IInv
  <1> SUFFICES ASSUME Init PROVE IInv
    OBVIOUS
  <1>1. TypeOK
    BY TypeInit
  <1>2. \A u \in Uploads : SavesOf(u) = {} /\ docs[u] = NoDoc /\ ~Active(u)
    BY UploaderAssumption DEF Init, SavesOf, Active
  <1>3. SavesByUploader /\ DeletionsKnown
    BY DEF Init, SavesByUploader, DeletionsKnown
  <1>4. URLsHaveFiles
    BY <1>2, NoDocIsNone, NoDocAssumption, GalleryAssumption
    DEF Init, URLsHaveFiles, FilesExist
  <1>5. DocumentsGrow /\ NothingBefore /\ OverlapsKnown /\ StoreComplete
    BY <1>2 DEF DocumentsGrow, NothingBefore, OverlapsKnown, StoreComplete
  <1>6. LastSaveComplete
    BY DEF Init, LastSaveComplete, Halves
  <1> QED BY <1>1, <1>3, <1>4, <1>5, <1>6 DEF IInv

\* Uploads may fail or end and files be added: what was saved stays, and only
\* devices none of whose uploads still runs may forget their URLs.
LEMMA FadingKeeps ==
    ASSUME IInv, TypeOK',
           \A u \in Uploads, h \in Halves :
                /\ phase'[u][h] = "none" => phase[u][h] = "none"
                /\ phase'[u][h] = "saved" <=> phase[u][h] = "saved",
           \A u \in Uploads : Active(u)' =>
                Active(u) /\ store'[Uploader[u]] = store[Uploader[u]],
           \A d \in Devices :
                store'[d] = store[d] \/ \A h \in Halves : store'[d][h] = NoURL,
           blobs \subseteq blobs', removing' \subseteq removing,
           UNCHANGED <<docs, queue, shared, deleted>>
    PROVE  IInv'
  <1>1. \A u \in Uploads :
            SavesOf(u)' = SavesOf(u) /\ \A i : Save(u, i)' = Save(u, i)
    BY SavesKept
  <1>2. SavesByUploader'
    BY DEF IInv, SavesByUploader
  <1>3. DeletionsKnown'
    BY DEF IInv, DeletionsKnown
  <1>4. URLsHaveFiles'
    BY <1>1, GalleryAssumption DEF IInv, URLsHaveFiles, FilesExist
  <1>5. DocumentsGrow'
    BY <1>1 DEF IInv, DocumentsGrow, HasURL, Keeps
  <1>6. NothingBefore'
    BY <1>1 DEF IInv, NothingBefore
  <1>7. OverlapsKnown'
    BY DEF IInv, OverlapsKnown
  <1>8. StoreComplete'
    BY DEF IInv, StoreComplete, Complete
  <1>9. LastSaveComplete'
    BY <1>1 DEF IInv, LastSaveComplete, Complete
  <1> QED BY <1>2, <1>3, <1>4, <1>5, <1>6, <1>7, <1>8, <1>9 DEF IInv

LEMMA UploadImageKeeps ==
    ASSUME IInv, TypeOK', NEW u \in Uploads, UploadImage(u)
    PROVE  IInv'
  <1>1. /\ \A v \in Uploads :
            SavesOf(v)' = SavesOf(v) /\ \A i : Save(v, i)' = Save(v, i)
        /\ UNCHANGED <<store, blobs, docs, queue, removing, deleted>>
        /\ shared \subseteq shared'
    BY SavesKept DEF UploadImage
  <1>2. /\ \A v \in Uploads \ {u} : phase'[v] = phase[v]
        /\ \A h \in Halves : phase'[u][h] = "putting"
    BY DEF UploadImage, IInv, TypeOK
  <1>3. \A v \in Uploads \ {u} : Active(v)' <=> Active(v)
    BY <1>2 DEF Active
  <1>4. SavesOf(u) = {} /\ docs[u] = NoDoc
    BY DEF UploadImage, IInv, NothingBefore
  <1>5. SavesByUploader'
    BY <1>1 DEF IInv, SavesByUploader
  <1>6. DeletionsKnown'
    BY <1>1 DEF IInv, DeletionsKnown
  <1>7. URLsHaveFiles'
    BY <1>1 DEF IInv, URLsHaveFiles, FilesExist
  <1>8. DocumentsGrow'
    BY <1>1, <1>3, <1>4 DEF IInv, DocumentsGrow, HasURL, Keeps
  <1>9. NothingBefore'
    BY <1>1, <1>2, <1>4 DEF IInv, NothingBefore
  <1>10. OverlapsKnown'
    <2> SUFFICES ASSUME NEW v \in Uploads, NEW w \in Uploads, v # w,
                        Uploader[v] = Uploader[w], Active(v)', Active(w)'
                 PROVE  v \in shared'
      BY DEF OverlapsKnown
    <2> DEFINE others ==
            {x \in Uploads \ {u} : Uploader[x] = Uploader[u] /\ Active(x)}
    <2>1. shared' = IF others = {} THEN shared ELSE shared \cup others \cup {u}
      BY DEF UploadImage
    <2>2. CASE v = u
      BY <1>3, <2>1, <2>2
    <2>3. CASE v # u /\ w = u
      BY <1>3, <2>1, <2>3
    <2>4. CASE v # u /\ w # u
      BY <1>1, <1>3, <2>4 DEF IInv, OverlapsKnown
    <2> QED BY <2>2, <2>3, <2>4
  <1>11. StoreComplete'
    BY <1>1, <1>2, <1>3 DEF IInv, StoreComplete, Complete
  <1>12. LastSaveComplete'
    BY <1>1, <1>2 DEF IInv, LastSaveComplete, Complete
  <1> QED BY <1>5, <1>6, <1>7, <1>8, <1>9, <1>10, <1>11, <1>12 DEF IInv

\* A file that a deletion removes belongs to a deleted upload.
LEMMA RemovalKeeps ==
    ASSUME IInv, TypeOK', NEW r \in removing, RemovalArrives(r)
    PROVE  IInv'
  <1>1. /\ \A u \in Uploads :
            SavesOf(u)' = SavesOf(u) /\ \A i : Save(u, i)' = Save(u, i)
        /\ UNCHANGED <<phase, store, docs, queue, shared, deleted>>
        /\ blobs' = blobs \ {r[2]} /\ removing' \subseteq removing
    BY SavesKept DEF RemovalArrives
  <1>2. r[2][1] \in deleted
    BY DEF IInv, DeletionsKnown
  <1>3. ASSUME NEW fields, FilesExist(fields) PROVE
            \A h \in Halves : fields[h] \in Uploads \ deleted =>
                <<fields[h], h>> \in blobs'
    BY <1>1, <1>2, <1>3 DEF FilesExist
  <1>4. SavesByUploader'
    BY <1>1 DEF IInv, SavesByUploader
  <1>5. DeletionsKnown'
    BY <1>1 DEF IInv, DeletionsKnown
  <1>6. URLsHaveFiles'
    <2>1. /\ \A d \in Devices : FilesExist(store[d])
          /\ \A u \in Uploads : FilesExist(docs[u])
          /\ \A u \in Uploads : \A i \in SavesOf(u) : FilesExist(Save(u, i))
      BY DEF IInv, URLsHaveFiles
    <2>2. \A d \in Devices : FilesExist(store[d])'
      BY <1>1, <1>3, <2>1 DEF FilesExist
    <2>3. \A u \in Uploads : FilesExist(docs[u])'
      BY <1>1, <1>3, <2>1 DEF FilesExist
    <2>4. \A u \in Uploads : \A i \in SavesOf(u)' : FilesExist(Save(u, i))'
      BY <1>1, <1>3, <2>1 DEF FilesExist
    <2> QED BY <2>2, <2>3, <2>4 DEF URLsHaveFiles
  <1>7. \A u \in Uploads : Active(u)' <=> Active(u)
    BY <1>1 DEF Active
  <1>8. DocumentsGrow'
    BY <1>1, <1>7 DEF IInv, DocumentsGrow, HasURL, Keeps
  <1>9. NothingBefore' /\ OverlapsKnown'
    BY <1>1, <1>7 DEF IInv, NothingBefore, OverlapsKnown
  <1>10. StoreComplete' /\ LastSaveComplete'
    BY <1>1, <1>7 DEF IInv, StoreComplete, LastSaveComplete, Complete
  <1> QED BY <1>4, <1>5, <1>6, <1>8, <1>9, <1>10 DEF IInv

LEMMA DeleteRowKeeps ==
    ASSUME IInv, TypeOK', NEW d \in Devices, NEW u \in Uploads, DeleteRow(d, u)
    PROVE  IInv'
  <1> DEFINE w == [op |-> "delete", id |-> u]
  <1>1. /\ queue' = [queue EXCEPT ![d] = Append(@, w)]
        /\ removing' = removing \cup {<<d, <<u, h>>>> : h \in Halves}
        /\ deleted' = deleted \cup {u}
        /\ UNCHANGED <<phase, store, blobs, docs, shared>>
    BY DEF DeleteRow
  <1>2. \A v \in Uploads :
            /\ SavesOf(v)' = SavesOf(v)
            /\ \A i \in SavesOf(v) : Save(v, i)' = Save(v, i)
    BY <1>1, SavesBeforeDelete DEF IInv
  <1>3. \A e \in Devices : \A i \in 1 .. Len(queue'[e]) :
            \/ i \in 1 .. Len(queue[e]) /\ queue'[e][i] = queue[e][i]
            \/ queue'[e][i].op = "delete" /\ queue'[e][i].id = u
    <2> TAKE e \in Devices
    <2>1. queue[e] \in Seq(Write) /\ w \in Write
      BY DEF IInv, TypeOK, Write, Deletes
    <2>2. CASE e # d
      BY <1>1, <2>2 DEF IInv, TypeOK
    <2>3. CASE e = d
      <3>1. queue'[e] = Append(queue[e], w) /\ w.op = "delete" /\ w.id = u
        BY <1>1, <2>3 DEF IInv, TypeOK
      <3> HIDE DEF w
      <3> QED BY <2>1, <3>1, Appended
    <2> QED BY <2>2, <2>3
  <1>4. SavesByUploader'
    BY <1>3 DEF IInv, SavesByUploader
  <1>5. DeletionsKnown'
    <2>1. \A r \in removing' : r[2][1] \in deleted'
      BY <1>1 DEF IInv, DeletionsKnown
    <2>2. \A e \in Devices : \A i \in 1 .. Len(queue'[e]) :
            queue'[e][i].op = "delete" => queue'[e][i].id \in deleted'
      BY <1>1, <1>3 DEF IInv, DeletionsKnown
    <2> QED BY <2>1, <2>2 DEF DeletionsKnown
  <1>6. URLsHaveFiles'
    BY <1>1, <1>2 DEF IInv, URLsHaveFiles, FilesExist
  <1>7. \A v \in Uploads : Active(v)' <=> Active(v)
    BY <1>1 DEF Active
  <1>8. DocumentsGrow'
    BY <1>1, <1>2, <1>7 DEF IInv, DocumentsGrow, HasURL, Keeps
  <1>9. NothingBefore' /\ OverlapsKnown'
    BY <1>1, <1>2, <1>7 DEF IInv, NothingBefore, OverlapsKnown
  <1>10. StoreComplete' /\ LastSaveComplete'
    BY <1>1, <1>2, <1>7 DEF IInv, StoreComplete, LastSaveComplete, Complete
  <1> QED BY <1>4, <1>5, <1>6, <1>8, <1>9, <1>10 DEF IInv

\* The first write of a queue, if it is a save, is the first of its upload's.
LEMMA CommitEffect ==
    ASSUME IInv, NEW d \in Devices, Commit(d), NEW u \in Uploads
    PROVE  \/ docs'[u] = docs[u] /\ (Uploader[u] = d => 1 \notin SavesOf(u))
           \/ /\ Uploader[u] = d /\ 1 \in SavesOf(u)
              /\ docs'[u] = Save(u, 1) /\ docs'[u] # NoDoc
           \/ u \in deleted /\ docs'[u] = NoDoc /\ 1 \notin SavesOf(u)
           \/ u \in deleted /\ docs'[u] = NoDoc /\ Uploader[u] # d
  <1> DEFINE q == queue[d]
             w == Head(q)
  <1>1. /\ q \in Seq(Write) /\ q # <<>>
        /\ docs' = [docs EXCEPT ![w.id] =
                        IF w.op = "set" THEN w.fields ELSE NoDoc]
    BY DEF Commit, IInv, TypeOK, Write
  <1>2. w = q[1] /\ w \in Write /\ 1 \in 1 .. Len(q)
    BY <1>1, Taken
  <1>3. /\ w.id \in Uploads /\ w.op \in {"set", "delete"}
        /\ w.op = "set" => w.fields # NoDoc
    BY <1>2, WriteFields, NoDocIsNone
  <1>4. /\ w.op = "set" => Uploader[w.id] = d
        /\ w.op = "delete" => w.id \in deleted
    BY <1>2 DEF IInv, SavesByUploader, DeletionsKnown
  <1>5. docs'[u] = IF u = w.id THEN IF w.op = "set" THEN w.fields ELSE NoDoc
                   ELSE docs[u]
    BY <1>1, <1>3 DEF IInv, TypeOK
  <1>6. Uploader[u] = d =>
            /\ 1 \in SavesOf(u) <=> w.op = "set" /\ w.id = u
            /\ Save(u, 1) = w.fields
    BY <1>2 DEF SavesOf, Save
  <1> HIDE DEF w
  <1> QED BY <1>3, <1>4, <1>5, <1>6

LEMMA CommitKeeps ==
    ASSUME IInv, TypeOK', NEW d \in Devices, Commit(d)
    PROVE  IInv'
  <1>1. UNCHANGED <<phase, store, blobs, removing, shared, deleted>>
    BY DEF Commit
  <1>2. \A u \in Uploads : Active(u)' <=> Active(u)
    BY <1>1 DEF Active
  <1>3. \A e \in Devices : \A i \in 1 .. Len(queue'[e]) :
            \E j \in 1 .. Len(queue[e]) : queue'[e][i] = queue[e][j]
    <2> TAKE e \in Devices
    <2>1. queue[d] \in Seq(Write) /\ queue[d] # <<>>
          /\ queue' = [queue EXCEPT ![d] = Tail(@)]
      BY DEF Commit, IInv, TypeOK, Write
    <2>2. CASE e # d
      BY <2>1, <2>2 DEF IInv, TypeOK
    <2>3. CASE e = d
      <3>1. queue'[d] = Tail(queue[d])
        BY <2>1 DEF IInv, TypeOK
      <3>2. /\ Len(queue[d]) \in Nat \ {0} /\ Len(queue'[d]) = Len(queue[d]) - 1
            /\ \A i \in 1 .. Len(queue[d]) - 1 : queue'[d][i] = queue[d][i + 1]
        BY <2>1, <3>1, Taken
      <3>3. \A i \in 1 .. Len(queue'[d]) :
                i \in 1 .. Len(queue[d]) - 1 /\ i + 1 \in 1 .. Len(queue[d])
        BY <3>2
      <3> QED BY <2>3, <3>2, <3>3
    <2> QED BY <2>2, <2>3
  <1>4. SavesByUploader'
    <2> SUFFICES ASSUME NEW e \in Devices, NEW i \in 1 .. Len(queue'[e]),
                        queue'[e][i].op = "set"
                 PROVE  Uploader[queue'[e][i].id] = e
      BY DEF SavesByUploader
    <2> PICK j \in 1 .. Len(queue[e]) : queue'[e][i] = queue[e][j]
      BY <1>3
    <2> QED BY DEF IInv, SavesByUploader
  <1>5. DeletionsKnown'
    <2>1. \A r \in removing' : r[2][1] \in deleted'
      BY <1>1 DEF IInv, DeletionsKnown
    <2> SUFFICES ASSUME NEW e \in Devices, NEW i \in 1 .. Len(queue'[e]),
                        queue'[e][i].op = "delete"
                 PROVE  queue'[e][i].id \in deleted'
      BY <2>1 DEF DeletionsKnown
    <2> PICK j \in 1 .. Len(queue[e]) : queue'[e][i] = queue[e][j]
      BY <1>3
    <2> QED BY <1>1 DEF IInv, DeletionsKnown
  <1>6. \A u \in Uploads : \A i \in SavesOf(u)' :
            \E j \in SavesOf(u) : Save(u, i)' = Save(u, j)
    BY SavesAfterCommit DEF IInv
  <1>7. URLsHaveFiles'
    <2>1. \A u \in Uploads : FilesExist(docs[u])'
      <3> TAKE u \in Uploads
      <3>1. CASE docs'[u] = docs[u]
        BY <1>1, <3>1 DEF IInv, URLsHaveFiles, FilesExist
      <3>2. CASE 1 \in SavesOf(u) /\ docs'[u] = Save(u, 1)
        BY <1>1, <3>2 DEF IInv, URLsHaveFiles, FilesExist
      <3>3. CASE docs'[u] = NoDoc
        BY <3>3, NoDocIsNone, NoDocAssumption DEF FilesExist
      <3> QED BY <3>1, <3>2, <3>3, CommitEffect
    <2>2. \A u \in Uploads : \A i \in SavesOf(u)' : FilesExist(Save(u, i))'
      BY <1>1, <1>6 DEF IInv, URLsHaveFiles, FilesExist
    <2>3. \A e \in Devices : FilesExist(store[e])'
      BY <1>1 DEF IInv, URLsHaveFiles, FilesExist
    <2> QED BY <2>1, <2>2, <2>3 DEF URLsHaveFiles
  <1>8. DocumentsGrow'
    <2> SUFFICES ASSUME NEW u \in Uploads
        PROVE  /\ docs'[u] # NoDoc =>
                    /\ HasURL(docs[u])'
                    /\ \A i \in SavesOf(u)' : Keeps(docs[u], Save(u, i))'
                    /\ Active(u)' => Keeps(docs[u], store[Uploader[u]])'
               /\ \A i \in SavesOf(u)' :
                    /\ HasURL(Save(u, i))'
                    /\ \A j \in SavesOf(u)' :
                        i < j => Keeps(Save(u, i), Save(u, j))'
                    /\ Active(u)' => Keeps(Save(u, i), store[Uploader[u]])'
      BY DEF DocumentsGrow
    <2>1. /\ docs[u] # NoDoc =>
                /\ HasURL(docs[u])
                /\ \A i \in SavesOf(u) : Keeps(docs[u], Save(u, i))
                /\ Active(u) => Keeps(docs[u], store[Uploader[u]])
          /\ \A i \in SavesOf(u) :
                /\ HasURL(Save(u, i))
                /\ \A j \in SavesOf(u) : i < j => Keeps(Save(u, i), Save(u, j))
                /\ Active(u) => Keeps(Save(u, i), store[Uploader[u]])
      BY DEF IInv, DocumentsGrow
    <2>2. \A i \in SavesOf(u)' :
            /\ HasURL(Save(u, i))'
            /\ Active(u)' => Keeps(Save(u, i), store[Uploader[u]])'
      BY <1>1, <1>2, <1>6, <2>1 DEF HasURL, Keeps
    <2>3. \A i \in SavesOf(u)', j \in SavesOf(u)' :
            i < j => Keeps(Save(u, i), Save(u, j))'
      <3>1. CASE Uploader[u] = d
        <4>1. \A i \in SavesOf(u)' : i \in Nat /\ i + 1 \in SavesOf(u)
                                     /\ Save(u, i)' = Save(u, i + 1)
          BY <3>1, SavesAfterCommit DEF IInv
        <4>2. \A i \in Nat, j \in Nat : i < j => i + 1 < j + 1
          OBVIOUS
        <4> QED BY <2>1, <4>1, <4>2 DEF Keeps
      <3>2. CASE Uploader[u] # d
        BY <2>1, <3>2, SavesAfterCommit DEF IInv, Keeps
      <3> QED BY <3>1, <3>2
    <2>4. ASSUME docs'[u] # NoDoc
          PROVE  /\ HasURL(docs[u])'
                 /\ \A i \in SavesOf(u)' : Keeps(docs[u], Save(u, i))'
                 /\ Active(u)' => Keeps(docs[u], store[Uploader[u]])'
      <3>1. CASE docs'[u] = docs[u]
        BY <1>1, <1>2, <1>6, <2>1, <2>4, <3>1 DEF HasURL, Keeps
      <3>2. CASE Uploader[u] = d /\ 1 \in SavesOf(u) /\ docs'[u] = Save(u, 1)
        <4>1. /\ HasURL(Save(u, 1))
              /\ \A j \in SavesOf(u) : 1 < j => Keeps(Save(u, 1), Save(u, j))
              /\ Active(u) => Keeps(Save(u, 1), store[Uploader[u]])
          BY <2>1, <3>2
        <4>2. \A i \in SavesOf(u)' :
                i + 1 \in SavesOf(u) /\ 1 < i + 1 /\ Save(u, i)' = Save(u, i + 1)
          <5>1. \A i \in SavesOf(u)' : i \in Nat /\ i + 1 \in SavesOf(u)
                                       /\ Save(u, i)' = Save(u, i + 1)
            BY <3>2, SavesAfterCommit DEF IInv
          <5>2. \A i \in SavesOf(u)' : i # 0
            BY <5>1 DEF SavesOf
          <5> QED BY <5>1, <5>2
        <4>3. HasURL(docs[u])'
          BY <3>2, <4>1 DEF HasURL
        <4>4. \A i \in SavesOf(u)' : Keeps(docs[u], Save(u, i))'
          BY <3>2, <4>1, <4>2 DEF Keeps
        <4>5. Active(u)' => Keeps(docs[u], store[Uploader[u]])'
          BY <1>1, <1>2, <3>2, <4>1 DEF Keeps
        <4> QED BY <4>3, <4>4, <4>5
      <3> QED BY <2>4, <3>1, <3>2, CommitEffect
    <2> QED BY <2>2, <2>3, <2>4
  <1>9. NothingBefore'
    <2> SUFFICES ASSUME NEW u \in Uploads, \A h \in Halves : phase'[u][h] = "none"
                 PROVE  SavesOf(u)' = {} /\ docs'[u] = NoDoc
      BY DEF NothingBefore
    <2>1. SavesOf(u) = {} /\ docs[u] = NoDoc
      BY <1>1 DEF IInv, NothingBefore
    <2> QED BY <1>6, <2>1, CommitEffect
  <1>10. OverlapsKnown' /\ StoreComplete'
    BY <1>1, <1>2 DEF IInv, OverlapsKnown, StoreComplete, Complete
  <1>11. LastSaveComplete'
    <2> SUFFICES ASSUME NEW u \in Uploads \ deleted,
                        \E h \in Halves : phase[u][h] = "saved"
        PROVE  \/ SavesOf(u)' = {} /\ docs'[u] # NoDoc /\ Complete(u, docs[u])'
               \/ \E i \in SavesOf(u)' :
                    (\A j \in SavesOf(u)' : j <= i) /\ Complete(u, Save(u, i))'
      BY <1>1 DEF LastSaveComplete
    <2>1. \/ SavesOf(u) = {} /\ docs[u] # NoDoc /\ Complete(u, docs[u])
          \/ \E i \in SavesOf(u) :
                (\A j \in SavesOf(u) : j <= i) /\ Complete(u, Save(u, i))
      BY DEF IInv, LastSaveComplete
    <2>2. \/ docs'[u] = docs[u] /\ (Uploader[u] = d => 1 \notin SavesOf(u))
          \/ /\ Uploader[u] = d /\ 1 \in SavesOf(u)
             /\ docs'[u] = Save(u, 1) /\ docs'[u] # NoDoc
      BY CommitEffect
    <2>3. CASE SavesOf(u) = {}
      BY <1>1, <1>6, <2>1, <2>2, <2>3 DEF Complete
    <2>4. CASE Uploader[u] # d /\ SavesOf(u) # {}
      BY <1>1, <2>1, <2>4, SavesAfterCommit DEF IInv, Complete
    <2>5. CASE Uploader[u] = d /\ SavesOf(u) # {}
      <3>1. PICK i \in SavesOf(u) :
                (\A j \in SavesOf(u) : j <= i) /\ Complete(u, Save(u, i))
        BY <2>1, <2>5
      <3>2. i \in Nat
        BY SaveType DEF IInv
      <3>3. /\ \A j \in SavesOf(u)' : j \in Nat /\ j + 1 \in SavesOf(u)
                                      /\ Save(u, j)' = Save(u, j + 1)
            /\ i = 1 \/ i - 1 \in SavesOf(u)'
        BY <2>5, SavesAfterCommit DEF IInv
      <3>4. CASE i = 1
        <4>1. SavesOf(u)' = {}
          <5>1. \A j \in SavesOf(u)' : j # 0
            BY DEF SavesOf
          <5>2. \A j \in SavesOf(u)' : j \in Nat /\ j + 1 <= 1
            BY <3>1, <3>3, <3>4
          <5> QED BY <5>1, <5>2
        <4>2. docs'[u] = Save(u, 1) /\ docs'[u] # NoDoc
          BY <2>2, <2>5, <3>1, <3>4
        <4> QED BY <1>1, <3>1, <3>4, <4>1, <4>2 DEF Complete
      <3>5. CASE i # 1
        <4>1. PICK k \in SavesOf(u)' : k = i - 1
          BY <3>3, <3>5
        <4>2. Save(u, k)' = Save(u, i)
          BY <3>2, <3>3, <4>1
        <4>3. \A j \in SavesOf(u)' : j <= k
          BY <3>1, <3>2, <3>3, <4>1
        <4> QED BY <1>1, <3>1, <4>2, <4>3 DEF Complete
      <3> QED BY <3>4, <3>5
    <2> QED BY <2>3, <2>4, <2>5
  <1> QED BY <1>4, <1>5, <1>7, <1>8, <1>9, <1>10, <1>11 DEF IInv

LEMMA URLArrivesKeeps ==
    ASSUME IInv, TypeOK', NEW u \in Uploads, NEW h \in Halves, URLArrives(u, h)
    PROVE  IInv'
  <1> DEFINE d == Uploader[u]
             urls == [store[d] EXCEPT ![h] = u]
  <1>1. /\ phase[u][h] = "stored" /\ <<u, h>> \in blobs
        /\ store' = [store EXCEPT ![d] = urls]
        /\ SaveImageData(d, u, urls)
        /\ phase' = [phase EXCEPT ![u][h] = "saved"]
        /\ UNCHANGED <<blobs, docs, removing, shared, deleted>>
    BY DEF URLArrives
  <1>2. /\ d \in Devices /\ store[d] \in URLs /\ urls \in URLs
        /\ urls[h] = u /\ u # NoURL
        /\ \A g \in Halves \ {h} : urls[g] = store[d][g]
    BY UploaderAssumption, GalleryAssumption DEF IInv, TypeOK, URLs
  <1>3. /\ store'[d] = urls
        /\ \A e \in Devices \ {d} : store'[e] = store[e]
    BY <1>1, <1>2 DEF IInv, TypeOK
  <1>4. /\ phase'[u][h] = "saved"
        /\ \A g \in Halves \ {h} : phase'[u][g] = phase[u][g]
        /\ \A v \in Uploads \ {u} : phase'[v] = phase[v]
    BY <1>1 DEF IInv, TypeOK
  <1>5. Active(u) /\ \A v \in Uploads : Active(v)' => Active(v)
    BY <1>1, <1>4 DEF Active
  <1> HIDE DEF urls
  <1>6. /\ \A v \in Uploads \ {u} : SavesOf(v)' = SavesOf(v)
        /\ \A v \in Uploads : \A i \in SavesOf(v) : Save(v, i)' = Save(v, i)
    BY <1>1, <1>2, SavesBeforeSave DEF IInv
  <1>7. PICK n \in Nat : /\ SavesOf(u)' = SavesOf(u) \cup {n}
                         /\ \A i \in SavesOf(u) : i \in Nat /\ i < n
                         /\ Save(u, n)' = urls
    BY <1>1, <1>2, SavesBeforeSave DEF IInv
  <1>8. \A e \in Devices : \A i \in 1 .. Len(queue'[e]) :
            \/ i \in 1 .. Len(queue[e]) /\ queue'[e][i] = queue[e][i]
            \/ e = d /\ queue'[e][i].op = "set" /\ queue'[e][i].id = u
    <2> DEFINE w == [op |-> "set", id |-> u, fields |-> urls]
    <2> TAKE e \in Devices
    <2>1. queue[e] \in Seq(Write) /\ w \in Write /\ w.op = "set" /\ w.id = u
      BY <1>2 DEF IInv, TypeOK, Write, Sets
    <2>2. queue' = [queue EXCEPT ![d] = Append(@, w)]
      BY <1>1 DEF SaveImageData
    <2> HIDE DEF w
    <2>3. CASE e # d
      BY <2>2, <2>3 DEF IInv, TypeOK
    <2>4. CASE e = d
      <3>1. queue'[e] = Append(queue[e], w)
        BY <2>2, <2>4 DEF IInv, TypeOK
      <3> QED BY <2>1, <2>4, <3>1, Appended
    <2> QED BY <2>3, <2>4
  <1>9. SavesByUploader'
    BY <1>8 DEF IInv, SavesByUploader
  <1>10. DeletionsKnown'
    BY <1>1, <1>8 DEF IInv, DeletionsKnown
  <1>11. URLsHaveFiles'
    <2>1. \A g \in Halves : urls[g] \in Uploads \ deleted =>
            <<urls[g], g>> \in blobs
      BY <1>1, <1>2 DEF IInv, URLsHaveFiles, FilesExist
    <2>2. \A e \in Devices : FilesExist(store[e])'
      BY <1>1, <1>3, <2>1 DEF IInv, URLsHaveFiles, FilesExist
    <2>3. \A v \in Uploads : FilesExist(docs[v])'
      BY <1>1 DEF IInv, URLsHaveFiles, FilesExist
    <2>4. \A v \in Uploads : \A i \in SavesOf(v)' : FilesExist(Save(v, i))'
      BY <1>1, <1>6, <1>7, <2>1 DEF IInv, URLsHaveFiles, FilesExist
    <2> QED BY <2>2, <2>3, <2>4 DEF URLsHaveFiles
  <1>12. DocumentsGrow'
    <2>1. \A f : Keeps(f, store[d]) => \A g \in Halves : f[g] # NoURL => urls[g] # NoURL
      BY <1>2 DEF Keeps
    <2>2. ASSUME NEW v \in Uploads, NEW f, Active(v)',
                 Keeps(f, store[Uploader[v]])
          PROVE  \A g \in Halves : f[g] # NoURL => store'[Uploader[v]][g] # NoURL
      BY <1>3, <2>1, <2>2, UploaderAssumption DEF Keeps
    <2>3. ASSUME NEW v \in Uploads
          PROVE  /\ docs[v] # NoDoc =>
                        /\ HasURL(docs[v])
                        /\ \A i \in SavesOf(v) : Keeps(docs[v], Save(v, i))
                        /\ Active(v) => Keeps(docs[v], store[Uploader[v]])
                 /\ \A i \in SavesOf(v) :
                        /\ HasURL(Save(v, i))
                        /\ \A j \in SavesOf(v) :
                            i < j => Keeps(Save(v, i), Save(v, j))
                        /\ Active(v) => Keeps(Save(v, i), store[Uploader[v]])
      BY DEF IInv, DocumentsGrow
    <2>4. ASSUME NEW v \in Uploads, docs'[v] # NoDoc
          PROVE  /\ HasURL(docs[v])'
                 /\ \A i \in SavesOf(v)' : Keeps(docs[v], Save(v, i))'
                 /\ Active(v)' => Keeps(docs[v], store[Uploader[v]])'
      <3>1. docs'[v] = docs[v] /\ HasURL(docs[v])'
        BY <1>1, <2>3, <2>4 DEF HasURL
      <3>2. \A i \in SavesOf(v) : Keeps(docs[v], Save(v, i))'
        BY <1>6, <2>3, <2>4, <3>1 DEF Keeps
      <3>3. v = u => Keeps(docs[v], Save(v, n))'
        BY <1>5, <1>7, <2>1, <2>3, <2>4, <3>1 DEF Keeps
      <3>4. Active(v)' => Keeps(docs[v], store[Uploader[v]])'
        BY <1>5, <2>2, <2>3, <2>4, <3>1 DEF Keeps
      <3> QED BY <1>6, <1>7, <3>1, <3>2, <3>3, <3>4
    <2>5. ASSUME NEW v \in Uploads, NEW i \in SavesOf(v)
          PROVE  /\ HasURL(Save(v, i))'
                 /\ \A j \in SavesOf(v)' : i < j => Keeps(Save(v, i), Save(v, j))'
                 /\ Active(v)' => Keeps(Save(v, i), store[Uploader[v]])'
      <3>1. HasURL(Save(v, i))'
        BY <1>6, <2>3 DEF HasURL
      <3>2. \A j \in SavesOf(v) : i < j => Keeps(Save(v, i), Save(v, j))'
        BY <1>6, <2>3 DEF Keeps
      <3>3. v = u => Keeps(Save(v, i), Save(v, n))'
        BY <1>5, <1>6, <1>7, <2>1, <2>3 DEF Keeps
      <3>4. Active(v)' => Keeps(Save(v, i), store[Uploader[v]])'
        BY <1>5, <1>6, <2>2, <2>3 DEF Keeps
      <3> QED BY <1>6, <1>7, <3>1, <3>2, <3>3, <3>4
    <2>6. /\ HasURL(Save(u, n))'
          /\ \A j \in SavesOf(u)' : ~(n < j)
          /\ Keeps(Save(u, n), store[Uploader[u]])'
      BY <1>2, <1>3, <1>7 DEF HasURL, Keeps
    <2> QED BY <1>6, <1>7, <2>4, <2>5, <2>6 DEF DocumentsGrow
  <1>13. NothingBefore'
    BY <1>1, <1>4, <1>6 DEF IInv, NothingBefore
  <1>14. OverlapsKnown'
    BY <1>1, <1>5 DEF IInv, OverlapsKnown
  <1>15. \A g \in Halves : phase'[u][g] = "saved" =>
            urls[g] # NoURL /\ (u \notin shared => urls[g] = u)
    BY <1>2, <1>4, <1>5 DEF IInv, StoreComplete, Complete
  <1>16. StoreComplete'
    <2> SUFFICES ASSUME NEW v \in Uploads, Active(v)'
                 PROVE  Complete(v, store[Uploader[v]])'
      BY DEF StoreComplete
    <2>1. Active(v) /\ Complete(v, store[Uploader[v]])
      BY <1>5 DEF IInv, StoreComplete
    <2>2. CASE v = u
      BY <1>1, <1>3, <1>15, <2>2 DEF Complete
    <2>3. CASE v # u /\ Uploader[v] = d
      <3>1. v \in shared
        BY <1>5, <2>1, <2>3 DEF IInv, OverlapsKnown
      <3> QED BY <1>1, <1>2, <1>3, <1>4, <2>1, <2>3, <3>1 DEF Complete
    <2>4. CASE v # u /\ Uploader[v] # d
      BY <1>1, <1>3, <1>4, <2>1, <2>4, UploaderAssumption DEF Complete
    <2> QED BY <2>2, <2>3, <2>4
  <1>17. LastSaveComplete'
    <2> SUFFICES ASSUME NEW v \in Uploads \ deleted,
                        \E g \in Halves : phase'[v][g] = "saved"
        PROVE  \/ SavesOf(v)' = {} /\ docs'[v] # NoDoc /\ Complete(v, docs[v])'
               \/ \E i \in SavesOf(v)' :
                    (\A j \in SavesOf(v)' : j <= i) /\ Complete(v, Save(v, i))'
      BY <1>1 DEF LastSaveComplete
    <2>1. CASE v # u
      BY <1>1, <1>4, <1>6, <2>1 DEF IInv, LastSaveComplete, Complete
    <2>2. CASE v = u
      <3>1. n \in SavesOf(u)' /\ \A j \in SavesOf(u)' : j <= n
        BY <1>7
      <3>2. Complete(u, Save(u, n))'
        BY <1>1, <1>7, <1>15 DEF Complete
      <3> QED BY <2>2, <3>1, <3>2
    <2> QED BY <2>1, <2>2
  <1> QED BY <1>9, <1>10, <1>11, <1>12, <1>13, <1>14, <1>16, <1>17 DEF IInv

LEMMA InvNext == IInv /\ [Next]_vars => IInv'
  <1> SUFFICES ASSUME IInv, [Next]_vars PROVE IInv'
    OBVIOUS
  <1>1. TypeOK /\ TypeOK'
    BY TypeNext DEF IInv
  <1>2. ASSUME UNCHANGED <<phase, store, docs, queue, shared, deleted>>,
               blobs \subseteq blobs', removing' \subseteq removing
        PROVE  IInv'
    BY <1>1, <1>2, FadingKeeps DEF Active
  <1>3. ASSUME NEW u \in Uploads, NEW h \in Halves, NEW p \in {"stored", "failed"},
               phase[u][h] \in {"putting", "stored"},
               phase' = [phase EXCEPT ![u][h] = p], blobs \subseteq blobs',
               UNCHANGED <<store, docs, queue, removing, shared, deleted>>
        PROVE  IInv'
    <2>1. /\ phase'[u][h] = p
          /\ \A g \in Halves \ {h} : phase'[u][g] = phase[u][g]
          /\ \A v \in Uploads \ {u} : phase'[v] = phase[v]
      BY <1>1, <1>3 DEF TypeOK
    <2>2. \A v \in Uploads, g \in Halves :
            /\ phase'[v][g] = "none" => phase[v][g] = "none"
            /\ phase'[v][g] = "saved" <=> phase[v][g] = "saved"
      BY <1>3, <2>1
    <2>3. \A v \in Uploads : Active(v)' => Active(v)
      BY <1>3, <2>1 DEF Active
    <2> QED BY <1>1, <1>3, <2>2, <2>3, FadingKeeps
  <1>4. ASSUME NEW d \in Devices, Restart(d) PROVE IInv'
    <2>1. \A u \in Uploads :
            phase'[u] = IF Uploader[u] # d THEN phase[u]
                        ELSE [h \in Halves |->
                                IF phase[u][h] \in {"putting", "stored"}
                                THEN "failed" ELSE phase[u][h]]
      BY <1>4 DEF Restart
    <2>2. \A u \in Uploads, h \in Halves :
            /\ phase'[u][h] = "none" => phase[u][h] = "none"
            /\ phase'[u][h] = "saved" <=> phase[u][h] = "saved"
      BY <2>1
    <2>3. \A u \in Uploads : Active(u)' => Active(u) /\ Uploader[u] # d
      BY <2>1 DEF Active
    <2>4. /\ \A e \in Devices \ {d} : store'[e] = store[e]
          /\ \A h \in Halves : store'[d][h] = NoURL
          /\ removing' \subseteq removing
          /\ UNCHANGED <<blobs, docs, queue, shared, deleted>>
      BY <1>1, <1>4 DEF Restart, TypeOK
    <2> QED BY <1>1, <2>2, <2>3, <2>4, UploaderAssumption, FadingKeeps
  <1>5. ASSUME NEW u \in Uploads, UploadImage(u) PROVE IInv'
    BY <1>1, <1>5, UploadImageKeeps
  <1>6. ASSUME NEW u \in Uploads, NEW h \in Halves, PutCompletes(u, h)
        PROVE  IInv'
    BY <1>3, <1>6 DEF PutCompletes
  <1>7. ASSUME NEW u \in Uploads, NEW h \in Halves, URLArrives(u, h) PROVE IInv'
    BY <1>1, <1>7, URLArrivesKeeps
  <1>8. ASSUME NEW u \in Uploads, NEW h \in Halves, HalfFails(u, h) PROVE IInv'
    BY <1>3, <1>8 DEF HalfFails
  <1>9. ASSUME NEW d \in Devices, Commit(d) PROVE IInv'
    BY <1>1, <1>9, CommitKeeps
  <1>10. ASSUME NEW d \in Devices, LoadImages(d) \/ AdminLoadImages(d) PROVE IInv'
    BY <1>2, <1>10 DEF LoadImages, AdminLoadImages, List
  <1>11. ASSUME NEW d \in Devices, NEW u \in Uploads, DeleteRow(d, u) PROVE IInv'
    BY <1>1, <1>11, DeleteRowKeeps
  <1>12. ASSUME NEW r \in removing, RemovalArrives(r) PROVE IInv'
    BY <1>1, <1>12, RemovalKeeps
  <1>13. ASSUME NEW r \in removing, RemovalFails(r) PROVE IInv'
    BY <1>2, <1>13 DEF RemovalFails
  <1>14. CASE UNCHANGED vars
    BY <1>2, <1>14 DEF vars
  <1> QED BY <1>4, <1>5, <1>6, <1>7, <1>8, <1>9, <1>10, <1>11, <1>12, <1>13,
             <1>14 DEF Next

LEMMA Invariant == Spec => []IInv
  BY InvInit, InvNext, PTL DEF Spec

-----------------------------------------------------------------------------
(* What follows from it.                                                    *)

\* No document leads to a missing file, unless the file's upload was deleted,
\* whatever other uploads, deletions and restarts the screens were busy with.
THEOREM URLsLeadToFiles == Spec => []NoDanglingURL
  <1>1. IInv => NoDanglingURL
    BY DEF IInv, URLsHaveFiles, FilesExist, NoDanglingURL
  <1> QED BY <1>1, Invariant, PTL

\* An upload whose halves are both saved is listed with both URLs, and with
\* its own ones if it was alone on its screen.
THEOREM CompleteUploadsAreListed == Spec => []CompleteUploadListed
  <1>1. ASSUME IInv PROVE CompleteUploadListed
    <2> SUFFICES ASSUME NEW u \in Uploads, Saved(u), u \notin deleted,
                        NoneQueued(u, {"set"})
        PROVE  /\ docs[u] # NoDoc
               /\ \A h \in Halves : docs[u][h] # NoURL
               /\ u \notin shared => \A h \in Halves : docs[u][h] = u
      BY DEF CompleteUploadListed
    <2>1. SavesOf(u) = {}
      BY UploaderAssumption DEF NoneQueued, SavesOf
    <2>2. \E h \in Halves : phase[u][h] = "saved"
      BY DEF Saved, Halves
    <2>3. docs[u] # NoDoc /\ Complete(u, docs[u])
      BY <1>1, <2>1, <2>2 DEF IInv, LastSaveComplete
    <2> QED BY <2>3 DEF Saved, Complete
  <1> QED BY <1>1, Invariant, PTL

Entry(u) == IF docs[u] = NoDoc THEN {} ELSE {h \in Halves : docs[u][h] # NoURL}

\* A committed save has the URLs of the document.
LEMMA CommitSaves ==
    ASSUME IInv, NEW d \in Devices, Commit(d), NEW u \in Uploads,
           docs'[u] # docs[u], Entry(u)' # {}
    PROVE  Entry(u) \subseteq Entry(u)'
  <1>1. docs'[u] # NoDoc
    BY DEF Entry
  <1>2. 1 \in SavesOf(u) /\ docs'[u] = Save(u, 1)
    BY <1>1, CommitEffect
  <1>3. docs[u] # NoDoc => Keeps(docs[u], Save(u, 1))
    BY <1>2 DEF IInv, DocumentsGrow
  <1> QED BY <1>1, <1>2, <1>3 DEF Entry, Keeps

\* The documents implement the abstract library: one that lists a photo never
\* loses one URL and keeps the other.
THEOREM ImplementsLibrary == Spec => LibrarySpec
  <1> DEFINE entry == [u \in Uploads |-> Entry(u)]
  <1>1. Init => entry = [u \in Uploads |-> {}]
    BY DEF Init, Entry
  <1>2. ASSUME IInv, [Next]_vars
        PROVE  \/ UNCHANGED entry
               \/ \E u \in Uploads :
                    \/ entry' = [entry EXCEPT ![u] = {}]
                    \/ \E halves \in SUBSET Halves :
                        /\ halves # {} /\ entry[u] \subseteq halves
                        /\ entry' = [entry EXCEPT ![u] = halves]
    <2>1. CASE UNCHANGED docs
      BY <2>1 DEF Entry
    <2>2. CASE \E d \in Devices : Commit(d)
      <3> PICK d \in Devices : Commit(d)
        BY <2>2
      <3>1. /\ queue[d] # <<>> /\ queue[d] \in Seq(Write)
            /\ docs' = [docs EXCEPT ![Head(queue[d]).id] =
                    IF Head(queue[d]).op = "set" THEN Head(queue[d]).fields
                    ELSE NoDoc]
        BY <1>2 DEF Commit, IInv, TypeOK, Write
      <3>2. PICK u \in Uploads : u = Head(queue[d]).id
        BY <3>1, Taken, WriteFields
      <3>3. \A v \in Uploads \ {u} : Entry(v)' = Entry(v)
        BY <1>2, <3>1, <3>2 DEF Entry, IInv, TypeOK
      <3>4. entry' = [entry EXCEPT ![u] = Entry(u)']
        BY <3>3
      <3>5. CASE docs'[u] = docs[u]
        <4>1. \A v \in Uploads : Entry(v)' = Entry(v)
          BY <3>3, <3>5 DEF Entry
        <4> QED BY <4>1
      <3>6. CASE Entry(u)' = {}
        BY <3>4, <3>6
      <3>7. CASE docs'[u] # docs[u] /\ Entry(u)' # {}
        <4>1. Entry(u) \subseteq Entry(u)'
          BY <1>2, <3>7, CommitSaves
        <4>2. Entry(u)' \in SUBSET Halves /\ entry[u] = Entry(u)
          BY DEF Entry
        <4> QED BY <3>4, <3>7, <4>1, <4>2
      <3> QED BY <3>5, <3>6, <3>7
    <2>3. UNCHANGED docs \/ \E d \in Devices : Commit(d)
      BY <1>2 DEF Next, vars, UploadImage, PutCompletes, URLArrives, HalfFails,
                  LoadImages, AdminLoadImages, List, DeleteRow, RemovalArrives,
                  RemovalFails, Restart
    <2> QED BY <2>1, <2>2, <2>3
  <1>3. Init => Library!Empty
    BY <1>1 DEF Library!Empty, Entry
  <1>4. IInv /\ [Next]_vars => [Library!Next]_(
            [u \in Uploads |-> IF docs[u] = NoDoc THEN {}
                               ELSE {h \in Halves : docs[u][h] # NoURL}])
    BY <1>2 DEF Entry, Library!Next, Library!Delete, Library!Save,
                Library!Halves, Halves
  <1> QED BY <1>3, <1>4, Invariant, PTL DEF Spec, LibrarySpec, Library!Spec
=============================================================================
