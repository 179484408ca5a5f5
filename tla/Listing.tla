------------------------------- MODULE Listing -------------------------------
(***************************************************************************)
(* The screens that list a collection of documents: VC_Events, VC_FoodMenu, *)
(* VC_Gallery and the two edit screens of the gallery. A load appends the  *)
(* documents to an array and then, in a later block of the main queue,     *)
(* sorts the array and reloads the table; the array may change before the  *)
(* table draws or asks for it again.                                       *)
(*                                                                         *)
(* kind      which of the screens this is                                  *)
(* entry     the documents as this phone's Firestore client shows them     *)
(*           (PhotoLibrary); of a menu item or event only that it exists   *)
(* items     Events, Menu or GalleryImages; a row is a photo and the       *)
(*           halves whose URL its document had                             *)
(* filtered  FilteredGallery, filteredMenu: what the table reads if there  *)
(*           is one                                                        *)
(* drawn     the rows as the table last read them, on a reload             *)
(* main      blocks on the main queue                                      *)
(* asked     getDocuments calls not yet answered                           *)
(* question  rows that an alert asks to delete                             *)
(* large     the row last tapped, and the photo then opened                *)
(* ended     "no", or the trap at which the application has ended: a "row" *)
(*           the array does not have, a "thumbnail" with no URL, a "date"  *)
(*           this phone cannot read, an "image" that is none               *)
(* burst, clean                                                            *)
(*           loads since there was none under way, and whether the last    *)
(*           answer was complete and is still true; for the properties     *)
(* spent     loads, changes by others and deletions so far                 *)
(***************************************************************************)
EXTENDS Integers, Sequences, RowOrder

CONSTANTS
    Photos,      \* the documents of the collection; the name of one is its date
    Mine,        \* those the user signed in uploaded
    Dated,       \* those whose date this phone's DateFormatter can read
    Sections,    \* the sections of the menu, by their place in the table
    Category,    \* the section each is of, or none of these
    None,        \* no row, no photo
    MaxLoads, MaxChanges, MaxFailures

ASSUME ListingAssumption ==
    /\ Photos \subseteq Nat /\ IsFiniteSet(Photos)
    /\ Mine \subseteq Photos /\ Dated \subseteq Photos
    /\ Category \in [Photos -> Nat]
    /\ None \notin Photos
    /\ MaxLoads \in Nat \ {0} /\ MaxChanges \in Nat /\ MaxFailures \in Nat

VARIABLES kind, entry, items, filtered, drawn, main, asked, question, large,
          ended, burst, clean, spent

table == <<items, filtered, drawn>>
loading == <<main, asked, burst, clean>>
vars == <<kind, entry, table, loading, question, large, ended, spent>>

-----------------------------------------------------------------------------

Library == INSTANCE PhotoLibrary

Halves == Library!Halves

Kinds == {"VC_Events", "VC_FoodMenu", "VC_Gallery", "VC_GalleryEdits",
          "VC_Admin_Gallery"}

EditScreens == {"VC_GalleryEdits", "VC_Admin_Gallery"}

GalleryScreens == EditScreens \cup {"VC_Gallery"}

Rows == [id : Photos, urls : SUBSET Halves]

Row(p) == [id |-> p, urls |-> entry[p]]

Listed == {p \in Photos : entry[p] # {}}

\* getDocuments orders by document name.
Documents == LET ids == Ascending(Listed) IN [n \in DOMAIN ids |-> Row(ids[n])]

\* What the screen sorts by: events first to last, photos newest first; the
\* menu is arranged in sections.
Precedes(r, s) ==
    CASE kind = "VC_Events"      -> r.id < s.id
      [] kind \in GalleryScreens -> r.id > s.id
      [] kind = "VC_FoodMenu"    -> Category[r.id] < Category[s.id]

\* The rows at these places in the screen's order, those alike as they stand.
Arranged(rows, places) ==
    RowsAt(rows, InOrder(places, LAMBDA i, j :
        Precedes(rows[i], rows[j]) \/ (~Precedes(rows[j], rows[i]) /\ i < j)))

\* Variant of Sorted: the events' order for every screen.
SortedAscending(rows) ==
    RowsAt(rows, InOrder(DOMAIN rows, LAMBDA i, j :
        rows[i].id < rows[j].id \/ (rows[i].id = rows[j].id /\ i < j)))

\* The sort of the notify block; the menu is left as it came.
Sorted(rows) ==
    IF kind = "VC_FoodMenu" THEN rows ELSE Arranged(rows, DOMAIN rows)

\* filteritems: the user's own photos; the menu, section after section.
Filteritems(rows) ==
    CASE kind = "VC_GalleryEdits" ->
            RowsAt(rows, Ascending({i \in DOMAIN rows : rows[i].id \in Mine}))
      [] kind = "VC_FoodMenu" ->
            Arranged(rows, {i \in DOMAIN rows : Category[rows[i].id] \in Sections})
      [] OTHER -> <<>>

Filters == kind \in {"VC_GalleryEdits", "VC_FoodMenu"}

\* The array the table's data source reads.
Source == IF Filters THEN filtered ELSE items

Loading == main # <<>> \/ asked > 0

Query == [block |-> "query"]
Notify == [block |-> "notify"]

Blocks == {Query, Notify} \cup [block : {"append"}, rows : Seq(Rows)]

Traps == {"row", "thumbnail", "date", "image"}

TypeOK ==
    /\ kind \in Kinds /\ entry \in Library!Entries
    /\ items \in Seq(Rows) /\ filtered \in Seq(Rows) /\ drawn \in Seq(Rows)
    /\ main \in Seq(Blocks)
    /\ asked \in Nat /\ burst \in 0 .. MaxLoads
    /\ question \subseteq 1 .. Len(drawn)
    /\ large \in [row : Photos \cup {None}, image : Photos \cup {None}]
    /\ ended \in Traps \cup {"no"} /\ clean \in BOOLEAN
    /\ spent \in [loads : 0 .. MaxLoads, changes : 0 .. MaxChanges,
                  failures : 0 .. MaxFailures]
    /\ ended \in Traps \ {"date"} => kind \in GalleryScreens
    /\ ended = "date" => kind \in EditScreens \cup {"VC_Events"}

\* viewDidLoad, in VC_Gallery viewWillAppear, has called the load. LoadEvents
\* asks on the spot, the others in a block.
Init ==
    /\ kind \in Kinds
    /\ entry \in Library!Entries
    /\ items = <<>> /\ filtered = <<>> /\ drawn = <<>>
    /\ main = IF kind = "VC_Events" THEN <<>> ELSE <<Query>>
    /\ asked = IF kind = "VC_Events" THEN 1 ELSE 0
    /\ question = {} /\ large = [row |-> None, image |-> None]
    /\ ended = "no" /\ burst = 1 /\ clean = FALSE
    /\ spent = [loads |-> 1, changes |-> 0, failures |-> 0]

-----------------------------------------------------------------------------

\* Variant of ReloadGallery: the array is not emptied.
ReloadOnTop ==
    /\ kind = "VC_Gallery"
    /\ spent.loads < MaxLoads
    /\ spent' = [spent EXCEPT !.loads = @ + 1]
    /\ main' = Append(main, Query)
    /\ burst' = IF Loading THEN burst + 1 ELSE 1
    /\ clean' = FALSE
    /\ UNCHANGED <<kind, entry, table, asked, question, large, ended>>

\* viewWillAppear, refresh and the success of an upload: the array is emptied
\* on the spot and loaded again; the collection view is not told.
ReloadGallery ==
    /\ kind = "VC_Gallery"
    /\ spent.loads < MaxLoads
    /\ spent' = [spent EXCEPT !.loads = @ + 1]
    /\ items' = <<>>
    /\ main' = Append(main, Query)
    /\ burst' = IF Loading THEN burst + 1 ELSE 1
    /\ clean' = FALSE
    /\ UNCHANGED <<kind, entry, filtered, drawn, asked, question, large, ended>>

RunQuery ==
    /\ Head(main) = Query
    /\ main' = Tail(main)
    /\ asked' = asked + 1
    /\ UNCHANGED <<kind, entry, table, burst, clean, question, large, ended, spent>>

\* The documents of this moment, or an error, which is printed.
Answer ==
    /\ asked > 0
    /\ asked' = asked - 1
    /\ \/ /\ main' = Append(main, [block |-> "append", rows |-> Documents])
          /\ clean' = TRUE
          /\ UNCHANGED spent
       \/ /\ spent.failures < MaxFailures
          /\ spent' = [spent EXCEPT !.failures = @ + 1]
          /\ main' = Append(main, [block |-> "append", rows |-> <<>>])
          /\ clean' = FALSE
    /\ UNCHANGED <<kind, entry, table, burst, question, large, ended>>

Crash(trap) ==
    /\ ended' = trap
    /\ UNCHANGED <<kind, entry, table, loading, question, large, spent>>

Unreadable(rows) == \E i \in DOMAIN rows : rows[i].id \notin Dated

\* Variant of RunAppend: the group is left only with documents at hand.
RunAppendOrStop ==
    /\ Head(main).block = "append"
    /\ items' = items \o Head(main).rows
    /\ main' = IF Head(main).rows = <<>> THEN Tail(main)
               ELSE Append(Tail(main), Notify)
    /\ UNCHANGED <<kind, entry, filtered, drawn, asked, burst, clean, question,
                   large, ended, spent>>

\* The handler of getDocuments appends row after row and leaves the group,
\* also after an error; that posts the notify block. An Event reads its date
\* as it is made, and traps on one it cannot read.
RunAppend ==
    /\ Head(main).block = "append"
    /\ IF kind = "VC_Events" /\ Unreadable(Head(main).rows) THEN Crash("date")
       ELSE /\ items' = items \o Head(main).rows
            /\ main' = Append(Tail(main), Notify)
            /\ UNCHANGED <<kind, entry, filtered, drawn, asked, burst, clean,
                           question, large, ended, spent>>

\* Variant of RunNotify: the table is not told.
RunNotifyWithoutReload ==
    /\ Head(main) = Notify
    /\ main' = Tail(main)
    /\ items' = Sorted(items)
    /\ filtered' = IF Filters THEN Filteritems(items') ELSE filtered
    /\ UNCHANGED <<kind, entry, drawn, asked, burst, clean, question, large,
                   ended, spent>>

\* Variant of RunNotify: the table reads the array before it is sorted.
RunNotifyReloadFirst ==
    /\ Head(main) = Notify
    /\ main' = Tail(main)
    /\ items' = Sorted(items)
    /\ filtered' = IF Filters THEN Filteritems(items') ELSE filtered
    /\ drawn' = IF Filters THEN Filteritems(items) ELSE items
    /\ UNCHANGED <<kind, entry, asked, burst, clean, question, large, ended, spent>>

RunNotify ==
    /\ Head(main) = Notify
    /\ main' = Tail(main)
    /\ items' = Sorted(items)
    /\ filtered' = IF Filters THEN Filteritems(items') ELSE filtered
    /\ drawn' = IF Filters THEN filtered' ELSE items'
    /\ UNCHANGED <<kind, entry, asked, burst, clean, question, large, ended, spent>>

RunMain == main # <<>> /\ (RunQuery \/ RunAppend \/ RunNotify)

-----------------------------------------------------------------------------

Missing(i) == i \notin 1 .. Len(Source)

Has(i, half) == ~Missing(i) /\ half \in Source[i].urls

\* Variant of CellForItem: every screen's cells need a thumbnail.
CellForItemWithThumbnail(i) ==
    \/ Missing(i) /\ Crash("row")
    \/ ~Missing(i) /\ ~Has(i, "thumbnail") /\ Crash("thumbnail")

\* The table asks for a cell it has not asked for yet, as while scrolling.
\* That of a photo makes a Storage reference of the thumbnail's URL, which
\* raises on an empty one; on the edit screens it shows the date.
CellForItem(i) ==
    \/ Missing(i) /\ Crash("row")
    \/ /\ kind \in GalleryScreens
       /\ ~Missing(i) /\ ~Has(i, "thumbnail")
       /\ Crash("thumbnail")
    \/ /\ kind \in EditScreens
       /\ Has(i, "thumbnail") /\ Source[i].id \notin Dated
       /\ Crash("date")

Free == kind \in GalleryScreens /\ question = {}

\* A row is tapped: the photo at that place of the array is fetched and
\* opened, if its document has the URL and the fetch succeeds. UIImage is nil
\* for bytes that are no image, and unwrapped.
DidSelect(i) ==
    /\ Free
    /\ \/ Missing(i) /\ Crash("row")
       \/ Has(i, "photo") /\ Crash("image")
       \/ /\ ~Missing(i)
          /\ \E image \in {None} \cup {p \in {Source[i].id} : Has(i, "photo")} :
                large' = [row |-> drawn[i].id, image |-> image]
          /\ UNCHANGED <<kind, entry, table, loading, question, ended, spent>>

\* Removing the rows from the array, last row first, with their documents.
Without(rows, gone) == RowsAt(rows, Ascending(DOMAIN rows \ gone))

\* Variant of Gone: the rows are counted from the first of those left.
GoneAscending(rows) ==
    {i + Cardinality({j \in rows : j < i}) : i \in rows}

\* The places in the array that removing the rows in descending order hits.
Gone(rows) == rows

\* The documents and rows at these places go.
Remove(gone) ==
    /\ entry' = [p \in Photos |->
                    IF \E i \in gone : Source[i].id = p THEN {} ELSE entry[p]]
    /\ IF Filters THEN filtered' = Without(filtered, gone) /\ UNCHANGED items
       ELSE items' = Without(items, gone) /\ UNCHANGED filtered
    /\ question' = {}
    /\ UNCHANGED <<kind, main, asked, burst, clean, large, ended, spent>>

\* Variant of Delete: the table is not told.
DeleteWithoutReload(rows) ==
    IF \E i \in Gone(rows) : Missing(i) THEN Crash("row")
    ELSE Remove(Gone(rows)) /\ UNCHANGED drawn

\* The rows go from the array, which traps on a place it does not have, and
\* the table reads it again. (deleteRows before that insists that the table
\* has as many rows as the array had.)
Delete(rows) ==
    IF \E i \in Gone(rows) : Missing(i) THEN Crash("row")
    ELSE Remove(Gone(rows)) /\ drawn' = IF Filters THEN filtered' ELSE items'

\* A swipe on the member's edit screen deletes the row at once.
SwipeRow(i) ==
    /\ Free /\ kind = "VC_GalleryEdits"
    /\ Delete({i})

\* A swipe on the administrator's screen, and the delete button of both with
\* rows selected, ask first.
AskToDelete(rows) ==
    /\ Free /\ kind \in EditScreens
    /\ rows # {} /\ rows \subseteq 1 .. Len(drawn)
    /\ question' = rows
    /\ UNCHANGED <<kind, entry, table, loading, large, ended, spent>>

Confirm == question # {} /\ Delete(question)

Cancel ==
    /\ question # {}
    /\ question' = {}
    /\ UNCHANGED <<kind, entry, table, loading, large, ended, spent>>

\* Other screens and phones change the collection.
OthersChange ==
    /\ spent.changes < MaxChanges
    /\ spent' = [spent EXCEPT !.changes = @ + 1]
    /\ Library!Next
    /\ entry' # entry
    /\ clean' = FALSE
    /\ UNCHANGED <<kind, table, main, asked, burst, question, large, ended>>

Next ==
    /\ ended = "no"
    /\ \/ ReloadGallery \/ Answer \/ RunMain \/ Confirm \/ Cancel \/ OthersChange
       \/ \E i \in 1 .. Len(drawn) : CellForItem(i) \/ DidSelect(i) \/ SwipeRow(i)
       \/ \E rows \in SUBSET (1 .. Len(drawn)) : AskToDelete(rows)

Spec == Init /\ [][Next]_vars

\* The main queue runs what is posted to it, and a query is answered sooner
\* or later (QueryGets). No other step than RunMain takes the first block, and
\* none but Answer a call, so that it is said of these variables alone.
Fairness ==
    /\ WF_<<main, ended>>(
            /\ ended = "no" /\ main # <<>>
            /\ \/ main' \in {Tail(main), Append(Tail(main), Notify)} /\ ended' = "no"
               \/ main' = main /\ ended' = "date")
    /\ WF_asked(ended = "no" /\ asked > 0 /\ asked' = asked - 1)

FairSpec == Spec /\ Fairness

-----------------------------------------------------------------------------

\* Overlapping loads list a photo once each and not more often: emptying the
\* array at the start of a load keeps what earlier loads listed out of it.
ListedOncePerLoad ==
    \A p \in Photos : Cardinality({i \in DOMAIN items : items[i].id = p}) <= burst

\* r is in the table above s.
Above(r, s) ==
    CASE kind = "VC_Events" -> r.id < s.id
      [] kind \in GalleryScreens -> r.id > s.id
      [] kind = "VC_FoodMenu" ->
            \/ Category[r.id] < Category[s.id]
            \/ Category[r.id] = Category[s.id] /\ r.id < s.id

Belongs(p) ==
    /\ kind = "VC_GalleryEdits" => p \in Mine
    /\ kind = "VC_FoodMenu" => Category[p] \in Sections

\* After a load that overlapped no other, the table shows the collection as
\* the load found it, its own deletions taken out: every document that
\* belongs there, once, in the screen's order.
LoadShowsCollection ==
    ~Loading /\ clean /\ burst = 1 =>
        /\ {drawn[i].id : i \in DOMAIN drawn} = {p \in Listed : Belongs(p)}
        /\ \A i, j \in DOMAIN drawn : i < j => Above(drawn[i], drawn[j])

\* With no load under way the table is what its array holds, so that no tap,
\* swipe, selection or cell can name a row the array does not have.
TableIsSource == ~Loading => drawn = Source

\* A list shows what is stored: loads do not add up, the table follows the
\* array once they are over, and a single load shows the whole collection.
TableShowsCollection == ListedOncePerLoad /\ TableIsSource /\ LoadShowsCollection

\* What is wrong with one of the rows when the application ends at this trap.
Flaw(trap, rows) ==
    \/ trap = "thumbnail" /\ \E i \in DOMAIN rows : "thumbnail" \notin rows[i].urls
    \/ trap = "date" /\ Unreadable(rows)
    \/ trap = "image" /\ \E i \in DOMAIN rows : "photo" \in rows[i].urls

\* Unless the gallery is being loaded again, the application ends for a flaw
\* in a row the table shows, or in an event just read, and for nothing else: a
\* half of the upload that failed, a date this phone cannot read, a file that
\* is no image. No cell, tap, swipe or confirmed deletion asks for a row that
\* the array does not have.
CrashHasCause ==
    [][ended' # ended =>
        \/ Loading /\ kind = "VC_Gallery"
        \/ Flaw(ended', IF kind = "VC_Events" THEN Head(main).rows ELSE drawn)]_vars

\* Deleting rows, several at once too, deletes the photos that the table
\* showed in these rows and no other.
DeletesTheRowsShown ==
    [][question # {} /\ drawn' # drawn =>
        LET shown == {drawn[i].id : i \in question} IN
        entry' = [p \in Photos |-> IF p \in shown THEN {} ELSE entry[p]]]_vars

\* A tap opens the photo the tapped cell shows, or nothing when that half of
\* the upload failed or cannot be fetched, unless the gallery is being loaded
\* again.
OpensTheTappedPhoto ==
    [][large' # large /\ ~(Loading /\ kind = "VC_Gallery") =>
        large'.image \in {large'.row, None}]_vars

\* What the user does to a row happens to the photo the row shows.
RowsActOnWhatTheyShow == DeletesTheRowsShown /\ OpensTheTappedPhoto

\* The table catches up with its array again and again, also after loads that
\* failed or overlapped.
TableCatchesUp == []<>(ended # "no" \/ drawn = Source)
=============================================================================
