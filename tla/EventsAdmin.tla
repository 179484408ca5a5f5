----------------------------- MODULE EventsAdmin -----------------------------
(***************************************************************************)
(* The administrator's events screen, VC_AdminEvents. Its form publishes   *)
(* an event: the image goes to Storage under the event's date, and when    *)
(* its URL is known the event becomes the Events document of that date.    *)
(* Its table lists the documents and deletes one row by a swipe or several *)
(* by selection. Answers run on the main queue, among the user's acts.     *)
(*                                                                         *)
(* phase      per publication, how far it is                               *)
(* blobs      per date, the publication whose image Storage holds          *)
(* docs       per date, the Events document: the publications its title    *)
(*            and its image URL come from                                  *)
(* pImageURL  the screen's variable, a URL named by its publication        *)
(* queue      the client's document writes not yet executed                *)
(* removing   per date, image deletions on their way to Storage            *)
(* list       EventImages, by date: the row's eventTitle                   *)
(* shown      list when the table last reloaded: the rows it has           *)
(* selected   the rows selected in the table                               *)
(* ui         form: the form hides the table; editing: rows can be         *)
(*            selected, not swiped; buttons: delete and cancel show        *)
(* alert      the question on the screen                                   *)
(* main       the main queue; queries counts collections being fetched     *)
(* crashed    an index was out of range or rows did not add up             *)
(* acts       what the user did so far, for the bound                      *)
(* disturbed, stirred, wrong                                               *)
(*            dates on which a publication met a failure, a restart or     *)
(*            other work; whether the list changed under a question;       *)
(*            whether an event was deleted that was in no chosen row       *)
(***************************************************************************)
EXTENDS Integers, Sequences, SequencesExt, FiniteSetsExt, RowOrder

CONSTANTS
    Publications,  \* contents of the form, each used once
    Dates,         \* days, the ids of the documents and of the images
    DateOf,        \* the day each publication is for
    Earlier,       \* publications already in the collection at the start
    None,          \* no image, no document
    MaxActs        \* bound on the user's acts, on failures and on restarts

ASSUME EventsAssumption ==
    /\ Dates \subseteq Nat /\ IsFiniteSet(Dates) /\ MaxActs \in Nat
    /\ DateOf \in [Publications -> Dates]
    /\ Earlier \subseteq Publications /\ None \notin Publications
    /\ None \notin [title : Publications, image : Publications \cup {None}]
    /\ \A p, q \in Earlier : DateOf[p] = DateOf[q] => p = q

VARIABLES phase, blobs, docs, pImageURL, queue, removing,
          list, shown, selected, ui, alert, main, queries, crashed,
          acts, disturbed, stirred, wrong

uploads == <<phase, blobs, docs, pImageURL, queue, removing>>
table == <<list, shown, selected, ui>>
loads == <<main, queries>>
rest == <<crashed, acts>>

vars == <<uploads, table, alert, loads, rest, disturbed, stirred, wrong>>

-----------------------------------------------------------------------------

Phases == {"none", "putting", "stored", "saved", "failed"}

Query == [kind |-> "query"]
Results(dates) == [kind |-> "results", dates |-> dates]
Sort == [kind |-> "sort"]

NoAlert == [kind |-> "none"]

\* Variant of Set: the image is left out of the dictionary.
SetTitleOnly(p, url) == [date |-> DateOf[p], doc |-> [title |-> p]]

\* saveProfile: setData of the whole document.
Set(p, url) == [date |-> DateOf[p], doc |-> [title |-> p, image |-> url]]
Delete(d) == [date |-> d, doc |-> None]

Docs == [title : Publications, image : Publications \cup {None}] \cup {None}

Form == [form |-> TRUE, editing |-> FALSE, buttons |-> FALSE]

Active(d) == \E p \in Publications : DateOf[p] = d /\ phase[p] \in {"putting", "stored"}

Queued(d) == \E w \in Range(queue) : w.date = d

Loading == main # <<>> \/ queries > 0

Descending(S) == InOrder(S, >)

\* A sequence by its elements, equal ones in the order they had.
Sorted(s) ==
    LET order == InOrder(DOMAIN s, LAMBDA i, j : s[i] < s[j] \/ (s[i] = s[j] /\ i < j))
    IN [n \in DOMAIN s |-> s[order[n]]]

\* What the document of a day is with the client's own writes.
Written(d) ==
    LET writes == {i \in DOMAIN queue : queue[i].date = d} IN
    IF writes = {} THEN docs[d] ELSE queue[Max(writes)].doc

\* The documents as getDocuments reports them, own writes included, by id.
Seen == Ascending({d \in Dates : Written(d) # None})

TypeOK ==
    /\ phase \in [Publications -> Phases]
    /\ blobs \in [Dates -> Publications \cup {None}]
    /\ docs \in [Dates -> Docs]
    /\ pImageURL \in Publications \cup {None}
    /\ \A w \in Range(queue) : w.date \in Dates /\ w.doc \in Docs
    /\ removing \in [Dates -> Nat]
    /\ list \in Seq(Dates) /\ shown \in Seq(Dates)
    /\ selected \subseteq 1 .. Len(shown)
    /\ ui \in [form : BOOLEAN, editing : BOOLEAN, buttons : BOOLEAN]
    /\ alert.kind \in {"none", "row", "rows"}
    /\ \A i \in 1 .. Len(main) : main[i].kind \in {"query", "results", "sort"}
    /\ queries \in Nat /\ acts \in 0 .. MaxActs
    /\ {crashed, stirred, wrong} \subseteq BOOLEAN
    /\ disturbed \subseteq Dates

\* The screen appears with its form; viewDidLoad loads nothing.
Init ==
    LET first(d) == IF \E p \in Earlier : DateOf[p] = d
                    THEN CHOOSE p \in Earlier : DateOf[p] = d ELSE None
    IN
    /\ phase = [p \in Publications |-> IF p \in Earlier THEN "saved" ELSE "none"]
    /\ blobs = [d \in Dates |-> first(d)]
    /\ docs = [d \in Dates |-> IF first(d) = None THEN None
                               ELSE [title |-> first(d), image |-> first(d)]]
    /\ pImageURL = None /\ queue = <<>> /\ removing = [d \in Dates |-> 0]
    /\ list = <<>> /\ shown = <<>> /\ selected = {} /\ ui = Form
    /\ alert = NoAlert /\ main = <<>> /\ queries = 0 /\ crashed = FALSE
    /\ acts = 0 /\ disturbed = {} /\ stirred = FALSE /\ wrong = FALSE

Ready == ~crashed /\ alert = NoAlert

Act == acts < MaxActs /\ acts' = acts + 1

-----------------------------------------------------------------------------

\* The form is filled in and the add button pressed: the fields are cleared,
\* success is reported and the image starts on its way.
HandleTableViewLoad(p) ==
    LET d == DateOf[p] IN
    /\ Ready /\ ui.form /\ phase[p] = "none"
    /\ Act
    /\ phase' = [phase EXCEPT ![p] = "putting"]
    /\ disturbed' = IF Active(d) \/ Queued(d) \/ removing[d] > 0
                    THEN disturbed \cup {d} ELSE disturbed
    /\ UNCHANGED <<blobs, docs, pImageURL, queue, removing, table, alert, loads,
                   crashed, stirred, wrong>>

PutCompletes(p) ==
    /\ ~crashed /\ phase[p] = "putting"
    /\ phase' = [phase EXCEPT ![p] = "stored"]
    /\ blobs' = [blobs EXCEPT ![DateOf[p]] = p]
    /\ UNCHANGED <<docs, pImageURL, queue, removing, table, alert, loads, rest,
                   disturbed, stirred, wrong>>

\* Variant of URLArrives: the event is saved before the URL is kept.
SaveBeforeKeeping(p) ==
    /\ ~crashed /\ phase[p] = "stored" /\ blobs[DateOf[p]] # None
    /\ phase' = [phase EXCEPT ![p] = "saved"]
    /\ queue' = Append(queue, Set(p, pImageURL))
    /\ pImageURL' = blobs[DateOf[p]]
    /\ UNCHANGED <<blobs, docs, removing, table, alert, loads, rest,
                   disturbed, stirred, wrong>>

\* downloadURL answers for what is stored under the date by now, the screen
\* keeps the URL, and saveProfile replaces the document.
URLArrives(p) ==
    LET url == blobs[DateOf[p]] IN
    /\ ~crashed /\ phase[p] = "stored" /\ url # None
    /\ phase' = [phase EXCEPT ![p] = "saved"]
    /\ pImageURL' = url
    /\ queue' = Append(queue, Set(p, url))
    /\ UNCHANGED <<blobs, docs, removing, table, alert, loads, rest,
                   disturbed, stirred, wrong>>

\* putData or downloadURL fails, the latter surely when the file is gone: the
\* completion handler returns, and nobody is told.
UploadFails(p) ==
    /\ ~crashed /\ phase[p] \in {"putting", "stored"}
    /\ IF phase[p] = "stored" /\ blobs[DateOf[p]] = None THEN UNCHANGED acts ELSE Act
    /\ phase' = [phase EXCEPT ![p] = "failed"]
    /\ disturbed' = disturbed \cup {DateOf[p]}
    /\ UNCHANGED <<blobs, docs, pImageURL, queue, removing, table, alert, loads,
                   crashed, stirred, wrong>>

\* The server executes the next document write.
Commit ==
    /\ ~crashed /\ queue # <<>>
    /\ docs' = [docs EXCEPT ![Head(queue).date] = Head(queue).doc]
    /\ queue' = Tail(queue)
    /\ UNCHANGED <<phase, blobs, pImageURL, removing, table, alert, loads, rest,
                   disturbed, stirred, wrong>>

RemovalArrives(d) ==
    /\ ~crashed /\ removing[d] > 0
    /\ removing' = [removing EXCEPT ![d] = @ - 1]
    /\ blobs' = [blobs EXCEPT ![d] = None]
    /\ UNCHANGED <<phase, docs, pImageURL, queue, table, alert, loads, rest,
                   disturbed, stirred, wrong>>

\* The deletion of an image fails: the error is printed.
RemovalFails(d) ==
    /\ ~crashed /\ removing[d] > 0
    /\ Act
    /\ removing' = [removing EXCEPT ![d] = @ - 1]
    /\ disturbed' = disturbed \cup {d}
    /\ UNCHANGED <<phase, blobs, docs, pImageURL, queue, table, alert, loads,
                   crashed, stirred, wrong>>

-----------------------------------------------------------------------------

\* The table comes up and LoadImages posts its query.
EditFooterButton ==
    /\ Ready /\ ui.form
    /\ Act
    /\ ui' = [ui EXCEPT !.form = FALSE]
    /\ main' = Append(main, Query)
    /\ UNCHANGED <<uploads, list, shown, selected, alert, queries, crashed,
                   disturbed, stirred, wrong>>

AddFooterButton ==
    /\ Ready /\ ~ui.form
    /\ ui' = [ui EXCEPT !.form = TRUE]
    /\ UNCHANGED <<uploads, list, shown, selected, alert, loads, rest,
                   disturbed, stirred, wrong>>

RunQuery ==
    /\ Head(main) = Query
    /\ main' = Tail(main)
    /\ queries' = queries + 1
    /\ UNCHANGED <<uploads, table, alert, rest, disturbed, stirred, wrong>>

\* The documents, or none after an error, are appended to what is listed.
RunResults ==
    /\ Head(main).kind = "results"
    /\ list' = list \o Head(main).dates
    /\ main' = Append(Tail(main), Sort)
    /\ UNCHANGED <<uploads, shown, selected, ui, alert, queries, rest,
                   disturbed, stirred, wrong>>

\* Variant: the table is reloaded as the answers came.
ReloadOnly ==
    /\ Head(main) = Sort
    /\ main' = Tail(main)
    /\ shown' = list
    /\ selected' = {}
    /\ UNCHANGED <<uploads, list, ui, alert, queries, rest, disturbed, stirred,
                   wrong>>

\* The notify block: the list is sorted and the table reloaded.
RunSort ==
    /\ Head(main) = Sort
    /\ main' = Tail(main)
    /\ list' = Sorted(list)
    /\ shown' = list'
    /\ selected' = {}
    /\ UNCHANGED <<uploads, ui, alert, queries, rest, disturbed, stirred, wrong>>

RunMain == ~crashed /\ main # <<>> /\ (RunQuery \/ RunResults \/ RunSort)

\* getDocuments is answered, with the documents or with an error.
QueryAnswered ==
    /\ ~crashed /\ queries > 0
    /\ queries' = queries - 1
    /\ \E dates \in {<<>>, Seen} : main' = Append(main, Results(dates))
    /\ UNCHANGED <<uploads, table, alert, rest, disturbed, stirred, wrong>>

-----------------------------------------------------------------------------

\* The question about one row or several. The rows and their events are those
\* on the screen; of the events no code takes note.
Ask(kind, rows) ==
    /\ Ready /\ ~ui.form
    /\ Act
    /\ alert' = [kind |-> kind, rows |-> rows, shown |-> shown]
    /\ UNCHANGED <<uploads, list, shown, ui, loads, crashed, disturbed, stirred,
                   wrong>>

SwipeRow(i) ==
    /\ ~ui.editing
    /\ Ask("row", {i})
    /\ UNCHANGED selected

DeleteButton(rows) ==
    /\ ui.buttons
    /\ Ask("rows", rows)
    /\ selected' = rows

BarEditButton ==
    /\ Ready /\ ~ui.form /\ ~ui.buttons
    /\ ui' = [ui EXCEPT !.editing = TRUE, !.buttons = TRUE]
    /\ UNCHANGED <<uploads, list, shown, selected, alert, loads, rest, disturbed,
                   stirred, wrong>>

BarCancelButton ==
    /\ Ready /\ ~ui.form /\ ui.buttons
    /\ ui' = [ui EXCEPT !.editing = FALSE, !.buttons = FALSE]
    /\ selected' = {}
    /\ UNCHANGED <<uploads, list, shown, alert, loads, rest, disturbed, stirred,
                   wrong>>

CancelAlert ==
    /\ ~crashed /\ alert # NoAlert
    /\ alert' = NoAlert
    /\ UNCHANGED <<uploads, table, loads, rest, disturbed, stirred, wrong>>

\* Variant: the smallest row first.
AscendingOrder(rows) == Ascending(rows)

\* selectedItems.sort: greatest row first.
DeletionOrder(rows) == Descending(rows)

\* Row after row: its image and its document are deleted, no call waiting for
\* another, and the row leaves the list; an index beyond the list traps. What
\* is left, the dates deleted, and whether there was a trap.
Deletion(rows) ==
    LET order == DeletionOrder(rows)
        remove(done, i) ==
            IF i > Len(done.list) THEN [done EXCEPT !.trap = TRUE]
            ELSE [done EXCEPT !.list = RemoveAt(@, i),
                              !.dates = Append(@, done.list[i])]
        done[n \in 0 .. Len(order)] ==
            IF n = 0 THEN [list |-> list, dates |-> <<>>, trap |-> FALSE]
            ELSE remove(done[n - 1], order[n])
    IN done[Len(order)]

DeleteRows(rows, inconsistent) ==
    LET done == Deletion(rows)
        chosen == {alert.shown[i] : i \in rows}
    IN
    /\ queue' = queue \o [i \in 1 .. Len(done.dates) |-> Delete(done.dates[i])]
    /\ removing' = [d \in Dates |->
                      removing[d] + Cardinality({i \in DOMAIN done.dates : done.dates[i] = d})]
    /\ list' = done.list
    /\ shown' = list'
    /\ selected' = {}
    /\ disturbed' = disturbed \cup {d \in Range(done.dates) : Active(d)}
    /\ stirred' = (stirred \/ list # alert.shown)
    /\ wrong' = (wrong \/ Range(done.dates) # chosen)
    /\ crashed' = (done.trap \/ inconsistent)
    /\ UNCHANGED <<phase, blobs, docs, pImageURL>>

\* The swiped row, where it is now.
ConfirmRow ==
    /\ ~crashed /\ alert.kind = "row"
    /\ DeleteRows(alert.rows, FALSE)
    /\ alert' = NoAlert
    /\ UNCHANGED <<ui, loads, acts>>

\* The rows still selected. deleteRows compares the number of rows the table
\* had with the length of the list, and raises when a load added to it.
ConfirmSelection ==
    /\ ~crashed /\ alert.kind = "rows"
    /\ IF selected = {}
       THEN UNCHANGED <<uploads, list, shown, selected, crashed, disturbed,
                        stirred, wrong>>
       ELSE DeleteRows(selected, Len(list) # Len(shown))
    /\ ui' = [ui EXCEPT !.buttons = FALSE, !.editing = @ /\ selected = {}]
    /\ alert' = NoAlert
    /\ UNCHANGED <<loads, acts>>

\* The application ends and the screen is opened again: document writes are
\* on disk, everything else is gone.
Restart ==
    /\ Act
    /\ phase' = [p \in Publications |->
                    IF phase[p] \in {"putting", "stored"} THEN "failed" ELSE phase[p]]
    /\ disturbed' = disturbed \cup {d \in Dates : Active(d) \/ removing[d] > 0}
    /\ removing' = [d \in Dates |-> 0]
    /\ pImageURL' = None
    /\ list' = <<>> /\ shown' = <<>> /\ selected' = {} /\ ui' = Form
    /\ alert' = NoAlert /\ main' = <<>> /\ queries' = 0 /\ crashed' = FALSE
    /\ UNCHANGED <<blobs, docs, queue, stirred, wrong>>

Next ==
    \/ \E p \in Publications : HandleTableViewLoad(p) \/ PutCompletes(p)
                               \/ URLArrives(p) \/ UploadFails(p)
    \/ \E d \in Dates : RemovalArrives(d) \/ RemovalFails(d)
    \/ \E i \in 1 .. Len(shown) : SwipeRow(i)
    \/ \E rows \in SUBSET (1 .. Len(shown)) : DeleteButton(rows)
    \/ EditFooterButton \/ AddFooterButton \/ BarEditButton \/ BarCancelButton
    \/ RunMain \/ QueryAnswered
    \/ CancelAlert \/ ConfirmRow \/ ConfirmSelection
    \/ Commit \/ Restart

Spec == Init /\ [][Next]_vars

-----------------------------------------------------------------------------

\* With no work left on a date, its event shows the image it was published
\* with, and that image is in Storage: republishing a date, or publishing a
\* deleted one again, leaves no mixture of two events, if each work on a date
\* began after the last had ended and none failed.
EventKeepsItsImage ==
    \A d \in Dates :
        ~Active(d) /\ ~Queued(d) /\ removing[d] = 0 /\ d \notin disturbed
            => /\ docs[d] # None => docs[d].title = blobs[d] /\ docs[d].image = blobs[d]
               /\ docs[d] = None => blobs[d] = None

\* While no load is under way the table has a row per element of the list, in
\* the order of the dates, however many loads were added to it.
RowsSorted ==
    ~Loading /\ ~crashed =>
        /\ shown = list
        /\ \A i, j \in 1 .. Len(list) : i < j => list[i] <= list[j]

\* Deleting the rows of a question deletes the events the user saw in them,
\* although each removal moves the rows behind it, as long as no load touches
\* the list between question and answer.
SelectionDeletesItsRows == wrong => stirred

\* A row can be relied on: outside a load the table has the rows of the list,
\* sorted, and deleting rows deletes the events shown in them.
RowsAreReliable == RowsSorted /\ SelectionDeletesItsRows

\* Deleting rows ends the application in one case only: a load has appended
\* to the list and not yet reloaded the table, which then has too few rows.
CrashNeedsHalfLoad ==
    [][crashed' /\ ~crashed => \E i \in DOMAIN main : main[i] = Sort]_vars

=============================================================================
