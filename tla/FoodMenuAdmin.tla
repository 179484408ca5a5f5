---------------------------- MODULE FoodMenuAdmin ----------------------------
(***************************************************************************)
(* The administrator's food menu screen, VC_Admin_FoodMenu: it loads the   *)
(* FoodMenu collection into sections, adds items, and deletes one row by a *)
(* swipe or several by selection. What it does when a query or a write is  *)
(* answered runs later, on the main queue, among the user's own acts.      *)
(*                                                                         *)
(* server    the items of the collection; used: those ever added to it     *)
(* queue     the client's writes not yet executed, with what runs then     *)
(* menu, filtered                                                          *)
(*           Menu and filteredMenu                                         *)
(* shown     filteredMenu when the table last reloaded: the rows it has    *)
(* selected  the paths selected in the table                               *)
(* ui        form: the form for a new item hides the table; editing: rows  *)
(*           can be selected, not swiped; buttons: delete and cancel show  *)
(* alert     the question on the screen                                    *)
(* main      the main queue; queries counts collections being fetched      *)
(* crashed   an index was out of range                                     *)
(* acts      what the user did so far, for the bound                       *)
(* overlap, tangled                                                        *)
(*           a load began before another ended; rows moved or were chosen  *)
(*           again while removals were outstanding                         *)
(***************************************************************************)
EXTENDS Integers, Sequences, SequencesExt, FiniteSetsExt, RowOrder

CONSTANTS
    DocOrder,   \* the items in the order of their document ids
    Sections,   \* the rows of the categories array
    Category,   \* the section of each item
    Stored,     \* the items stored at the start
    MaxActs,    \* bound on the user's acts and on restarts
    MaxSelected \* bound on the rows selected at once

Items == Range(DocOrder)

ASSUME MenuAssumption ==
    /\ DocOrder \in Seq(Items) /\ IsInjective(DocOrder)
    /\ Sections \subseteq Nat /\ IsFiniteSet(Sections)
    /\ Category \in [Items -> Sections]
    /\ Stored \subseteq Items
    /\ MaxActs \in Nat /\ MaxSelected \in Nat

VARIABLES server, used, queue, menu, filtered, shown, selected, ui, alert, main,
          queries, crashed, acts, overlap, tangled

vars == <<server, used, queue, menu, filtered, shown, selected, ui, alert, main,
          queries, crashed, acts, overlap, tangled>>

data == <<server, used, queue>>
table == <<menu, filtered, shown, selected>>
notes == <<overlap, tangled>>

-----------------------------------------------------------------------------

\* What can wait on the main queue.
Query == [kind |-> "query"]
Results(docs) == [kind |-> "results", docs |-> docs]
Filter == [kind |-> "filter"]
Reload == [kind |-> "reload"]
RemoveRow(path, item) == [kind |-> "remove", path |-> path, item |-> item]
Nothing == [kind |-> "nothing"]

NoAlert == [kind |-> "none"]

\* The rows of the table.
RowPaths == UNION {{s} \X (1 .. Len(shown[s])) : s \in Sections}

Empty == [s \in Sections |-> <<>>]

Loading == queries > 0 \/ \E i \in 1 .. Len(main) :
                              main[i].kind \in {"query", "results", "filter"}

\* Removals whose write or whose completion handler is still to run.
Removals == {t \in Range(main) \cup {w.done : w \in Range(queue)} :
                 t.kind = "remove"}

\* The collection as getDocuments reports it, own writes included.
Seen == {i \in Items :
            LET writes == {n \in DOMAIN queue : queue[n].item = i} IN
            IF writes = {} THEN i \in server ELSE queue[Max(writes)].op = "add"}

TypeOK ==
    /\ server \subseteq used /\ used \subseteq Items
    /\ \A w \in Range(queue) : w.op \in {"add", "delete"} /\ w.item \in Items
    /\ menu \in Seq(Items)
    /\ filtered \in [Sections -> Seq(Items)]
    /\ shown \in [Sections -> Seq(Items)]
    /\ selected \subseteq RowPaths
    /\ ui \in [form : BOOLEAN, editing : BOOLEAN, buttons : BOOLEAN]
    /\ alert.kind \in {"none", "row", "rows"}
    /\ queries \in Nat /\ acts \in 0 .. MaxActs
    /\ {crashed, overlap, tangled} \subseteq BOOLEAN

\* The screen appears with its form, and viewDidLoad calls LoadMenu.
Init ==
    /\ server = Stored /\ used = Stored /\ queue = <<>>
    /\ menu = <<>> /\ filtered = Empty /\ shown = Empty /\ selected = {}
    /\ ui = [form |-> TRUE, editing |-> FALSE, buttons |-> FALSE]
    /\ alert = NoAlert
    /\ main = <<Query>> /\ queries = 0
    /\ crashed = FALSE /\ acts = 0
    /\ overlap = FALSE /\ tangled = FALSE

Ready == ~crashed /\ alert = NoAlert

Act == acts < MaxActs /\ acts' = acts + 1

InRange(path) == path[2] \in 1 .. Len(filtered[path[1]])

-----------------------------------------------------------------------------

\* Variant: the items of the last load are kept.
LoadMenuAgain(rest) ==
    /\ filtered' = Empty
    /\ main' = Append(rest, Query)
    /\ overlap' = (overlap \/ Loading)
    /\ tangled' = (tangled \/ Removals # {})
    /\ UNCHANGED <<menu, shown, selected>>

\* LoadMenu empties both arrays at once and posts the query; the table keeps
\* its rows until the answer.
LoadMenu(rest) ==
    /\ menu' = <<>>
    /\ filtered' = Empty
    /\ main' = Append(rest, Query)
    /\ overlap' = (overlap \/ Loading)
    /\ tangled' = (tangled \/ Removals # {})
    /\ UNCHANGED <<shown, selected>>

\* The edit button brings the table up and loads the menu again.
EditButton ==
    /\ Ready /\ ui.form
    /\ Act
    /\ ui' = [ui EXCEPT !.form = FALSE]
    /\ LoadMenu(main)
    /\ UNCHANGED <<data, alert, queries, crashed>>

AddButton ==
    /\ Ready /\ ~ui.form
    /\ ui' = [ui EXCEPT !.form = TRUE]
    /\ UNCHANGED <<data, table, alert, main, queries, crashed, acts, notes>>

\* addDocument makes a new document id. The list is not touched, the handler
\* only clears the form.
AddFoodItem(i) ==
    /\ Ready /\ ui.form /\ i \notin used
    /\ Act
    /\ used' = used \cup {i}
    /\ queue' = Append(queue, [op |-> "add", item |-> i, done |-> Nothing])
    /\ UNCHANGED <<server, table, ui, alert, main, queries, crashed, notes>>

\* A swipe asks about the row; the question remembers the row's path.
SwipeRow(path) ==
    /\ Ready /\ ~ui.form /\ ~ui.editing
    /\ Act
    /\ alert' = [kind |-> "row", path |-> path]
    /\ UNCHANGED <<data, table, ui, main, queries, crashed, notes>>

Delete(i, done) == [op |-> "delete", item |-> i, done |-> done]

\* The answer looks the path up in the data of now.
ConfirmRow ==
    /\ ~crashed /\ alert.kind = "row"
    /\ alert' = NoAlert
    /\ IF InRange(alert.path)
       THEN LET item == filtered[alert.path[1]][alert.path[2]] IN
            queue' = Append(queue, Delete(item, Reload)) /\ UNCHANGED crashed
       ELSE crashed' = TRUE /\ UNCHANGED queue
    /\ UNCHANGED <<server, used, table, ui, main, queries, acts, notes>>

\* foodEditButton and cancelButton switch the selection of rows on and off.
FoodEditButton ==
    /\ Ready /\ ~ui.form /\ ~ui.buttons
    /\ ui' = [ui EXCEPT !.editing = TRUE, !.buttons = TRUE]
    /\ selected' = IF ui.editing THEN selected ELSE {}
    /\ UNCHANGED <<data, menu, filtered, shown, alert, main, queries, crashed,
                   acts, notes>>

CancelButton ==
    /\ Ready /\ ~ui.form /\ ui.buttons
    /\ ui' = [ui EXCEPT !.editing = FALSE, !.buttons = FALSE]
    /\ selected' = {}
    /\ UNCHANGED <<data, menu, filtered, shown, alert, main, queries, crashed,
                   acts, notes>>

\* Rows are selected, and the delete button asks about them.
DeleteButton(paths) ==
    /\ Ready /\ ~ui.form /\ ui.buttons
    /\ Act
    /\ selected' = paths
    /\ alert' = [kind |-> "rows"]
    /\ UNCHANGED <<data, menu, filtered, shown, ui, main, queries, crashed, notes>>

\* Variant: the smallest row first.
AscendingOrder(paths) ==
    InOrder(paths, LAMBDA p, q : p[2] < q[2] \/ (p[2] = q[2] /\ p[1] < q[1]))

\* selectedItems.sort: greatest row first.
DeletionOrder(paths) ==
    InOrder(paths, LAMBDA p, q : p[2] > q[2] \/ (p[2] = q[2] /\ p[1] < q[1]))

\* Each selected row's document is deleted, the row itself when the server
\* has answered; the path it is removed at is the one of now. Rows are out of
\* range only all at once: a load has emptied every section.
ConfirmSelection ==
    LET order == DeletionOrder(selected)
        write(p) == LET item == filtered[p[1]][p[2]] IN Delete(item, RemoveRow(p, item))
    IN
    /\ ~crashed /\ alert.kind = "rows"
    /\ alert' = NoAlert
    /\ IF \A p \in selected : InRange(p)
       THEN /\ queue' = queue \o [i \in 1 .. Len(order) |-> write(order[i])]
            /\ tangled' = (tangled \/ (selected # {} /\ Removals # {}))
            /\ UNCHANGED crashed
       ELSE crashed' = TRUE /\ UNCHANGED <<queue, tangled>>
    /\ ui' = [ui EXCEPT !.buttons = FALSE, !.editing = @ /\ selected = {}]
    /\ selected' = {}
    /\ UNCHANGED <<server, used, menu, filtered, shown, main, queries, acts,
                   overlap>>

CancelAlert ==
    /\ ~crashed /\ alert # NoAlert
    /\ alert' = NoAlert
    /\ UNCHANGED <<data, table, ui, main, queries, crashed, acts, notes>>

-----------------------------------------------------------------------------

\* The server executes the next write; its completion handler is posted.
Commit ==
    /\ ~crashed /\ queue # <<>>
    /\ LET write == Head(queue) IN
       /\ server' = IF write.op = "add" THEN server \cup {write.item}
                    ELSE server \ {write.item}
       /\ main' = IF write.done = Nothing THEN main ELSE Append(main, write.done)
    /\ queue' = Tail(queue)
    /\ UNCHANGED <<used, table, ui, alert, queries, crashed, acts, notes>>

\* The server refuses it: the handler prints the error.
Refuse ==
    /\ ~crashed /\ queue # <<>>
    /\ queue' = Tail(queue)
    /\ UNCHANGED <<server, used, table, ui, alert, main, queries, crashed, acts, notes>>

\* getDocuments is answered, with the documents or with an error.
QueryAnswered ==
    /\ ~crashed /\ queries > 0
    /\ queries' = queries - 1
    /\ \E docs \in {<<>>, Among(DocOrder, Seen)} :
        main' = Append(main, Results(docs))
    /\ UNCHANGED <<data, table, ui, alert, crashed, acts, notes>>

RunQuery ==
    /\ Head(main) = Query
    /\ main' = Tail(main)
    /\ queries' = queries + 1
    /\ UNCHANGED <<data, table, ui, alert, crashed, acts, notes>>

\* Variant: the group is left only when documents came.
RunResultsGivingUp ==
    /\ Head(main).kind = "results"
    /\ menu' = menu \o Head(main).docs
    /\ main' = IF Head(main).docs = <<>> THEN Tail(main)
               ELSE Append(Tail(main), Filter)
    /\ UNCHANGED <<data, filtered, shown, selected, ui, alert, queries, crashed,
                   acts, notes>>

\* The items are appended and the group is left, which posts its notify block.
RunResults ==
    /\ Head(main).kind = "results"
    /\ menu' = menu \o Head(main).docs
    /\ main' = Append(Tail(main), Filter)
    /\ UNCHANGED <<data, filtered, shown, selected, ui, alert, queries, crashed,
                   acts, notes>>

\* Variant: an array per category but the first.
FilteritemsButFirst ==
    [s \in Sections \ {0} |-> Among(menu, {i \in Items : Category[i] = s})]

\* The items of each category, in their order in Menu.
Filteritems ==
    [s \in Sections |-> Among(menu, {i \in Items : Category[i] = s})]

RunFilter ==
    /\ Head(main) = Filter
    /\ main' = Tail(main)
    /\ filtered' = Filteritems
    /\ shown' = filtered'
    /\ selected' = {}
    /\ tangled' = (tangled \/ Removals # {})
    /\ UNCHANGED <<data, menu, ui, alert, queries, crashed, acts, overlap>>

\* A swiped row's document is gone: the whole menu is loaded again.
RunReload ==
    /\ Head(main) = Reload
    /\ LoadMenu(Tail(main))
    /\ UNCHANGED <<data, ui, alert, queries, crashed, acts>>

\* Variant of RunRemove: the table is not told.
RunRemoveQuietly ==
    /\ Head(main).kind = "remove"
    /\ main' = Tail(main)
    /\ LET path == Head(main).path IN
       IF InRange(path)
       THEN /\ filtered' = [filtered EXCEPT ![path[1]] = RemoveAt(@, path[2])]
            /\ UNCHANGED <<shown, selected, crashed>>
       ELSE crashed' = TRUE /\ UNCHANGED <<filtered, shown, selected>>
    /\ UNCHANGED <<data, menu, ui, alert, queries, acts, notes>>

\* A selected row's document is gone: the row is removed at its old path.
RunRemove ==
    /\ Head(main).kind = "remove"
    /\ main' = Tail(main)
    /\ LET path == Head(main).path IN
       IF InRange(path)
       THEN /\ filtered' = [filtered EXCEPT ![path[1]] = RemoveAt(@, path[2])]
            /\ shown' = filtered'
            /\ selected' = {}
            /\ UNCHANGED crashed
       ELSE crashed' = TRUE /\ UNCHANGED <<filtered, shown, selected>>
    /\ UNCHANGED <<data, menu, ui, alert, queries, acts, notes>>

RunMain ==
    /\ ~crashed /\ main # <<>>
    /\ (RunQuery \/ RunResults \/ RunFilter \/ RunReload \/ RunRemove)

\* The table asks for the cell of one of its rows.
ScrollTo(path) ==
    /\ ~crashed /\ ~ui.form
    /\ crashed' = ~InRange(path)
    /\ UNCHANGED <<data, table, ui, alert, main, queries, acts, notes>>

\* The application ends and the screen is opened again; writes are on disk,
\* their completion handlers are not.
Restart ==
    /\ Act
    /\ crashed' = FALSE
    /\ queue' = [i \in 1 .. Len(queue) |-> [queue[i] EXCEPT !.done = Nothing]]
    /\ menu' = <<>> /\ filtered' = Empty /\ shown' = Empty /\ selected' = {}
    /\ ui' = [form |-> TRUE, editing |-> FALSE, buttons |-> FALSE]
    /\ alert' = NoAlert
    /\ main' = <<Query>> /\ queries' = 0
    /\ overlap' = FALSE /\ tangled' = FALSE
    /\ UNCHANGED <<server, used>>

Next ==
    \/ EditButton \/ AddButton \/ FoodEditButton \/ CancelButton
    \/ ConfirmRow \/ ConfirmSelection \/ CancelAlert
    \/ Commit \/ Refuse \/ QueryAnswered \/ RunMain \/ Restart
    \/ \E i \in Items : AddFoodItem(i)
    \/ \E p \in RowPaths : SwipeRow(p) \/ ScrollTo(p)
    \/ \E k \in 0 .. MaxSelected : \E paths \in kSubset(k, RowPaths) :
           DeleteButton(paths)

Spec == Init /\ [][Next]_vars

-----------------------------------------------------------------------------

\* Each section lists the items of its category, once each and in the order
\* of their document ids, whatever was deleted in between. It is claimed of
\* loads that did not overlap: two that do both fill the sections.
SectionsOrdered ==
    ~overlap => \A s \in Sections : \A i, j \in 1 .. Len(filtered[s]) :
        /\ Category[filtered[s][i]] = s
        /\ i < j => \E m, n \in 1 .. Len(DocOrder) :
               m < n /\ DocOrder[m] = filtered[s][i] /\ DocOrder[n] = filtered[s][j]

\* A deletion of several rows removes each of its rows by an index taken
\* before the first was removed. The index still names the row of the item
\* whose document was deleted when its handler runs, though the server may
\* refuse any of the deletions: the order of the sort is what makes it so.
\* It is claimed until a load or a second deletion starts under the first.
RemovalsNameTheirRow ==
    ~tangled /\ ~crashed =>
        \A r \in Removals : InRange(r.path) /\ filtered[r.path[1]][r.path[2]] = r.item

\* Once nothing is outstanding the table shows no item that was stored at the
\* start and is gone: each deletion that succeeded reached the screen. (A new
\* item whose addition was refused after a load may still be shown.)
NoDeletedRowLeft ==
    main = <<>> /\ queries = 0 /\ queue = <<>> /\ ~crashed /\ ~overlap /\ ~tangled
        => \A s \in Sections : Range(shown[s]) \cap Stored \subseteq server

\* The table's rows are those of the data whenever no load is under way, so
\* only a load can make the table ask for a row that is not there: it empties
\* the sections at once and reloads the table at its end.
RowsBackedByData == ~crashed /\ ~Loading => shown = filtered

\* The item a confirmed swipe deletes is the one the table shows in that row
\* when the user answers, though the question only remembers the path and
\* loads and removals go on under it. (After a reload under the question it
\* need not be the item the question was asked about.)
ConfirmedRowDeleted ==
    [][alert.kind = "row" /\ alert' = NoAlert /\ Len(queue') > Len(queue) =>
        Last(queue').item = shown[alert.path[1]][alert.path[2]]]_vars

\* What the administrator sees is the menu: the sections in order, a row for
\* each item of the data outside a load, and, when all is answered, no row of
\* an item that is gone.
TableShowsMenu == SectionsOrdered /\ RowsBackedByData /\ NoDeletedRowLeft

=============================================================================
