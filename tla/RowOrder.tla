------------------------------- MODULE RowOrder -------------------------------
(***************************************************************************)
(* Sorting and filtering, as the screens with tables use them: sets of     *)
(* rows or days listed in an order, and the part of a list that is in a    *)
(* set. The code calls sort(by:), and walks through an array or a query's  *)
(* documents, which come by their ids.                                     *)
(***************************************************************************)
EXTENDS Integers, FiniteSets

\* The elements of a finite set, each after those before it.
InOrder(S, before(_, _)) ==
    [n \in 1 .. Cardinality(S) |->
        CHOOSE x \in S : Cardinality({y \in S : before(y, x)}) = n - 1]

Ascending(S) == InOrder(S, <)

\* The rows at the places listed.
RowsAt(rows, places) == [n \in DOMAIN places |-> rows[places[n]]]

\* The elements of a sequence that are in S, in its order.
Among(s, S) == RowsAt(s, Ascending({n \in DOMAIN s : s[n] \in S}))

===============================================================================
