------------------------------ MODULE MCListing ------------------------------
(***************************************************************************)
(* Listing for TLC: three documents, two of them the user's own, the first *)
(* and the last in the second section of the menu, the first with a date   *)
(* this phone cannot read.                                                 *)
(***************************************************************************)
EXTENDS Listing, TLC

SectionOf == [p \in Photos |-> IF p = 2 THEN 1 ELSE 2]
=============================================================================
