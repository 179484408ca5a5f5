----------------------------- MODULE MCQueryGets -----------------------------
(***************************************************************************)
(* QueryGets for TLC: two gets, of one query, whose watch they share or    *)
(* start one after the other, or of two.                                   *)
(***************************************************************************)
EXTENDS QueryGets

CONSTANTS g1, g2, guests, profile

\* The queries being alike, what the first get asks for is fixed.
MCAsks == [g \in Gets |-> IF g = g1 THEN {guests} ELSE Queries]

\* Two turns while one query is asked for, one when both are.
MCMaxTurns == [asked \in SUBSET Queries |-> IF asked = Queries THEN 1 ELSE 2]
=============================================================================
