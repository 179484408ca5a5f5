---------------------------- MODULE MCUserAccount ----------------------------
(***************************************************************************)
(* UserAccount for TLC: two accounts can be created with two emails and    *)
(* two passwords, which no definition tells apart.                         *)
(***************************************************************************)
EXTENDS UserAccount

CONSTANTS old, new, mouse, secret, smile

Interchangeable == Permutations({old, new}) \cup Permutations({mouse, secret})
=============================================================================
