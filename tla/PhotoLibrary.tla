---------------------------- MODULE PhotoLibrary ----------------------------
(***************************************************************************)
(* What the gallery's documents promise to those who list them: a photo is *)
(* listed as soon as one of its files has a URL, gains the other URL later *)
(* if at all, and loses them only together, when it is deleted.            *)
(*                                                                         *)
(* entry      per photo, its files whose URL the document holds; a photo   *)
(*            with none has no document                                    *)
(***************************************************************************)
CONSTANT Photos

VARIABLE entry

Halves == {"thumbnail", "photo"}

Entries == [Photos -> SUBSET Halves]

Empty == entry = [p \in Photos |-> {}]

\* A save of the document keeps the URLs it has.
Save(p, halves) ==
    /\ halves # {} /\ entry[p] \subseteq halves
    /\ entry' = [entry EXCEPT ![p] = halves]

Delete(p) == entry' = [entry EXCEPT ![p] = {}]

Next == \E p \in Photos :
            Delete(p) \/ \E halves \in SUBSET Halves : Save(p, halves)

Spec == Empty /\ [][Next]_entry
=============================================================================
