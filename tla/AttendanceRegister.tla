------------------------- MODULE AttendanceRegister -------------------------
(***************************************************************************)
(* What the attendance of one event promises, with no devices, caches or   *)
(* queues: a list that its users join and leave one at a time while the    *)
(* event exists, and that only the administrator empties, by publishing    *)
(* the event again or by withdrawing it.                                   *)
(***************************************************************************)
CONSTANT Users

VARIABLE event

Doc == [exists : BOOLEAN, attending : SUBSET Users]

NoDoc == [exists |-> FALSE, attending |-> {}]

NewDoc == [exists |-> TRUE, attending |-> {}]

Init == event \in {e \in Doc : e.exists}

Join(u) ==
    /\ event.exists
    /\ event' = [event EXCEPT !.attending = @ \cup {u}]

Leave(u) ==
    /\ event.exists
    /\ event' = [event EXCEPT !.attending = @ \ {u}]

Publish == event' = NewDoc

Withdraw == event' = NoDoc

Next == Publish \/ Withdraw \/ \E u \in Users : Join(u) \/ Leave(u)

Spec == Init /\ [][Next]_event
=============================================================================
