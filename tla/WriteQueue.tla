----------------------------- MODULE WriteQueue -----------------------------
(***************************************************************************)
(* What the Firestore client promises of a queue of writes: they are       *)
(* answered in the order they were queued, nothing is executed after a     *)
(* refused write until the client has learnt of the refusal, and a write   *)
(* leaves the queue only at its front and only with its answer. Answers    *)
(* that have not reached the client may be lost; the writes then wait for  *)
(* an answer again.                                                        *)
(*                                                                         *)
(* pending    per client, the writes in the queue                          *)
(* answers    per client, what the server said of a prefix of pending      *)
(***************************************************************************)
EXTENDS Naturals, Sequences

CONSTANTS Clients, Writes

VARIABLES pending, answers

Answers == {"ok", "refused"}

Init ==
    /\ pending = [c \in Clients |-> <<>>]
    /\ answers = [c \in Clients |-> <<>>]

Enqueue(c) ==
    /\ \E w \in Writes : pending' = [pending EXCEPT ![c] = Append(@, w)]
    /\ UNCHANGED answers

Answer(c) ==
    /\ Len(answers[c]) < Len(pending[c])
    /\ \A i \in 1 .. Len(answers[c]) : answers[c][i] # "refused"
    /\ \E a \in Answers : answers' = [answers EXCEPT ![c] = Append(@, a)]
    /\ UNCHANGED pending

Resolve(c) ==
    /\ answers[c] # <<>>
    /\ pending' = [pending EXCEPT ![c] = Tail(@)]
    /\ answers' = [answers EXCEPT ![c] = Tail(@)]

Lose(c) ==
    /\ \E n \in 0 .. Len(answers[c]) :
        answers' = [answers EXCEPT ![c] = SubSeq(@, 1, n)]
    /\ UNCHANGED pending

Next == \E c \in Clients : Enqueue(c) \/ Answer(c) \/ Resolve(c) \/ Lose(c)

Spec == Init /\ [][Next]_<<pending, answers>>
=============================================================================
