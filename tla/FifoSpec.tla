------------------------------ MODULE FifoSpec ------------------------------
(* What include/Tuix/queue.h promises: a queue of nodes, first in first out. *)
(* `ret' is what the last call returned.                                     *)
EXTENDS Sequences

CONSTANTS Nodes, NULL

VARIABLES q, ret

Member(n) == \E i \in DOMAIN q : q[i] = n

Init == q = <<>> /\ ret = NULL

Enqueue(n) == ~Member(n) /\ q' = Append(q, n) /\ ret' = NULL

Dequeue ==
    \/ q = <<>> /\ ret' = NULL /\ UNCHANGED q
    \/ q # <<>> /\ ret' = Head(q) /\ q' = Tail(q)

Peek  == ret' = (IF q = <<>> THEN NULL ELSE Head(q)) /\ UNCHANGED q
Empty == ret' = (q = <<>>) /\ UNCHANGED q
Clear == q' = <<>> /\ ret' = NULL

Next == (\E n \in Nodes : Enqueue(n)) \/ Dequeue \/ Peek \/ Empty \/ Clear

Spec == Init /\ [][Next]_<<q, ret>>
=============================================================================
