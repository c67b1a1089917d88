------------------------------- MODULE Queue -------------------------------
(***************************************************************************)
(* The linked queue of kernel/sys/queue.c: head, tail and a link per node. *)
(* Callers (there are none at this commit) pass valid pointers and enqueue *)
(* a node only while it is in no queue; its link may hold anything.        *)
(***************************************************************************)
EXTENDS Naturals, FiniteSets, Sequences

CONSTANTS Nodes, NULL

ASSUME NodesAssumption == IsFiniteSet(Nodes) /\ NULL \notin Nodes

VARIABLES head, tail,
          next,     \* node.next, for every node there is
          ret       \* what the last call returned

queueVars == <<head, tail, next, ret>>

(* The nodes from head along the links. *)
Walk[k \in 0..Cardinality(Nodes)] ==
    IF k = 0 THEN head
    ELSE IF Walk[k - 1] = NULL THEN NULL ELSE next[Walk[k - 1]]
Length   == Cardinality({k \in 0..(Cardinality(Nodes) - 1) : Walk[k] # NULL})
Contents == [k \in 1..Length |-> Walk[k - 1]]

Queued(n) == \E k \in DOMAIN Contents : Contents[k] = n

(* A queue that queue_init has been called on; next may hold anything. *)
QueueInit(links) ==
    /\ head = NULL
    /\ tail = NULL
    /\ next \in links
    /\ ret = NULL

Enqueue(n) ==
    /\ ~Queued(n)
    /\ IF tail = NULL
       THEN head' = n /\ next' = [next EXCEPT ![n] = NULL]
       ELSE next' = [next EXCEPT ![n] = NULL, ![tail] = n] /\ UNCHANGED head
    /\ tail' = n
    /\ ret' = NULL

DequeueNone ==
    /\ head = NULL
    /\ ret' = NULL
    /\ UNCHANGED <<head, tail, next>>

(* Seeded fault: tail does not follow when the last node leaves. *)
DequeueKeepsTail ==
    /\ head # NULL
    /\ ret' = head
    /\ head' = next[head]
    /\ next' = [next EXCEPT ![head] = NULL]
    /\ UNCHANGED tail

Dequeue ==
    /\ head # NULL
    /\ ret' = head
    /\ head' = next[head]
    /\ next' = [next EXCEPT ![head] = NULL]
    /\ tail' = IF head' = NULL THEN NULL ELSE tail

queue_empty == head = NULL

QueueEmpty     == ret' = queue_empty /\ UNCHANGED <<head, tail, next>>
QueuePeek      == ret' = (IF queue_empty THEN NULL ELSE head) /\ UNCHANGED <<head, tail, next>>
CheckQueueInit == ret' = (head = NULL /\ tail = NULL) /\ UNCHANGED <<head, tail, next>>

QueueReset == head' = NULL /\ tail' = NULL /\ ret' = NULL /\ UNCHANGED next

QueueNext ==
    \/ \E n \in Nodes : Enqueue(n)
    \/ DequeueNone \/ Dequeue
    \/ QueueEmpty \/ QueuePeek \/ CheckQueueInit
    \/ QueueReset

QueueSpec == QueueInit([Nodes -> Nodes \cup {NULL}]) /\ [][QueueNext]_queueVars

-----------------------------------------------------------------------------
(* Through head, tail and the links the calls behave like a sequence of    *)
(* nodes, whatever the links of nodes outside it hold; check_queue_init,   *)
(* which also looks at tail, agrees with queue_empty.                      *)
Fifo == INSTANCE FifoSpec WITH q <- Contents
QueueIsFifo == Fifo!Spec
=============================================================================
