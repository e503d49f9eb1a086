----------------------------- MODULE BoundedFifo -----------------------------
(***************************************************************************)
(* What mailboxes and message queues promise: a FIFO queue of at most Size *)
(* values, with an urgent lane where the interface has one.  got[t] is the *)
(* value the last successful receive of t delivered.                       *)
(***************************************************************************)
EXTENDS Naturals, Sequences

CONSTANTS Size, Values, Receivers, NoValue,
          Urgent    \* a value may be put in front of the others

VARIABLES queue, got

Init ==
    /\ queue = <<>>
    /\ got = [r \in Receivers |-> NoValue]

Enqueue(v) ==
    /\ Len(queue) < Size
    /\ queue' = Append(queue, v)
    /\ UNCHANGED got

EnqueueFirst(v) ==
    /\ Urgent
    /\ Len(queue) < Size
    /\ queue' = <<v>> \o queue
    /\ UNCHANGED got

Dequeue(r) ==
    /\ queue # <<>>
    /\ queue' = Tail(queue)
    /\ got' = [got EXCEPT ![r] = Head(queue)]

Clear ==
    /\ queue' = <<>>
    /\ UNCHANGED got

Next ==
    \/ \E v \in Values : Enqueue(v) \/ EnqueueFirst(v)
    \/ \E r \in Receivers : Dequeue(r)
    \/ Clear

Spec == Init /\ [][Next]_<<queue, got>>
=============================================================================
