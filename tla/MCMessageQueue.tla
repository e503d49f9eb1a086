---------------------------- MODULE MCMessageQueue ----------------------------
(* Small instances of MessageQueue: two senders and two receivers. *)
EXTENDS MessageQueue, TLC

CONSTANTS r1, r2, s1, s2, a, b

MCReceivers == {r1, r2}
MCPrio == [r \in MCReceivers |-> 1]
MCSymmetry ==
    Permutations(MCReceivers) \cup Permutations({s1, s2}) \cup Permutations({a, b})

(* States that differ only in the body of nodes that will be written       *)
(* before they are read, or in the error of receivers that do not wait,    *)
(* are the same.                                                           *)
Readable ==
    ToSet(Chain(next, msg_queue_head)) \cup {msg[s] : s \in {x \in Senders : pc[x] = "link"}}
        \cup {msg[r] : r \in {x \in Receivers : pc[x] = "copy"}}
MCView ==
    <<stat, timer, next, msg_queue_head, msg_queue_tail, msg_queue_free, entry,
      suspend_thread, pc, msg, arg, left, got, obj, wild,
      [n \in Nodes |-> IF n \in Readable THEN body[n] ELSE NoValue],
      [r \in Receivers |-> IF pc[r] = "wait" THEN error[r] ELSE "EOK"]>>
=============================================================================
