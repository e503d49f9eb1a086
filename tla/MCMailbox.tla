------------------------------ MODULE MCMailbox ------------------------------
(* Small instances of Mailbox: two senders, two receivers, two words. *)
EXTENDS Mailbox, TLC

CONSTANTS s1, s2, r1, r2, a, b

MCSenders == {s1, s2}
MCReceivers == {r1, r2}
MCThreads == MCSenders \cup MCReceivers
MCPrio == [t \in MCThreads |-> 1]
MCSymmetry ==
    Permutations(MCSenders) \cup Permutations(MCReceivers) \cup Permutations({a, b})

(* error, left and arg of a thread that is in no call are set before they  *)
(* are read again, and so are the words of an empty mailbox: states that   *)
(* differ only there are the same.                                         *)
MCView ==
    <<stat, timer, entry, in_offset, out_offset, suspend_thread,
      suspend_sender_thread, pc, got, obj, wild, IF entry = 0 THEN <<>> ELSE msg_pool,
      [t \in Threads |-> IF pc[t] = "idle" THEN <<>> ELSE <<error[t], left[t]>>],
      [t \in Senders |-> IF pc[t] = "idle" THEN NoValue ELSE arg[t]]>>
=============================================================================
