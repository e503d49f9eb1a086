---------------------------- MODULE MCSerialPoll ----------------------------
(* Small instances of SerialPoll. *)
EXTENDS SerialPoll

CONSTANTS t1, t2

One == {t1}
Two == {t1, t2}
Other == {t2}
MCPrio == [t \in Threads |-> 1]
=============================================================================
