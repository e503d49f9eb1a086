------------------------------- MODULE MCTimer -------------------------------
(* Small instances of Timer. *)
EXTENDS Timer, TLC

CONSTANTS a, b, c

TwoTimers == {a, b}
ThreeTimers == {a, b, c}
MCSymmetry == Permutations(ThreeTimers)

(* States that differ only in the timeout_tick of timers that are neither  *)
(* in the list nor about to join it are the same: it is set before it is   *)
(* read again.                                                             *)
MCView ==
    <<tick, irq, list, active, periodic, init_tick, pc, loaded, due,
      [t \in Timers |-> IF t \in ToSet(list) \/ pc[t] = "deadline"
                        THEN timeout_tick[t] ELSE 0]>>
=============================================================================
