------------------------------ MODULE IpcObject ------------------------------
(***************************************************************************)
(* The end of an IPC object (rt-thread/src/ipc.c): rt_xxx_detach and       *)
(* rt_xxx_delete flush its suspend lists with rt_ipc_list_resume_all and   *)
(* then give the object up.                                                *)
(*                                                                         *)
(* The loop of rt_ipc_list_resume_all tests a list with interrupts         *)
(* enabled, disables them, and takes list->next without testing again.     *)
(* Calls that begin on an object that is going away are the application's  *)
(* mistake; threads that are inside a call already are the kernel's        *)
(* business.                                                               *)
(***************************************************************************)
EXTENDS ThreadCore

VARIABLES
    obj,     \* "live", "gone", or where a detach is
    wild     \* rt_thread_resume was given the list head as a thread

objVars == <<obj, wild>>

ObjInit == obj = "live" /\ wild = FALSE

(* A call may begin. *)
Usable == ~wild /\ obj = "live"

(* The detach goes from one point to the next. *)
Detach(from, to) == ~wild /\ obj = from /\ obj' = to

(* The body of the loop of rt_ipc_list_resume_all. *)
FlushFirst(list) ==
    IF list = <<>>
    THEN wild' = TRUE /\ UNCHANGED threadVars     \* list->next is the list itself
    ELSE ResumeWithError(Head(list)) /\ UNCHANGED wild

(* What the body leaves of the list. *)
Flushed(list) == IF list = <<>> THEN list ELSE Tail(list)
=============================================================================
