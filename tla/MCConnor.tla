------------------------------ MODULE MCConnor ------------------------------
(***************************************************************************)
(* An instance of the alternative scheduler for TLC.                       *)
(***************************************************************************)
EXTENDS SchedulerConnor

(* A process that requests I/O in every round of its program and           *)
(* terminates at its second wrap: time enough to be queued twice.          *)
ConnorImages == { [max_pc |-> 3, terminate |-> 2, traps |-> {1}] }
=============================================================================
