---------------------------- MODULE MCScheduler ----------------------------
(***************************************************************************)
(* Instances of the scheduler for TLC.  PCs and quanta are scaled down     *)
(* together: as in the program, the quantum of level 0 is shorter than     *)
(* most processes and that of the last level outlasts a process.           *)
(***************************************************************************)
EXTENDS SchedulerProps

(* A process that terminates at its first wrap and requests I/O only when  *)
(* it resumes at PC 0, one that never terminates, and one that terminates  *)
(* at its second wrap and requests I/O at two PCs.                         *)
MixedImages ==
  { [max_pc |-> 2, terminate |-> 1, traps |-> {0}],
    [max_pc |-> 3, terminate |-> 0, traps |-> {1}],
    [max_pc |-> 4, terminate |-> 2, traps |-> {0, 3}] }

(* A process bound by I/O and one bound by the CPU, neither of which ever  *)
(* terminates: what starves one of them starves it forever.                *)
EndlessImages ==
  { [max_pc |-> 2, terminate |-> 0, traps |-> {1}],
    [max_pc |-> 4, terminate |-> 0, traps |-> {}] }
=============================================================================
