------------------------------ MODULE MCOsLoop ------------------------------
(***************************************************************************)
(* Instances of the loop variant for TLC, on the scale of MCScheduler.     *)
(***************************************************************************)
EXTENDS OsLoop

(* A process bound by the CPU that terminates at its first wrap, one that  *)
(* never terminates and requests I/O early, and one that terminates at its *)
(* second wrap and requests I/O at two PCs.                                *)
LoopImages ==
  { [max_pc |-> 2, terminate |-> 1, traps |-> {}],
    [max_pc |-> 3, terminate |-> 0, traps |-> {1}],
    [max_pc |-> 4, terminate |-> 2, traps |-> {1, 3}] }
=============================================================================
