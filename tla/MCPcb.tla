-------------------------------- MODULE MCPcb --------------------------------
(***************************************************************************)
(* An instance of PCB_create for TLC.  Stale words are 0, PCs a new trap   *)
(* can collide with, and a PC above the smallest max_pc.                   *)
(***************************************************************************)
EXTENDS Pcb

SomeWords == {0, 1, 2}
=============================================================================
