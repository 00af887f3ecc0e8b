----------------------------- MODULE MCTeardown -----------------------------
(***************************************************************************)
(* An instance of the teardown for TLC.  Addresses of nodes and PCBs are   *)
(* interchangeable.                                                        *)
(***************************************************************************)
EXTENDS Teardown, TLC

Addresses == Permutations(Node) \cup Permutations(PCB)
=============================================================================
