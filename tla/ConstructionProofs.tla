-------------------------- MODULE ConstructionProofs --------------------------
(***************************************************************************)
(* schedulerConstructor never hands out a damaged priority queue, for any  *)
(* number of levels and whatever allocation fails.                         *)
(***************************************************************************)
EXTENDS Construction, TLAPS

(* The level l exists, is in use and has its quantum.                      *)
Whole(l) ==
  /\ queues[l] = << "level", l >>
  /\ << "level", l >> \in allocated
  /\ quantum_size[l] = QuantumSize(l)

TypeOK ==
  /\ i \in Int
  /\ failed \in Int
  /\ DOMAIN queues = Level
  /\ DOMAIN quantum_size = Level
  /\ ready \in {<< "ready" >>, NULL}

(* While the levels are created those below i are whole and none has       *)
(* failed.  In the cleanup either all are whole, or the queue that failed  *)
(* is null and still ahead: the cleanup cannot get past it.                *)
Progress ==
  /\ at = "levels" =>
       /\ ready = << "ready" >> /\ ready \in allocated
       /\ i \in 0 .. NUM_PRIORITIES /\ failed = -1
       /\ \A l \in Level : IF l < i THEN Whole(l) ELSE queues[l] = NULL
  /\ at = "cleanup" =>
       \/ /\ failed = -1 /\ i = 0
          /\ ready = << "ready" >> /\ ready \in allocated
          /\ \A l \in Level : Whole(l)
       \/ failed \in Level /\ i <= failed /\ queues[failed] = NULL
  /\ at \in {"scheduler", "created", "killed", "blocked", "ready"} =>
       i = 0 /\ failed = -1 /\ queues = [l \in Level |-> NULL]
  /\ at = "constructed" /\ ready # NULL =>
       << "ready" >> \in allocated /\ \A l \in Level : Whole(l)

IInv == TypeOK /\ Progress

(* The invariant holds initially and is kept by every step.                *)
LEMMA InitIInv == Init => IInv
  BY ConstructionAssumption DEF Init, IInv, TypeOK, Progress, Level

(* One step per action of schedulerConstructor and pq_create.              *)
LEMMA NextIInv == IInv /\ [Next]_vars => IInv'
<1> SUFFICES ASSUME IInv, [Next]_vars PROVE IInv'
  OBVIOUS
<1> USE ConstructionAssumption DEF IInv, TypeOK, Progress, Level
<1>1. CASE AllocateScheduler
  BY <1>1 DEF AllocateScheduler, Allocate
<1>2. CASE CreateCreated
  BY <1>2 DEF CreateCreated
<1>3. CASE CreateKilled
  BY <1>3 DEF CreateKilled
<1>4. CASE CreateBlocked
  BY <1>4 DEF CreateBlocked
<1>5. CASE AllocatePq
  BY <1>5 DEF AllocatePq, Allocate
<1>6. CASE CreateLevel
  <2>1. \A l \in Level : l <= i => Whole(l)'
    BY <1>6 DEF CreateLevel, Whole
  <2>2. \A l \in Level : l > i => queues'[l] = NULL
    BY <1>6 DEF CreateLevel
  <2> QED
    BY <1>6, <2>1, <2>2 DEF CreateLevel
<1>7. CASE LevelFails
  BY <1>7 DEF LevelFails
<1>8. CASE LevelsDone
  BY <1>8 DEF LevelsDone, Whole
<1>9. CASE DestroyLevel
  BY <1>9 DEF DestroyLevel
<1>10. CASE ReturnPq
  BY <1>10 DEF ReturnPq, Whole
<1>11. CASE Over \/ UNCHANGED vars
  BY <1>11 DEF Over, vars, Whole
<1> QED
  BY <1>1, <1>2, <1>3, <1>4, <1>5, <1>6, <1>7, <1>8, <1>9, <1>10, <1>11 DEF Next

(* The priority queue handed out has all its levels, with their quanta,    *)
(* and nothing of it has been freed.                                       *)
THEOREM ReadyIsCompleteAlways == Spec => []ReadyIsComplete
<1>1. IInv => ReadyIsComplete
  BY ConstructionAssumption DEF IInv, TypeOK, Progress, ReadyIsComplete, Whole, Level
<1> QED
  BY InitIInv, NextIInv, <1>1, PTL DEF Spec
=============================================================================
