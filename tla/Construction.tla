----------------------------- MODULE Construction -----------------------------
(***************************************************************************)
(* schedulerConstructor of scheduler.c with the q_create and pq_create it  *)
(* calls, when every malloc may fail.  A pointer is NULL or the name of    *)
(* the block it points to, a tuple; "at" is the point the construction has *)
(* reached.                                                                *)
(***************************************************************************)
EXTENDS Integers, FiniteSets

CONSTANTS
  NUM_PRIORITIES,       \* pcb.h: number of levels
  MIN_PRIORITY_JUMP,    \* priority_queue.c: quantum of level 0
  PRIORITY_JUMP_EXTRA,  \* priority_queue.c: quantum of level i > 0 is i times this
  NULL

ASSUME ConstructionAssumption ==
  /\ NUM_PRIORITIES \in Nat \ {0}
  /\ MIN_PRIORITY_JUMP \in Nat
  /\ PRIORITY_JUMP_EXTRA \in Nat
  /\ NULL # << "ready" >>
  /\ \A l \in 0 .. NUM_PRIORITIES - 1 : NULL # << "level", l >>

Level == 0 .. NUM_PRIORITIES - 1

VARIABLES
  at,                         \* control point
  created, killed, blocked,   \* pointers of the scheduler
  ready,                      \* new_pq, and the scheduler's pointer to it
  queues,                     \* new_pq->queues: NULL or the queue, by level
  quantum_size,               \* the field of each level's queue
  i, failed,                  \* locals of pq_create
  allocated                   \* blocks obtained from malloc and not freed

vars == << at, created, killed, blocked, ready, queues, quantum_size, i, failed, allocated >>

Init ==
  /\ at = "scheduler"
  /\ created = NULL /\ killed = NULL /\ blocked = NULL /\ ready = NULL
  /\ queues = [l \in Level |-> NULL]
  /\ quantum_size = [l \in Level |-> 0]
  /\ i = 0
  /\ failed = -1
  /\ allocated = {}

-----------------------------------------------------------------------------
(* malloc for a block, whose pointer then is ptr.                          *)
Allocate(block, ptr) ==
  \/ ptr = block /\ allocated' = allocated \cup {block}
  \/ ptr = NULL /\ UNCHANGED allocated

(* The scheduler itself: its fields are written without a test for null.   *)
AllocateScheduler ==
  /\ at = "scheduler"
  /\ \E ptr \in {<< "scheduler" >>, NULL} :
       /\ Allocate(<< "scheduler" >>, ptr)
       /\ at' = IF ptr = NULL THEN "constructor_crashed" ELSE "created"
  /\ UNCHANGED << created, killed, blocked, ready, queues, quantum_size, i, failed >>

(* q_create, three times; the result is stored as it is.                   *)
CreateCreated ==
  /\ at = "created"
  /\ at' = "killed"
  /\ created' \in {<< "created" >>, NULL}
  /\ Allocate(<< "created" >>, created')
  /\ UNCHANGED << killed, blocked, ready, queues, quantum_size, i, failed >>

CreateKilled ==
  /\ at = "killed"
  /\ at' = "blocked"
  /\ killed' \in {<< "killed" >>, NULL}
  /\ Allocate(<< "killed" >>, killed')
  /\ UNCHANGED << created, blocked, ready, queues, quantum_size, i, failed >>

CreateBlocked ==
  /\ at = "blocked"
  /\ at' = "ready"
  /\ blocked' \in {<< "blocked" >>, NULL}
  /\ Allocate(<< "blocked" >>, blocked')
  /\ UNCHANGED << created, killed, ready, queues, quantum_size, i, failed >>

-----------------------------------------------------------------------------
(* pq_create.                                                              *)
AllocatePq ==
  /\ at = "ready"
  /\ ready' \in {<< "ready" >>, NULL}
  /\ Allocate(<< "ready" >>, ready')
  /\ at' = IF ready' = NULL THEN "constructed" ELSE "levels"
  /\ UNCHANGED << created, killed, blocked, queues, quantum_size, i, failed >>

QuantumSize(l) == IF l = 0 THEN MIN_PRIORITY_JUMP ELSE l * PRIORITY_JUMP_EXTRA

(* The next level, with its quantum.                                       *)
CreateLevel ==
  /\ at = "levels"
  /\ i < NUM_PRIORITIES
  /\ queues' = [queues EXCEPT ![i] = << "level", i >>]
  /\ allocated' = allocated \cup {<< "level", i >>}
  /\ quantum_size' = [quantum_size EXCEPT ![i] = QuantumSize(i)]
  /\ i' = i + 1
  /\ UNCHANGED << at, created, killed, blocked, ready, failed >>

(* A level that cannot be created could be passed over.                    *)
MutantLevelFails ==
  /\ at = "levels"
  /\ i < NUM_PRIORITIES
  /\ i' = i + 1
  /\ UNCHANGED << at, created, killed, blocked, ready, queues, quantum_size, failed, allocated >>

(* A level that cannot be created ends the loop.                           *)
LevelFails ==
  /\ at = "levels"
  /\ i < NUM_PRIORITIES
  /\ failed' = i
  /\ i' = 0
  /\ at' = "cleanup"
  /\ UNCHANGED << created, killed, blocked, ready, queues, quantum_size, allocated >>

LevelsDone ==
  /\ at = "levels"
  /\ i = NUM_PRIORITIES
  /\ i' = 0
  /\ at' = "cleanup"
  /\ UNCHANGED << created, killed, blocked, ready, queues, quantum_size, failed, allocated >>

(* Destroy the queues up to the one that failed, that one included: an     *)
(* empty queue is freed, a null pointer is followed.                       *)
DestroyLevel ==
  /\ at = "cleanup"
  /\ i <= failed
  /\ at' = IF queues[i] = NULL THEN "pq_create_crashed" ELSE "cleanup"
  /\ allocated' = allocated \ {queues[i]}
  /\ i' = i + 1
  /\ UNCHANGED << created, killed, blocked, ready, queues, quantum_size, failed >>

(* pq_create returns; on failure the priority queue would be freed.        *)
ReturnPq ==
  /\ at = "cleanup"
  /\ i > failed
  /\ ready' = IF failed # -1 THEN NULL ELSE ready
  /\ allocated' = IF failed # -1 THEN allocated \ {ready} ELSE allocated
  /\ at' = "constructed"
  /\ UNCHANGED << created, killed, blocked, queues, quantum_size, i, failed >>

(* osLoop goes on with the scheduler, or the process has died.             *)
Over ==
  /\ at \in {"constructed", "constructor_crashed", "pq_create_crashed"}
  /\ UNCHANGED vars

Next ==
  \/ AllocateScheduler \/ CreateCreated \/ CreateKilled \/ CreateBlocked
  \/ AllocatePq \/ CreateLevel \/ LevelFails \/ LevelsDone
  \/ DestroyLevel \/ ReturnPq \/ Over

Spec == Init /\ [][Next]_vars

-----------------------------------------------------------------------------
(* The constructor never hands out a priority queue that misses a level or *)
(* whose levels have been freed, whatever allocation fails: all later code *)
(* follows queues[i] and reads its quantum unchecked.                      *)
ReadyIsComplete ==
  at = "constructed" /\ ready # NULL =>
    /\ ready \in allocated
    /\ \A l \in Level :
         queues[l] # NULL /\ queues[l] \in allocated /\ quantum_size[l] = QuantumSize(l)

(* pq_create's comment (priority_queue.c:19): it returns NULL on failure.  *)
(* Its cleanup calls q_destroy on the very queue that could not be created.*)
PqCreateReturns == at # "pq_create_crashed"
=============================================================================
