-------------------------------- MODULE MLFQ --------------------------------
(***************************************************************************)
(* The multi-level feedback queue of priority_queue.c: NUM_PRIORITIES FIFO *)
(* queues, level 0 the most urgent.  A queue is a function from levels to  *)
(* sequences of PCBs; the linked lists of fifo_queue.c are abstracted to   *)
(* the sequence of the PCBs on them, head first.  The operators are pure:  *)
(* an operation that changes the queue returns the changed queue.          *)
(***************************************************************************)
EXTENDS Integers, Sequences, Functions

CONSTANTS
  NUM_PRIORITIES,       \* pcb.h: number of levels
  MIN_PRIORITY_JUMP,    \* priority_queue.c: quantum of level 0
  PRIORITY_JUMP_EXTRA,  \* priority_queue.c: quantum of level i > 0 is i times this
  NULL                  \* the null PCB pointer

ASSUME MLFQAssumption ==
  /\ NUM_PRIORITIES \in Nat \ {0}
  /\ MIN_PRIORITY_JUMP \in Nat
  /\ PRIORITY_JUMP_EXTRA \in Nat
  /\ NULL \notin Int

Level == 0 .. NUM_PRIORITIES - 1

(* pq_create gives every level its quantum once and for all.               *)
QuantumSize(i) == IF i = 0 THEN MIN_PRIORITY_JUMP ELSE i * PRIORITY_JUMP_EXTRA

pq_create == [i \in Level |-> << >>]

pq_is_empty(q) == \A i \in Level : q[i] = << >>

(* The PCBs on a queue, on any level.                                      *)
Members(q) == UNION {Range(q[i]) : i \in Level}

-----------------------------------------------------------------------------
(* A scan that runs from the last level down would find the least urgent   *)
(* PCB instead of the most urgent one.                                     *)
MutantTopLevel(q) ==
  CHOOSE i \in Level : q[i] # << >> /\ \A j \in Level : j > i => q[j] = << >>

(* The level the scans of pq_peek, pq_dequeue and getNextQuantumSize stop  *)
(* at: the first one that holds a PCB.                                     *)
TopLevel(q) ==
  CHOOSE i \in Level : q[i] # << >> /\ \A j \in Level : j < i => q[j] = << >>

-----------------------------------------------------------------------------
pq_peek(q) == IF pq_is_empty(q) THEN NULL ELSE Head(q[TopLevel(q)])

pq_dequeue(q) == IF pq_is_empty(q) THEN q ELSE [q EXCEPT ![TopLevel(q)] = Tail(@)]

(* A node linked in before the front would make each queue a stack.        *)
MutantEnqueueFront(s, p) == << p >> \o s

(* fifo_queue.c: the queue s with the PCB p at its rear.                   *)
q_enqueue(s, p) == Append(s, p)

(* A PCB that q_enqueue cannot allocate a node for is dropped silently.    *)
MutantEnqueueRefused(q, level, p) == q

(* A PCB enters the queue of the level its priority names.                 *)
pq_enqueue(q, level, p) == [q EXCEPT ![level] = q_enqueue(@, p)]

(* Every dispatched PCB would get the quantum makePCBList gives.           *)
MutantNextQuantumSize(q) == QuantumSize(0)

getNextQuantumSize(q) == IF pq_is_empty(q) THEN 0 ELSE QuantumSize(TopLevel(q))
=============================================================================
