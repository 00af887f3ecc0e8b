---------------------------- MODULE LinkedQueues ----------------------------
(***************************************************************************)
(* The queues of the scheduler on linked lists: priority_queue.c, the      *)
(* splice of resetMLFQ and the loop that empties the killed queue, and the *)
(* handlers of scheduler.c that call them.  The allocation of a node or of *)
(* a PCB may fail.  When interrupts come is left open; module Scheduler    *)
(* has the timing.  The module implements AbstractQueues.                  *)
(***************************************************************************)
EXTENDS FifoQueue

CONSTANTS
  NUM_PRIORITIES,       \* pcb.h: number of levels
  MIN_PRIORITY_JUMP,    \* priority_queue.c: quantum of level 0
  PRIORITY_JUMP_EXTRA,  \* priority_queue.c: quantum of level i > 0 is i times this
  PCB,                  \* processes that can be created
  TOTAL_TERMINATED      \* scheduler.h: size at which the killed queue is emptied

ASSUME LinkedQueuesAssumption ==
  /\ NUM_PRIORITIES \in Nat \ {0}
  /\ MIN_PRIORITY_JUMP \in Nat
  /\ PRIORITY_JUMP_EXTRA \in Nat
  /\ TOTAL_TERMINATED \in Nat \ {0}
  /\ NULL \notin PCB \cup Int

Level == 0 .. NUM_PRIORITIES - 1

(* The queues of the scheduler: the levels, then the three FIFO queues.    *)
created == NUM_PRIORITIES
blocked == NUM_PRIORITIES + 1
killed  == NUM_PRIORITIES + 2
Queue   == Level \cup {created, blocked, killed}

VARIABLES
  phase,             \* "loop"; "create", "admit" within makePCBList; "crashed"
  memory,            \* the lists, as in FifoQueue
  priority,          \* the field of each PCB
  running, isNew, currQuantumSize,
  alive,             \* PCBs created and not yet released
  mallocFailed       \* history: an allocation has failed

vars == << phase, memory, priority, running, isNew, currQuantumSize, alive, mallocFailed >>

-----------------------------------------------------------------------------
(* priority_queue.c.                                                       *)

(* pq_create gives every level its quantum; the other queues have none.    *)
QuantumSize(q) ==
  IF q \notin Level THEN 0
  ELSE IF q = 0 THEN MIN_PRIORITY_JUMP ELSE q * PRIORITY_JUMP_EXTRA

pq_is_empty(m) == \A l \in Level : q_is_empty(m, l)

(* The level at which the scans from level 0 stop.                         *)
FirstLevel(m) ==
  CHOOSE l \in Level : ~q_is_empty(m, l) /\ \A k \in 0 .. l - 1 : q_is_empty(m, k)

pq_peek(m) == IF pq_is_empty(m) THEN NULL ELSE q_peek(m, FirstLevel(m))

pq_dequeue(m) == IF pq_is_empty(m) THEN m ELSE q_dequeue(m, FirstLevel(m))

getNextQuantumSize(m) ==
  IF pq_is_empty(m) THEN 0 ELSE m.quantum_size[FirstLevel(m)]

-----------------------------------------------------------------------------
(* resetMLFQ.  The accumulator holds the lists, the priorities and whether *)
(* no level had to be merged so far.                                       *)

(* last_node of level 0 would be left on the old last node.                *)
MutantSplice(m, l) ==
  IF ~q_is_empty(m, 0)
  THEN [m EXCEPT !.next[m.last_node[0]] = m.first_node[l],
                 !.size[0] = @ + m.size[l]]
  ELSE [m EXCEPT !.first_node[0] = m.first_node[l],
                 !.last_node[0] = m.last_node[l],
                 !.size[0] = m.size[l]]

(* The chain of level l is hung behind level 0, or becomes it.             *)
Splice(m, l) ==
  IF ~q_is_empty(m, 0)
  THEN [m EXCEPT !.next[m.last_node[0]] = m.first_node[l],
                 !.last_node[0] = m.last_node[l],
                 !.size[0] = @ + m.size[l]]
  ELSE [m EXCEPT !.first_node[0] = m.first_node[l],
                 !.last_node[0] = m.last_node[l],
                 !.size[0] = m.size[l]]

(* A level that is not cut off would share its nodes with level 0.         *)
MutantEmptied(m, l) == [m EXCEPT !.last_node[l] = NULL, !.size[l] = 0]

(* resetReadyQueue walks the chain of l, which by now is part of level 0.  *)
Emptied(m, l) ==
  [m EXCEPT !.first_node[l] = NULL, !.last_node[l] = NULL, !.size[l] = 0]

MergeLevel(acc, l) ==
  IF q_is_empty(acc.memory, l) THEN acc
  ELSE LET spliced == Splice(acc.memory, l) IN
       [ memory   |-> Emptied(spliced, l),
         priority |-> [p \in PCB |-> IF p \in Range(Contents(spliced, l))
                                     THEN 0 ELSE acc.priority[p]],
         allEmpty |-> acc.allEmpty /\ q_is_empty(acc.memory, 0) ]

resetMLFQ(m, prio) ==
  LET after[l \in Level] ==
        IF l = 0 THEN [memory |-> m, priority |-> prio, allEmpty |-> TRUE]
        ELSE MergeLevel(after[l - 1], l)
  IN after[NUM_PRIORITIES - 1]

-----------------------------------------------------------------------------
(* A loop that also releases the PCB dequeued before the last one.         *)
MutantReapOne(acc) ==
  IF q_is_empty(acc.memory, killed) THEN acc
  ELSE [ memory   |-> q_dequeue(acc.memory, killed),
         toKill   |-> q_peek(acc.memory, killed),
         released |-> acc.released \cup {acc.toKill} ]

(* The loop of scheduling that empties the killed queue: dequeue a PCB     *)
(* into toKill, then release the one before it while more than one is left.*)
ReapOne(acc) ==
  IF q_is_empty(acc.memory, killed) THEN acc
  ELSE [ memory   |-> q_dequeue(acc.memory, killed),
         toKill   |-> q_peek(acc.memory, killed),
         released |-> IF acc.memory.size[killed] > 1
                      THEN acc.released \cup {acc.toKill} ELSE acc.released ]

EmptyKilled(m) ==
  LET first == [ memory   |-> q_dequeue(m, killed),
                 toKill   |-> q_peek(m, killed),
                 released |-> {} ]
      after[k \in 0 .. Cardinality(Node)] ==
        IF k = 0 THEN first ELSE ReapOne(after[k - 1])
  IN IF q_is_empty(first.memory, killed)
     THEN [first EXCEPT !.released = {first.toKill}]
     ELSE after[Cardinality(Node)]

KilledFull(m) == m.size[killed] >= TOTAL_TERMINATED

-----------------------------------------------------------------------------
Init ==
  /\ phase = "loop"
  /\ memory = q_create(Queue, [q \in Queue |-> QuantumSize(q)])
  /\ priority = [p \in PCB |-> 0]
  /\ running = NULL
  /\ isNew = TRUE
  /\ currQuantumSize = 0
  /\ alive = {}
  /\ mallocFailed = FALSE

NoteFailure(address) == mallocFailed' = (mallocFailed \/ address = NULL)

(* scheduling and dispatcher, on the lists m a handler has left.           *)
Dispatch(m) ==
  /\ running' = pq_peek(m)
  /\ memory' = pq_dequeue(m)
  /\ currQuantumSize' = IF pq_is_empty(m) THEN currQuantumSize ELSE getNextQuantumSize(m)

MutantDemoted(l) == IF l <= NUM_PRIORITIES - 1 THEN l + 1 ELSE 0

Demoted(l) == IF l < NUM_PRIORITIES - 1 THEN l + 1 ELSE 0

(* makePCBList creates at least one PCB (a round of none changes nothing): *)
(* the new PCBs wait in created until all of them exist.                   *)
CreatePCB(p) ==
  /\ phase \in {"loop", "create"}
  /\ p \notin alive
  /\ phase' = "create"
  /\ alive' = alive \cup {p}
  /\ priority' = [priority EXCEPT ![p] = 0]
  /\ \E new_node \in malloc(memory) :
       /\ memory' = q_enqueue(memory, created, p, new_node)
       /\ NoteFailure(new_node)
  /\ UNCHANGED << running, isNew, currQuantumSize >>

(* makePCBList writes to the PCB it got, whether it got one or not.        *)
CreateFails ==
  /\ phase \in {"loop", "create"}
  /\ phase' = "crashed"
  /\ NoteFailure(NULL)
  /\ UNCHANGED << memory, priority, running, isNew, currQuantumSize, alive >>

AdmitPCB ==
  LET nextPCB == q_peek(memory, created)
      rest    == q_dequeue(memory, created)
  IN
  /\ phase \in {"create", "admit"}
  /\ ~q_is_empty(memory, created)
  /\ phase' = "admit"
  /\ \E new_node \in malloc(rest) :
       /\ memory' = q_enqueue(rest, priority[nextPCB], nextPCB, new_node)
       /\ NoteFailure(new_node)
  /\ UNCHANGED << priority, running, isNew, currQuantumSize, alive >>

(* The round that finds isNew set puts the first process on the CPU; if no *)
(* PCB got into the MLFQ, it follows a null pointer.                       *)
EndRound ==
  /\ phase \in {"create", "admit"}
  /\ q_is_empty(memory, created)
  /\ \/ /\ ~isNew
        /\ phase' = "loop"
        /\ UNCHANGED << memory, running, isNew, currQuantumSize >>
     \/ /\ isNew
        /\ phase' = IF pq_is_empty(memory) THEN "crashed" ELSE "loop"
        /\ isNew' = FALSE
        /\ running' = pq_peek(memory)
        /\ memory' = pq_dequeue(memory)
        /\ currQuantumSize' = memory.quantum_size[0]
  /\ UNCHANGED << priority, alive, mallocFailed >>

(* osLoop checks the dispatched process for a trap without a test for null.*)
TimerInterrupt ==
  LET level == Demoted(priority[running]) IN
  /\ phase = "loop"
  /\ running # NULL
  /\ priority' = [priority EXCEPT ![running] = level]
  /\ \E new_node \in malloc(memory) :
       LET m == q_enqueue(memory, level, running, new_node) IN
       /\ Dispatch(m)
       /\ NoteFailure(new_node)
       /\ phase' = IF pq_is_empty(m) THEN "crashed" ELSE "loop"
  /\ UNCHANGED << isNew, alive >>

IoTrap ==
  /\ phase = "loop"
  /\ running # NULL
  /\ \E new_node \in malloc(memory) :
       /\ Dispatch(q_enqueue(memory, blocked, running, new_node))
       /\ NoteFailure(new_node)
  /\ UNCHANGED << phase, priority, isNew, alive >>

IoInterrupt ==
  LET woken == q_peek(memory, blocked)
      rest  == q_dequeue(memory, blocked)
  IN
  /\ phase = "loop"
  /\ ~q_is_empty(memory, blocked)
  /\ \E new_node \in malloc(rest) :
       /\ memory' = q_enqueue(rest, priority[woken], woken, new_node)
       /\ NoteFailure(new_node)
  /\ UNCHANGED << phase, priority, running, isNew, currQuantumSize, alive >>

Terminate ==
  /\ phase = "loop"
  /\ running # NULL
  /\ \E new_node \in malloc(memory) :
       LET m == q_enqueue(memory, killed, running, new_node)
           emptied == EmptyKilled(m)
       IN
       /\ NoteFailure(new_node)
       /\ \/ /\ KilledFull(m)
             /\ Dispatch(emptied.memory)
             /\ alive' = alive \ emptied.released
          \/ /\ ~KilledFull(m)
             /\ Dispatch(m)
             /\ UNCHANGED alive
  /\ UNCHANGED << phase, priority, isNew >>

Reset ==
  LET result == resetMLFQ(memory, priority) IN
  /\ phase = "loop"
  /\ memory' = result.memory
  /\ priority' = result.priority
  /\ isNew' = (isNew \/ result.allEmpty)
  /\ UNCHANGED << phase, running, currQuantumSize, alive, mallocFailed >>

(* The process has died of a null pointer.                                 *)
Crashed == phase = "crashed" /\ UNCHANGED vars

Next ==
  \/ \E p \in PCB : CreatePCB(p)
  \/ CreateFails \/ AdmitPCB \/ EndRound
  \/ TimerInterrupt \/ IoTrap \/ IoInterrupt \/ Terminate \/ Reset
  \/ Crashed

Spec == Init /\ [][Next]_vars

-----------------------------------------------------------------------------
(* Properties.                                                             *)

(* Type invariant of the lists and of the fields of struct scheduler.      *)
TypeOK ==
  /\ phase \in {"loop", "create", "admit", "crashed"}
  /\ memory \in [ first_node : [Queue -> Node \cup {NULL}],
                 last_node : [Queue -> Node \cup {NULL}],
                 size : [Queue -> Nat],
                 quantum_size : [Queue -> Nat],
                 next : [Node -> Node \cup {NULL}],
                 pcb : [Node -> PCB \cup {NULL}],
                 allocated : SUBSET Node ]
  /\ priority \in [PCB -> Level]
  /\ running \in PCB \cup {NULL}
  /\ isNew \in BOOLEAN
  /\ currQuantumSize \in Nat
  /\ alive \subseteq PCB
  /\ mallocFailed \in BOOLEAN

(* On every queue the chain from first_node ends, at last_node, and size   *)
(* is its length: q_enqueue and resetMLFQ write through last_node, which   *)
(* the final dequeue and the splice must have kept up to date.             *)
WellLinked ==
  \A q \in Queue :
    LET chain == Chain(memory, q) IN
    /\ memory.size[q] = Len(chain)
    /\ IF chain = << >> THEN memory.last_node[q] = NULL
       ELSE /\ memory.last_node[q] = chain[Len(chain)]
            /\ memory.next[memory.last_node[q]] = NULL

(* Every node that malloc gave out and free did not take back is on        *)
(* exactly one queue, once, and no queue holds a freed node: q_enqueue,    *)
(* q_dequeue and the splice neither leak nodes nor share them.             *)
NodesAccounted ==
  /\ UNION {Range(Chain(memory, q)) : q \in Queue} = memory.allocated
  /\ \A q, r \in Queue :
       \A i \in DOMAIN Chain(memory, q), j \in DOMAIN Chain(memory, r) :
         Chain(memory, q)[i] = Chain(memory, r)[j] => q = r /\ i = j

(* The program follows a null pointer only after an allocation failed: as  *)
(* long as memory lasts, every PCB has memory, a round on an empty system  *)
(* leaves a process to run and a preempted process is found again, however *)
(* the lists were spliced and emptied before.                              *)
NoCrashWithoutFailure == phase = "crashed" => mallocFailed

(* The lists implement the sequences: every handler of scheduler.c does to *)
(* the PCBs on the lists what AbstractQueues says, the splice of resetMLFQ *)
(* and the loop that empties the killed queue included.                    *)
Abstract == INSTANCE AbstractQueues WITH
  created <- Contents(memory, created),
  ready   <- [l \in Level |-> Contents(memory, l)],
  blocked <- Contents(memory, blocked),
  killed  <- Contents(memory, killed)

ImplementsAbstract == Abstract!Spec
=============================================================================
