--------------------------- MODULE AbstractQueues ---------------------------
(***************************************************************************)
(* What the scheduler needs of its queues.  The queues are sequences of    *)
(* PCBs; a handler of scheduler.c is one step on them: what it enqueues,   *)
(* what it dispatches, what a reset merges, what emptying the killed queue *)
(* releases.  When interrupts come is left open.  An enqueue may fail for  *)
(* lack of memory, and the PCB is then in no queue.                        *)
(***************************************************************************)
EXTENDS MLFQ, FiniteSets

CONSTANTS
  PCB,               \* processes that can be created
  TOTAL_TERMINATED   \* scheduler.h: size at which the killed queue is emptied

VARIABLES
  phase,             \* "loop"; "create", "admit" within makePCBList; "crashed"
  created, ready, blocked, killed, running, isNew,
  currQuantumSize,
  priority,          \* the field of each PCB
  alive              \* PCBs created and not yet released

vars == << phase, created, ready, blocked, killed, running, isNew,
           currQuantumSize, priority, alive >>

Init ==
  /\ phase = "loop"
  /\ created = << >>
  /\ ready = pq_create
  /\ blocked = << >>
  /\ killed = << >>
  /\ running = NULL
  /\ isNew = TRUE
  /\ currQuantumSize = 0
  /\ priority = [p \in PCB |-> 0]
  /\ alive = {}

-----------------------------------------------------------------------------
(* An enqueue that succeeds or finds no memory.                            *)
Enqueued(s, p) == {q_enqueue(s, p), s}
EnqueuedByPriority(q, level, p) == {pq_enqueue(q, level, p), q}

Demoted(l) == IF l < NUM_PRIORITIES - 1 THEN l + 1 ELSE 0

(* scheduling and dispatcher: the most urgent process, if any, runs next.  *)
Dispatch(q) ==
  /\ running' = pq_peek(q)
  /\ ready' = pq_dequeue(q)
  /\ currQuantumSize' = IF pq_is_empty(q) THEN currQuantumSize ELSE getNextQuantumSize(q)

(* The PCBs released when the killed queue k is emptied.                   *)
Released(k) ==
  IF Len(k) = 1 THEN Range(k) ELSE {k[i] : i \in 1 .. Len(k) - 2}

(* The levels in order, one behind the other.                              *)
Flattened(q) ==
  LET upTo[l \in Level] == IF l = 0 THEN q[0] ELSE upTo[l - 1] \o q[l]
  IN upTo[NUM_PRIORITIES - 1]

-----------------------------------------------------------------------------
(* makePCBList creates at least one PCB (a round of none changes nothing): *)
(* the new PCBs wait in created until all of them exist.                   *)
CreatePCB(p) ==
  /\ phase \in {"loop", "create"}
  /\ p \notin alive
  /\ phase' = "create"
  /\ alive' = alive \cup {p}
  /\ priority' = [priority EXCEPT ![p] = 0]
  /\ created' \in Enqueued(created, p)
  /\ UNCHANGED << ready, blocked, killed, running, isNew, currQuantumSize >>

(* makePCBList writes to the PCB it got, whether it got one or not.        *)
CreateFails ==
  /\ phase \in {"loop", "create"}
  /\ phase' = "crashed"
  /\ UNCHANGED << created, ready, blocked, killed, running, isNew,
                  currQuantumSize, priority, alive >>

AdmitPCB ==
  /\ phase \in {"create", "admit"}
  /\ created # << >>
  /\ phase' = "admit"
  /\ created' = Tail(created)
  /\ ready' \in EnqueuedByPriority(ready, priority[Head(created)], Head(created))
  /\ UNCHANGED << blocked, killed, running, isNew, currQuantumSize, priority, alive >>

(* The round that finds isNew set puts the first process on the CPU; if no *)
(* PCB got into the MLFQ, it follows a null pointer.                       *)
EndRound ==
  /\ phase \in {"create", "admit"}
  /\ created = << >>
  /\ \/ /\ ~isNew
        /\ phase' = "loop"
        /\ UNCHANGED << ready, running, isNew, currQuantumSize >>
     \/ /\ isNew
        /\ phase' = IF pq_is_empty(ready) THEN "crashed" ELSE "loop"
        /\ isNew' = FALSE
        /\ running' = pq_peek(ready)
        /\ ready' = pq_dequeue(ready)
        /\ currQuantumSize' = QuantumSize(0)
  /\ UNCHANGED << created, blocked, killed, priority, alive >>

(* osLoop checks the dispatched process for a trap without a test for null.*)
TimerInterrupt ==
  /\ phase = "loop"
  /\ running # NULL
  /\ priority' = [priority EXCEPT ![running] = Demoted(@)]
  /\ \E q \in EnqueuedByPriority(ready, Demoted(priority[running]), running) :
       /\ Dispatch(q)
       /\ phase' = IF pq_is_empty(q) THEN "crashed" ELSE "loop"
  /\ UNCHANGED << created, blocked, killed, isNew, alive >>

IoTrap ==
  /\ phase = "loop"
  /\ running # NULL
  /\ blocked' \in Enqueued(blocked, running)
  /\ Dispatch(ready)
  /\ UNCHANGED << phase, created, killed, isNew, priority, alive >>

IoInterrupt ==
  /\ phase = "loop"
  /\ blocked # << >>
  /\ blocked' = Tail(blocked)
  /\ ready' \in EnqueuedByPriority(ready, priority[Head(blocked)], Head(blocked))
  /\ UNCHANGED << phase, created, killed, running, isNew, currQuantumSize, priority, alive >>

Terminate ==
  /\ phase = "loop"
  /\ running # NULL
  /\ \E k \in Enqueued(killed, running) :
       LET full == Len(k) >= TOTAL_TERMINATED IN
       /\ killed' = IF full THEN << >> ELSE k
       /\ alive' = IF full THEN alive \ Released(k) ELSE alive
  /\ Dispatch(ready)
  /\ UNCHANGED << phase, created, blocked, isNew, priority >>

(* Every process in the MLFQ moves to level 0, in level order; isNew is    *)
(* set when there were no two levels to merge.                             *)
Reset ==
  /\ phase = "loop"
  /\ ready' = [l \in Level |-> IF l = 0 THEN Flattened(ready) ELSE << >>]
  /\ priority' = [p \in PCB |->
                    IF p \in Members(ready) /\ p \notin Range(ready[0])
                    THEN 0 ELSE priority[p]]
  /\ isNew' = (isNew \/ Cardinality({l \in Level : ready[l] # << >>}) <= 1)
  /\ UNCHANGED << phase, created, blocked, killed, running, currQuantumSize, alive >>

(* The process has died of a null pointer.                                 *)
Crashed == phase = "crashed" /\ UNCHANGED vars

Next ==
  \/ \E p \in PCB : CreatePCB(p)
  \/ CreateFails \/ AdmitPCB \/ EndRound
  \/ TimerInterrupt \/ IoTrap \/ IoInterrupt \/ Terminate \/ Reset
  \/ Crashed

Spec == Init /\ [][Next]_vars
=============================================================================
