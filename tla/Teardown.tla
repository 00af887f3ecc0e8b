------------------------------- MODULE Teardown -------------------------------
(***************************************************************************)
(* schedulerDeconstructor of scheduler.c with the q_destroy, pq_destroy    *)
(* and PCB_destroy it calls, from any state the queues can be in at the    *)
(* top of osLoop.  The interrupted pointer is null there (Scheduler's      *)
(* InterruptedIsTransient).                                                *)
(***************************************************************************)
EXTENDS LinkedQueues

VARIABLES
  at,         \* "system", "queues", "running", "down" or "crashed"
  order,      \* the queues still to be destroyed
  iter,       \* local of q_destroy: the next node, null at the end
  destroyed   \* how often PCB_destroy released each PCB

teardownVars == << at, order, iter, destroyed >>

(* schedulerDeconstructor destroys the three FIFO queues, pq_destroy then  *)
(* the levels from 0 up.                                                   *)
DestroyOrder == << created, killed, blocked >> \o [l \in 1 .. NUM_PRIORITIES |-> l - 1]

TeardownInit ==
  /\ Init
  /\ at = "system"
  /\ order = << >>
  /\ iter = NULL
  /\ destroyed = [p \in PCB |-> 0]

SystemStep ==
  /\ at = "system"
  /\ Next
  /\ UNCHANGED teardownVars

BeginTeardown ==
  /\ at = "system"
  /\ phase = "loop"
  /\ at' = "queues"
  /\ order' = DestroyOrder
  /\ iter' = memory.first_node[Head(DestroyOrder)]
  /\ UNCHANGED << vars, destroyed >>

PCB_destroy(p) == destroyed' = [destroyed EXCEPT ![p] = @ + 1]

(* The node could be freed without its PCB.                                *)
MutantDestroyNode ==
  /\ at = "queues"
  /\ iter # NULL
  /\ iter' = memory.next[iter]
  /\ memory' = [memory EXCEPT !.allocated = @ \ {iter}]
  /\ UNCHANGED << at, order, destroyed, phase, priority, running, isNew,
                  currQuantumSize, alive, mallocFailed >>

(* q_destroy: release the PCB of the node and the node.                    *)
DestroyNode ==
  /\ at = "queues"
  /\ iter # NULL
  /\ PCB_destroy(memory.pcb[iter])
  /\ iter' = memory.next[iter]
  /\ memory' = [memory EXCEPT !.allocated = @ \ {iter}]
  /\ UNCHANGED << at, order, phase, priority, running, isNew, currQuantumSize,
                  alive, mallocFailed >>

NextQueue ==
  /\ at = "queues"
  /\ iter = NULL
  /\ order' = Tail(order)
  /\ IF Tail(order) = << >>
     THEN at' = "running" /\ UNCHANGED iter
     ELSE iter' = memory.first_node[Head(Tail(order))] /\ UNCHANGED at
  /\ UNCHANGED << vars, destroyed >>

(* PCB_destroy looks into the PCB it is given, which is null on an idle    *)
(* CPU.  The interrupted PCB, null, is destroyed only if it equals running.*)
DestroyRunning ==
  /\ at = "running"
  /\ \/ /\ running = NULL
        /\ at' = "crashed"
        /\ UNCHANGED destroyed
     \/ /\ running # NULL
        /\ at' = "down"
        /\ PCB_destroy(running)
  /\ UNCHANGED << vars, order, iter >>

Down == at \in {"down", "crashed"} /\ UNCHANGED << vars, teardownVars >>

TeardownNext ==
  \/ SystemStep \/ BeginTeardown \/ DestroyNode \/ NextQueue \/ DestroyRunning \/ Down

TeardownSpec == TeardownInit /\ [][TeardownNext]_<< vars, teardownVars >>

-----------------------------------------------------------------------------
(* The processes the scheduler can still reach.                            *)
Reachable ==
  (UNION {Range(Contents(memory, q)) : q \in Queue}) \cup ({running} \ {NULL})

(* As long as the system runs, no node is leaked or shared.                *)
NodesInUseAccounted == at = "system" => NodesAccounted

(* Nothing is released twice, neither a node (the walk only meets nodes in *)
(* use) nor a PCB (which may not have been released by the killed queue).  *)
ReleasedOnce ==
  /\ \A p \in PCB : destroyed[p] <= IF p \in alive THEN 1 ELSE 0
  /\ at = "queues" => iter \in memory.allocated \cup {NULL}

(* Once the scheduler is down no node is left, and every process it could  *)
(* reach was released: the walks cover all queues, and nothing is on two.  *)
(* The lists still name the PCBs because a freed node keeps what it held.  *)
NothingLeft ==
  at = "down" =>
    /\ memory.allocated = {}
    /\ \A p \in Reachable : destroyed[p] = 1
=============================================================================
