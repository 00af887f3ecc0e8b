--------------------------- MODULE SchedulerProps ---------------------------
(***************************************************************************)
(* What the scheduler of scheduler.c gets right, and, in the last section, *)
(* what its comments claim and the code does not do.                       *)
(***************************************************************************)
EXTENDS Scheduler

Created == 0 .. totalProcesses - 1

Queued == Members(ready)

(* The places the scheduler can still find a PCB in.                       *)
Housed == Queued \cup Range(blocked) \cup Range(killed) \cup ({running} \ {NULL})

-----------------------------------------------------------------------------
(* Every variable stays in its type.                                       *)
TypeOK ==
  /\ at \in ControlPoint
  /\ ready \in [Level -> Seq(PCB)]
  /\ blocked \in Seq(PCB)
  /\ killed \in Seq(PCB)
  /\ running \in PCB \cup {NULL}
  /\ interrupted \in PCB \cup {NULL}
  /\ isNew \in BOOLEAN
  /\ state \in [PCB -> ProcessState]
  /\ priority \in [PCB -> Level]
  /\ pc \in [PCB -> Nat]
  /\ term_count \in [PCB -> Nat]
  /\ blocked_timer \in [PCB -> (1 .. TIMER_RANGE) \cup {-1}]
  /\ image \in [PCB -> Image \cup {NULL}]
  /\ freed \in SUBSET PCB
  /\ sysstack \in Nat
  /\ currQuantumSize \in Nat
  /\ quantum_tick \in Nat
  /\ io_timer \in Nat
  /\ totalProcesses \in Nat
  /\ iterationCount \in 1 .. 2 * RESET_COUNT
  /\ level \in 1 .. NUM_PRIORITIES
  /\ allEmpty \in BOOLEAN

(* A PCB is on at most one level of the MLFQ, in the blocked queue, in the *)
(* killed queue or on the CPU, in one of them and there once: the queues   *)
(* share no node's PCB, whatever order timer, traps, I/O interrupts,       *)
(* terminations and resets come in.                                        *)
OneHome ==
  /\ \A l \in Level : IsInjective(ready[l])
  /\ IsInjective(blocked)
  /\ IsInjective(killed)
  /\ \A l, m \in Level : l # m => Range(ready[l]) \cap Range(ready[m]) = {}
  /\ Range(blocked) \cap Queued = {}
  /\ Range(killed) \cap (Queued \cup Range(blocked)) = {}
  /\ running \notin Queued \cup Range(blocked) \cup Range(killed)

(* A PCB waits on the level its priority field names, although resetMLFQ   *)
(* moves the nodes of a level and only resetReadyQueue then walks them to  *)
(* change the field: pq_enqueue trusts it.                                 *)
LevelIsPriority == \A l \in Level : \A p \in Range(ready[l]) : priority[p] = l

(* The global currQuantumSize is that of the running process's level, also *)
(* after an I/O interrupt, a reset or a new round changed the MLFQ.        *)
QuantumFitsRunning == running # NULL => currQuantumSize = QuantumSize(priority[running])

(* quantum_tick is not reset when a trap or a termination hands the CPU    *)
(* over, so a process can start with more ticks than its own quantum: it   *)
(* still never outgrows the longest quantum, and the timer fires again.    *)
TickBounded == quantum_tick <= QuantumSize(NUM_PRIORITIES - 1)

(* osLoop dereferences running from the top of the body to ioTrap without  *)
(* a further test: the timer interrupt always leaves a process running.    *)
DerefSafe == at \in {"timer", "trap"} => running # NULL

(* Only a process with a terminate count halts, exactly when it wrapped    *)
(* that many times; terminate's == test never finds the count beyond it,   *)
(* although interrupts change the running process between the wrap and     *)
(* the test.  scheduler.c:87 has it so too; the comments at 247-249 and    *)
(* 377-379 say "over" and "greater than", which the test does not do.      *)
TermCountInRange ==
  \A p \in Created :
    IF state[p] = "HALT"
    THEN image[p].terminate > 0 /\ term_count[p] = image[p].terminate
    ELSE image[p].terminate > 0 =>
           \/ term_count[p] < image[p].terminate
           \/ /\ at \in {"io", "terminate"}
              /\ p = running
              /\ term_count[p] = image[p].terminate

(* The one global io_timer times the request at the head of the blocked    *)
(* queue and no other: it is 0 while nothing is blocked, and never passes  *)
(* the head's time.                                                        *)
IoTimerFollowsHead ==
  IF blocked = << >> THEN io_timer = 0 ELSE io_timer <= blocked_timer[Head(blocked)]

(* The killed queue is emptied before it reaches TOTAL_TERMINATED.         *)
KilledBelowLimit == Len(killed) < TOTAL_TERMINATED

(* A PCB's state field agrees with where it is; one in the MLFQ may still  *)
(* have the STATE_WAIT it was blocked with.                                *)
StateFitsPlace ==
  /\ running # NULL => state[running] = "RUNNING"
  /\ \A p \in Queued : state[p] \in {"READY", "WAIT"}
  /\ \A p \in Range(blocked) : state[p] = "WAIT"
  /\ \A p \in Range(killed) : state[p] = "HALT"

(* No PCB that PCB_destroy released is still in a queue or on the CPU.     *)
NoUseAfterFree == freed \cap Housed = {}

(* Between two checks of osLoop no process is left interrupted: a stale    *)
(* one would be put on the CPU by the next I/O interrupt of an empty CPU.  *)
InterruptedIsTransient == interrupted = NULL

-----------------------------------------------------------------------------
(* A process that gets the CPU leaves none waiting on a more urgent level. *)
HighestFirst ==
  [][running' \notin {running, NULL} =>
       \A l \in Level : l < priority'[running'] => ready'[l] = << >>]_vars

Ahead(q, p, r) == \E i, j \in DOMAIN q : i < j /\ q[i] = p /\ q[j] = r

Before(q, r, p) ==
  \/ \E l \in Level : Ahead(q[l], r, p)
  \/ \E l, m \in Level : l < m /\ r \in Range(q[l]) /\ p \in Range(q[m])

(* No process is overtaken on its level: one that is ahead of it there was *)
(* ahead of it, or on a more urgent level, before the step.  This includes *)
(* the steps of a reset, which merge the levels.                           *)
NoOvertaking ==
  [][\A m \in Level : \A p \in Range(ready'[m]) \cap Queued : \A r \in Range(ready'[m]) :
       Ahead(ready'[m], r, p) => Before(ready, r, p)]_vars

(* Where each PCB is in its life, read off the queues, the CPU and the     *)
(* PCB's own state; a process in none of these places is lost.             *)
LifeStage ==
  [p \in PCB |->
     IF p \notin Created THEN "unborn"
     ELSE IF p \in freed THEN "released"
     ELSE IF p = running THEN "running"
     ELSE IF p \in Queued THEN "queued"
     ELSE IF p \in Range(blocked) THEN "blocked"
     ELSE IF state[p] = "HALT" THEN "halted" ELSE "lost"]

Life == INSTANCE ProcessLife WITH stage <- LifeStage

(* The scheduler implements ProcessLife: whatever order the checks of the  *)
(* loop come in, a process gets the CPU only from the MLFQ, no handler     *)
(* that frees the CPU leaves it idle while a process is queued, a process  *)
(* that is halted, released or lost stays so, and it is lost only when a   *)
(* round takes the CPU from it.                                            *)
ImplementsLife == Life!Spec

-----------------------------------------------------------------------------
(* The program is one thread and blocks nowhere.                           *)
LiveSpec == Spec /\ WF_vars(Next)

(* A waiting process gets the CPU, unless the CPU falls idle first.        *)
QueuedRuns ==
  \A p \in PCB : p \in Queued ~> (p \notin Queued \/ running = NULL \/ at = "ended")

(* A blocked process returns to the MLFQ, unless the CPU falls idle first. *)
IoCompletes ==
  \A p \in PCB : p \in Range(blocked) ~>
                   (p \notin Range(blocked) \/ running = NULL \/ at = "ended")

(* A draw of rand() that can create PCBs and is made again and again does. *)
Creates == Spawn /\ totalProcesses' > totalProcesses

(* An idle CPU gets a process if rounds keep being created.                *)
IdleRecovers ==
  SF_vars(Creates) => (running = NULL ~> (running # NULL \/ at = "ended"))

-----------------------------------------------------------------------------
(* What the comments say.                                                  *)

(* scheduler.c:264-266: for a timer interrupt the ISR saves the PC of the  *)
(* process it interrupts to the SysStack.                                  *)
ContextSaved == [][TimerInterrupt => sysstack' = pc[Interrupted]]_vars

(* scheduler.c:189-191: a round moves its PCBs into the ready queue; no    *)
(* process that has not halted goes missing.                               *)
NeverLost == \A p \in Created : p \in Housed \/ state[p] = "HALT"
=============================================================================
