--------------------------- MODULE SchedulerConnor ---------------------------
(***************************************************************************)
(* The alternative scheduler in scheduler_connor.c, a program of its own.  *)
(* Its loop has the order of os_loop.c with a safe wrap of the PC.  Its    *)
(* dispatcher does not clear running: when the MLFQ offers no process that *)
(* can run, the CPU keeps the process it has, also the one that was just   *)
(* queued or blocked.  A process can then be in several queues at once.    *)
(***************************************************************************)
EXTENDS OsLoop, FiniteSets

CONSTANT MAX_COPIES   \* bound: nodes of the queues beyond one per process

Sequence == INSTANCE SequencesExt

ASSUME ConnorAssumption == MAX_COPIES \in Nat

ConnorPoint == LoopPoint \cup {"undefined", "beyond"}

(* How many nodes of the queues hold a process another node holds too.     *)
Copies ==
  LET nodes == Sequence!FlattenSeq([l \in 1 .. NUM_PRIORITIES |-> ready[l - 1]]) \o blocked
  IN Len(nodes) - Cardinality(Range(nodes))

(* Control goes on to next, unless the queues outgrow the bound.           *)
GoTo(next) == at' = IF Copies' > MAX_COPIES THEN "beyond" ELSE next

-----------------------------------------------------------------------------
(* What this file has in common with scheduler.c and os_loop.c.            *)
ConnorInit == Init

ConnorTimerTick == TimerTick

ConnorNoTrap == LoopNoTrap

ConnorIoTick == LoopIoTick

ConnorNoTermination == NoTermination

ConnorResetTest == NoReset \/ BeginReset

ConnorResetMLFQ == ResetLevel \/ FinishReset

ConnorRound == Boot \/ Spawn \/ NoSpawn

-----------------------------------------------------------------------------
(* scheduler.c takes the process off the CPU before it looks for the next. *)
MutantConnorDispatch(q, st, run) ==
  LET next == pq_peek(q) IN
  /\ running' = next
  /\ ready' = pq_dequeue(q)
  /\ currQuantumSize' = IF next # NULL THEN getNextQuantumSize(q) ELSE currQuantumSize
  /\ state' = IF next # NULL THEN [st EXCEPT ![next] = "RUNNING"] ELSE st

(* The test for a halted head could be missing, or the dequeue.            *)
MutantConnorDispatchHalted(q, st, run) ==
  LET next == pq_peek(q) IN
  /\ running' = IF next # NULL THEN next ELSE run
  /\ ready' = pq_dequeue(q)
  /\ currQuantumSize' = IF next # NULL THEN getNextQuantumSize(q) ELSE currQuantumSize
  /\ state' = IF next # NULL THEN [st EXCEPT ![next] = "RUNNING"] ELSE st

MutantConnorDispatchPeeks(q, st, run) ==
  LET next == pq_peek(q) IN
  /\ running' = IF next # NULL THEN next ELSE run
  /\ ready' = q
  /\ currQuantumSize' = IF next # NULL THEN getNextQuantumSize(q) ELSE currQuantumSize
  /\ state' = IF next # NULL THEN [st EXCEPT ![next] = "RUNNING"] ELSE st

(* The head of the MLFQ q takes the CPU from run, if it may run.           *)
ConnorDispatch(q, st, run) ==
  LET next == pq_peek(q)
      runnable == next # NULL /\ st[next] # "HALT"
  IN
  /\ running' = IF runnable THEN next ELSE run
  /\ ready' = IF runnable THEN pq_dequeue(q) ELSE q
  /\ currQuantumSize' = IF runnable THEN getNextQuantumSize(q) ELSE currQuantumSize
  /\ state' = IF runnable THEN [st EXCEPT ![next] = "RUNNING"] ELSE st

ConnorTimerInterrupt ==
  LET intr == Interrupted IN
  /\ at = "timer"
  /\ TimerExpired
  /\ quantum_tick' = 0
  /\ interrupted' = intr
  /\ priority' = [priority EXCEPT ![intr] = Demoted(@)]
  /\ ReapKilled(killed)
  /\ ConnorDispatch(pq_enqueue(ready, Demoted(priority[intr]), intr),
                    [state EXCEPT ![intr] = "READY"], running)
  /\ UNCHANGED sysstack
  /\ pseudoIRET
  /\ iterationCount' = NextIteration(iterationCount)
  /\ UNCHANGED << blocked, isNew, term_count, blocked_timer, image, io_timer,
                  totalProcesses, resetVars >>
  /\ GoTo("trap")

(* The wait is drawn from 0 up, and blocks the running process itself.     *)
ConnorTrap ==
  /\ at = "trap"
  /\ TrapReached(running)
  /\ interrupted' = Interrupted
  /\ \E timer \in 0 .. TIMER_RANGE - 1 :
       blocked_timer' = [blocked_timer EXCEPT ![running] = timer]
  /\ blocked' = q_enqueue(blocked, running)
  /\ ReapKilled(killed)
  /\ ConnorDispatch(ready, [state EXCEPT ![running] = "WAIT"], running)
  /\ UNCHANGED sysstack
  /\ pseudoIRET
  /\ iterationCount' = NextIteration(iterationCount)
  /\ UNCHANGED << isNew, priority, term_count, image, tickVars, totalProcesses, resetVars >>
  /\ GoTo("io")

(* The interrupted process resumes, without a test whether there is one.   *)
ConnorIoInterrupt ==
  LET intr == Interrupted IN
  /\ at = "io"
  /\ blocked # << >>
  /\ RequestServed
  /\ io_timer' = 0
  /\ blocked' = Tail(blocked)
  /\ ready' = pq_enqueue(ready, priority[Head(blocked)], Head(blocked))
  /\ interrupted' = intr
  /\ running' = intr
  /\ state' = [state EXCEPT ![intr] = "RUNNING"]
  /\ sysstack' = pc[intr]
  /\ ReapKilled(killed)
  /\ pseudoIRET
  /\ iterationCount' = NextIteration(iterationCount)
  /\ UNCHANGED << isNew, priority, term_count, blocked_timer, image,
                  currQuantumSize, quantum_tick, totalProcesses, resetVars >>
  /\ at' = "wrap"

ConnorWrap ==
  /\ at = "wrap"
  /\ IF running # NULL /\ WrapReached(running)
     THEN RestartProgram
     ELSE UNCHANGED << queueVars, running, interrupted, isNew, pcbVars, sysstack,
                       currQuantumSize, tickVars, totalProcesses, iterationCount, resetVars >>
  /\ at' = "terminate"

(* A PCB is released that another queue still holds, or released twice:    *)
(* what its next use does is undefined.                                    *)
ReleasesInUse(k) ==
  /\ KilledFull(k)
  /\ \/ Released(k) \cap (Members(ready) \cup Range(blocked)) # {}
     \/ \E i, j \in 1 .. Len(k) - 2 : i # j /\ k[i] = k[j]

ConnorTerminate ==
  LET k == q_enqueue(killed, running) IN
  /\ at = "terminate"
  /\ running # NULL
  /\ MustTerminate(running)
  /\ ReapKilled(k)
  /\ ConnorDispatch(ready, [state EXCEPT ![running] = "HALT"], NULL)
  /\ at' = IF ReleasesInUse(k) THEN "undefined" ELSE "reset?"
  /\ UNCHANGED << blocked, interrupted, isNew, priority, pc, term_count, blocked_timer,
                  image, sysstack, tickVars, totalProcesses, iterationCount, resetVars >>

Over == at \in {"undefined", "beyond"} /\ UNCHANGED vars

ConnorNext ==
  \/ RunInstruction \/ LoopIdle
  \/ ConnorTimerTick \/ ConnorTimerInterrupt
  \/ ConnorNoTrap \/ ConnorTrap
  \/ ConnorIoTick \/ ConnorIoInterrupt
  \/ ConnorWrap
  \/ ConnorNoTermination \/ ConnorTerminate
  \/ ConnorResetTest \/ ConnorResetMLFQ \/ ConnorRound
  \/ EndOfPass \/ Ended \/ Over

ConnorSpec == ConnorInit /\ [][ConnorNext]_vars

-----------------------------------------------------------------------------
(* Every variable the two programs treat differently stays in its type;    *)
(* the others are those of the loop in os_loop.c.                          *)
ConnorTypeOK ==
  /\ at \in ConnorPoint
  /\ ready \in [Level -> Seq(PCB)]
  /\ blocked \in Seq(PCB)
  /\ running \in PCB \cup {NULL}
  /\ interrupted \in PCB \cup {NULL}
  /\ priority \in [PCB -> Level]
  /\ blocked_timer \in [PCB -> -1 .. TIMER_RANGE - 1]
  /\ pc \in [PCB -> Nat]

(* From the top of the body to the I/O check the program follows running,  *)
(* and its handlers interrupted, without a test: a process is there all    *)
(* that time, and never one that has halted, although a halted process can *)
(* still be queued, wake up and reach the head of the MLFQ.                *)
ConnorDerefSafe ==
  /\ at \in {"timer", "trap", "io"} => running # NULL
  /\ running # NULL => state[running] # "HALT"

(* A process that halted stays halted, also while its copies pass through  *)
(* the queues, unless a round puts the head of the MLFQ on the CPU without *)
(* looking at its state.                                                   *)
HaltIsFinal ==
  [][\A p \in PCB : state[p] = "HALT" /\ state'[p] # "HALT" =>
        at = "spawn" /\ isNew /\ running' = p]_vars

(* The global io_timer is 0 while nothing is blocked and never passes the   *)
(* longest request, although a second trap of a process that is blocked    *)
(* already draws its time anew, below the ticks counted so far.            *)
IoTimerBounded == IF blocked = << >> THEN io_timer = 0 ELSE io_timer <= TIMER_RANGE - 1

(* Every process is in one place, and its state says which.                *)
Clean == OneHome /\ StateFitsPlace

(* The order scheduler.c promises is lost in one way only: an I/O trap     *)
(* with an empty MLFQ blocks the running process and leaves it on the CPU. *)
(* No timer interrupt, wake-up, termination, reset or round is the first   *)
(* to put a process in a second place, or in one its state contradicts.    *)
FirstCopy ==
  [][Clean /\ ~Clean' => at = "trap" /\ pq_is_empty(ready) /\ running' = running]_vars
=============================================================================
