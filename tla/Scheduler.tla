----------------------------- MODULE Scheduler -----------------------------
(***************************************************************************)
(* The MLFQ scheduling simulator of scheduler.c: the main loop osLoop, the *)
(* interrupt checks it makes, and the handlers it calls (pseudoISR,        *)
(* scheduling, dispatcher, pseudoIRET, terminate, resetMLFQ, makePCBList). *)
(*                                                                         *)
(* The program is one thread.  "at" is the point of osLoop control has     *)
(* reached; each action is one of the checks of the loop body together     *)
(* with the whole handler it calls.  rand() is the only source of          *)
(* nondeterminism: how many PCBs a round creates and with which random     *)
(* data, whether a reset creates a round at all, and how long an I/O       *)
(* request takes.                                                          *)
(***************************************************************************)
EXTENDS MLFQ

CONSTANTS
  RESET_COUNT,        \* scheduler.h: interrupts between two resets of the MLFQ
  MAX_PCB_IN_ROUND,   \* scheduler.h: makePCBList creates fewer PCBs than this
  MAX_PCB_TOTAL,      \* scheduler.h: the loop ends once this many were created
  TOTAL_TERMINATED,   \* scheduler.h: size at which the killed queue is emptied
  TIMER_RANGE,        \* scheduler.h: an I/O request takes 1..TIMER_RANGE
  Image               \* the random data PCB_create can give a new PCB

(* An image is the part of a PCB that never changes after PCB_create: the  *)
(* PC at which the process wraps, how often it wraps before it terminates  *)
(* (0: never), and the PCs at which it requests I/O.  The first round,     *)
(* which no test guards, stays below MAX_PCB_TOTAL (scheduler.h: 4 of 30). *)
ASSUME SchedulerAssumption ==
  /\ RESET_COUNT \in Nat \ {0}
  /\ MAX_PCB_IN_ROUND \in Nat \ {0}
  /\ MAX_PCB_TOTAL \in Nat \ {0}
  /\ MAX_PCB_IN_ROUND <= MAX_PCB_TOTAL
  /\ TOTAL_TERMINATED \in Nat \ {0}
  /\ TIMER_RANGE \in Nat \ {0}
  /\ Image \subseteq [max_pc : Nat \ {0}, terminate : Nat, traps : SUBSET Nat]

(* PIDs count up from 0.  The loop creates a round only while fewer than   *)
(* MAX_PCB_TOTAL PCBs exist, so no more than this many are ever created.   *)
PCB == 0 .. (MAX_PCB_TOTAL - 1) + (MAX_PCB_IN_ROUND - 1) - 1

ProcessState == {"NEW", "READY", "RUNNING", "WAIT", "HALT"}

ControlPoint == {"boot", "top", "timer", "trap", "wrap", "io", "terminate",
                 "reset?", "reset", "spawn", "end?", "ended"}

VARIABLES
  at,              \* control point of osLoop
  \* --- struct scheduler
  ready, blocked, killed, running, interrupted, isNew,
  \* --- the PCBs, indexed by PID
  state, priority, pc, term_count, blocked_timer, image,
  freed,           \* PCBs that PCB_destroy has released
  \* --- globals of scheduler.c
  sysstack, currQuantumSize, quantum_tick, io_timer,
  \* --- locals of osLoop and of resetMLFQ
  totalProcesses, iterationCount, level, allEmpty

queueVars == << ready, blocked, killed >>
pcbVars   == << state, priority, pc, term_count, blocked_timer, image, freed >>
tickVars  == << quantum_tick, io_timer >>
resetVars == << level, allEmpty >>
vars == << at, queueVars, running, interrupted, isNew, pcbVars, sysstack,
           currQuantumSize, tickVars, totalProcesses, iterationCount, resetVars >>

-----------------------------------------------------------------------------
(* schedulerConstructor, main and the locals of osLoop.  A PCB that does   *)
(* not exist yet already has the fields initialize_data will give it.      *)
Init ==
  /\ at = "boot"
  /\ ready = pq_create
  /\ blocked = << >>
  /\ killed = << >>
  /\ running = NULL
  /\ interrupted = NULL
  /\ isNew = TRUE
  /\ state = [p \in PCB |-> "NEW"]
  /\ priority = [p \in PCB |-> 0]
  /\ pc = [p \in PCB |-> 0]
  /\ term_count = [p \in PCB |-> 0]
  /\ blocked_timer = [p \in PCB |-> -1]
  /\ image = [p \in PCB |-> NULL]
  /\ freed = {}
  /\ sysstack = 0
  /\ currQuantumSize = 0
  /\ quantum_tick = 0
  /\ io_timer = 0
  /\ totalProcesses = 0
  /\ iterationCount = 1
  /\ level = 1
  /\ allEmpty = TRUE

-----------------------------------------------------------------------------
(* The pieces the handlers are built from.                                 *)

(* iterationCount is read only as iterationCount % RESET_COUNT; past the   *)
(* first multiple it is kept in RESET_COUNT+1 .. 2*RESET_COUNT, which      *)
(* preserves the remainder and whether a reset is overdue.                 *)
NextIteration(n) == IF n = 2 * RESET_COUNT THEN RESET_COUNT + 1 ELSE n + 1

(* term_count is read only in terminate == term_count with terminate > 0:  *)
(* one value past terminate stands for all larger ones.                    *)
NextTermCount(p) ==
  IF term_count[p] > image[p].terminate THEN term_count[p] ELSE term_count[p] + 1

(* An exact test misses a tick that the previous process left too high.    *)
MutantTimerExpired == quantum_tick = currQuantumSize

TimerExpired == quantum_tick >= currQuantumSize

(* A process that used up its quantum moves one level down, from the last  *)
(* level back to the first.  A test for <= would run past the last level.  *)
MutantDemoted(l) == IF l <= NUM_PRIORITIES - 1 THEN l + 1 ELSE 0

Demoted(l) == IF l < NUM_PRIORITIES - 1 THEN l + 1 ELSE 0

TrapReached(p) == pc[p] \in image[p].traps

WrapReached(p) == pc[p] >= image[p].max_pc

MutantRequestServed == io_timer > blocked_timer[Head(blocked)]

RequestServed == io_timer >= blocked_timer[Head(blocked)]

MustTerminate(p) == image[p].terminate > 0 /\ image[p].terminate = term_count[p]

(* pseudoISR interrupts the running process unless it has halted.  The     *)
(* state STATE_INT it is given lasts until the handler gives it the next.  *)
Interrupted ==
  IF running # NULL /\ state[running] # "HALT" THEN running ELSE interrupted

(* Emptying the killed queue keeps the PCB it took last in toKill and      *)
(* releases it when it takes the next one, except near the end: the last   *)
(* two PCBs are dequeued and never released (a queue of one is).           *)
Released(k) ==
  IF Len(k) = 1 THEN Range(k) ELSE {k[i] : i \in 1 .. Len(k) - 2}

MutantKilledFull(k) == Len(k) > TOTAL_TERMINATED

KilledFull(k) == Len(k) >= TOTAL_TERMINATED

(* The loop could leave its last PCB in the queue and release it too.      *)
MutantReapKilled(k) ==
  /\ killed' = IF KilledFull(k) THEN << k[Len(k)] >> ELSE k
  /\ freed' = IF KilledFull(k) THEN freed \cup Range(k) ELSE freed

(* scheduling: empty the killed queue k once it is TOTAL_TERMINATED long.  *)
ReapKilled(k) ==
  /\ killed' = IF KilledFull(k) THEN << >> ELSE k
  /\ freed' = IF KilledFull(k) THEN freed \cup Released(k) ELSE freed

(* The dispatcher could take the PCB it peeked at without dequeuing it,    *)
(* leave the state it finds, or leave the interrupted process in place.    *)
MutantDispatchPeeks(q, st, intr) ==
  LET next == pq_peek(q) IN
  /\ running' = next
  /\ ready' = q
  /\ currQuantumSize' = IF next # NULL THEN getNextQuantumSize(q) ELSE currQuantumSize
  /\ state' = IF next # NULL THEN [st EXCEPT ![next] = "RUNNING"] ELSE st
  /\ interrupted' = IF next # NULL THEN NULL ELSE intr

MutantDispatchKeepsState(q, st, intr) ==
  LET next == pq_peek(q) IN
  /\ running' = next
  /\ ready' = pq_dequeue(q)
  /\ currQuantumSize' = IF next # NULL THEN getNextQuantumSize(q) ELSE currQuantumSize
  /\ state' = st
  /\ interrupted' = IF next # NULL THEN NULL ELSE intr

MutantDispatchKeepsInterrupted(q, st, intr) ==
  LET next == pq_peek(q) IN
  /\ running' = next
  /\ ready' = pq_dequeue(q)
  /\ currQuantumSize' = IF next # NULL THEN getNextQuantumSize(q) ELSE currQuantumSize
  /\ state' = IF next # NULL THEN [st EXCEPT ![next] = "RUNNING"] ELSE st
  /\ interrupted' = intr

(* scheduling's running = pq_peek(ready) followed by the dispatcher, on    *)
(* the MLFQ q, the process states st and the interrupted process intr that *)
(* the handler has left.                                                   *)
Dispatch(q, st, intr) ==
  LET next == pq_peek(q)
      runnable == next # NULL /\ st[next] # "HALT"
  IN
  /\ running' = next
  /\ ready' = IF runnable THEN pq_dequeue(q) ELSE q
  /\ currQuantumSize' = IF runnable THEN getNextQuantumSize(q) ELSE currQuantumSize
  /\ state' = IF runnable THEN [st EXCEPT ![next] = "RUNNING"] ELSE st
  /\ interrupted' = IF runnable THEN NULL ELSE intr

(* The PC of whichever process runs next becomes the one on the stack.     *)
pseudoIRET ==
  pc' = IF running' = NULL THEN pc ELSE [pc EXCEPT ![running'] = sysstack']

(* makePCBList: n new PCBs with images img enter level 0 in PID order; if  *)
(* isNew, the first PCB of the MLFQ is put on the CPU.                     *)
makePCBList(n, img) ==
  LET new == totalProcesses .. totalProcesses + n - 1
      q   == [ready EXCEPT ![0] = @ \o [k \in 1 .. n |-> totalProcesses + k - 1]]
      st  == [p \in PCB |-> IF p \in new THEN "READY" ELSE state[p]]
  IN
  /\ totalProcesses' = totalProcesses + n
  /\ image' = [p \in PCB |-> IF p \in new THEN img[p - totalProcesses + 1] ELSE image[p]]
  /\ \/ /\ n > 0 /\ isNew
        /\ running' = pq_peek(q)
        /\ ready' = pq_dequeue(q)
        /\ state' = [st EXCEPT ![pq_peek(q)] = "RUNNING"]
        /\ isNew' = FALSE
        /\ currQuantumSize' = QuantumSize(0)
     \/ /\ n > 0 => ~isNew
        /\ ready' = q
        /\ state' = st
        /\ UNCHANGED << running, isNew, currQuantumSize >>
  /\ UNCHANGED << blocked, killed, interrupted, priority, pc, term_count,
                  blocked_timer, freed, sysstack, tickVars, resetVars >>

SomeRound == \E n \in 0 .. MAX_PCB_IN_ROUND - 1 :
               \E img \in [1 .. n -> Image] : makePCBList(n, img)

-----------------------------------------------------------------------------
(* osLoop, in the order of its body.                                       *)

(* The first makePCBList, before the loop.                                 *)
Boot ==
  /\ at = "boot"
  /\ SomeRound
  /\ at' = "top"
  /\ UNCHANGED iterationCount

(* A running process executes one instruction...                           *)
RunInstruction ==
  /\ at = "top"
  /\ running # NULL
  /\ pc' = [pc EXCEPT ![running] = @ + 1]
  /\ at' = "timer"
  /\ UNCHANGED << queueVars, running, interrupted, isNew, state, priority,
                  term_count, blocked_timer, image, freed, sysstack,
                  currQuantumSize, tickVars, totalProcesses, iterationCount, resetVars >>

(* ... and with no running process the pass only counts.                   *)
Idle ==
  /\ at = "top"
  /\ running = NULL
  /\ iterationCount' = NextIteration(iterationCount)
  /\ at' = "reset?"
  /\ UNCHANGED << queueVars, running, interrupted, isNew, pcbVars, sysstack,
                  currQuantumSize, tickVars, totalProcesses, resetVars >>

TimerTick ==
  /\ at = "timer"
  /\ ~TimerExpired
  /\ quantum_tick' = quantum_tick + 1
  /\ at' = "trap"
  /\ UNCHANGED << queueVars, running, interrupted, isNew, pcbVars, sysstack,
                  currQuantumSize, io_timer, totalProcesses, iterationCount, resetVars >>

(* timerInterrupt and pseudoISR(IS_TIMER).                                 *)
TimerInterrupt ==
  LET intr == Interrupted IN
  /\ at = "timer"
  /\ TimerExpired
  /\ quantum_tick' = 0
  /\ priority' = [priority EXCEPT ![intr] = Demoted(@)]
  /\ ReapKilled(killed)
  /\ Dispatch(pq_enqueue(ready, Demoted(priority[intr]), intr),
              [state EXCEPT ![intr] = "READY"], intr)
  /\ UNCHANGED sysstack
  /\ pseudoIRET
  /\ iterationCount' = NextIteration(iterationCount)
  /\ at' = "trap"
  /\ UNCHANGED << blocked, isNew, term_count, blocked_timer, image, io_timer,
                  totalProcesses, resetVars >>

NoTrap ==
  /\ at = "trap"
  /\ ~TrapReached(running)
  /\ at' = "wrap"
  /\ UNCHANGED << queueVars, running, interrupted, isNew, pcbVars, sysstack,
                  currQuantumSize, tickVars, totalProcesses, iterationCount, resetVars >>

(* pseudoISR(IS_IO_TRAP): the process waits for its I/O, another one runs.  *)
IoTrapISR ==
  LET intr == Interrupted IN
  /\ \E timer \in 1 .. TIMER_RANGE :
       blocked_timer' = [blocked_timer EXCEPT ![intr] = timer]
  /\ blocked' = q_enqueue(blocked, intr)
  /\ ReapKilled(killed)
  /\ Dispatch(ready, [state EXCEPT ![intr] = "WAIT"], NULL)
  /\ UNCHANGED sysstack
  /\ pseudoIRET
  /\ iterationCount' = NextIteration(iterationCount)
  /\ UNCHANGED << isNew, priority, term_count, image, tickVars, totalProcesses,
                  resetVars >>

IoTrap ==
  /\ at = "trap"
  /\ TrapReached(running)
  /\ IoTrapISR
  /\ at' = "wrap"

(* The program of the running process starts over.                         *)
RestartProgram ==
  /\ pc' = [pc EXCEPT ![running] = 0]
  /\ term_count' = [term_count EXCEPT ![running] = NextTermCount(running)]
  /\ UNCHANGED << queueVars, running, interrupted, isNew, state, priority,
                  blocked_timer, image, freed, sysstack, currQuantumSize,
                  tickVars, totalProcesses, iterationCount, resetVars >>

WrapPC ==
  /\ at = "wrap"
  /\ running # NULL
  /\ WrapReached(running)
  /\ RestartProgram
  /\ at' = "io"

NoWrap ==
  /\ at = "wrap"
  /\ running # NULL => ~WrapReached(running)
  /\ at' = "io"
  /\ UNCHANGED << queueVars, running, interrupted, isNew, pcbVars, sysstack,
                  currQuantumSize, tickVars, totalProcesses, iterationCount, resetVars >>

(* ioInterrupt: nothing is blocked, or the first request is still served.  *)
NoIoInterrupt ==
  /\ \/ /\ blocked = << >>
        /\ UNCHANGED io_timer
     \/ /\ blocked # << >>
        /\ ~RequestServed
        /\ io_timer' = io_timer + 1
  /\ UNCHANGED << queueVars, running, interrupted, isNew, pcbVars, sysstack,
                  currQuantumSize, quantum_tick, totalProcesses, iterationCount, resetVars >>

IoTick ==
  /\ at = "io"
  /\ NoIoInterrupt
  /\ at' = "terminate"

(* Without its tests of the interrupt code, scheduling would dispatch      *)
(* after an I/O interrupt too and drop the process it has just resumed.    *)
MutantIoInterruptISR ==
  LET intr == Interrupted IN
  /\ blocked # << >>
  /\ RequestServed
  /\ io_timer' = 0
  /\ blocked' = Tail(blocked)
  /\ sysstack' = IF intr = NULL THEN sysstack ELSE pc[intr]
  /\ ReapKilled(killed)
  /\ Dispatch(pq_enqueue(ready, priority[Head(blocked)], Head(blocked)), state, NULL)
  /\ pseudoIRET
  /\ iterationCount' = NextIteration(iterationCount)
  /\ UNCHANGED << isNew, priority, term_count, blocked_timer, image,
                  quantum_tick, totalProcesses, resetVars >>

(* ioInterrupt and pseudoISR(IS_IO_INTERRUPT): the process at the head of  *)
(* the blocked queue returns to the MLFQ with the state and the priority   *)
(* it has; the running process, if any, resumes.                           *)
IoInterruptISR ==
  LET intr == Interrupted IN
  /\ blocked # << >>
  /\ RequestServed
  /\ io_timer' = 0
  /\ blocked' = Tail(blocked)
  /\ ready' = pq_enqueue(ready, priority[Head(blocked)], Head(blocked))
  /\ \/ /\ intr # NULL
        /\ running' = intr
        /\ state' = [state EXCEPT ![intr] = "RUNNING"]
        /\ sysstack' = pc[intr]
     \/ /\ intr = NULL
        /\ UNCHANGED << running, state, sysstack >>
  /\ interrupted' = NULL
  /\ ReapKilled(killed)
  /\ pseudoIRET
  /\ iterationCount' = NextIteration(iterationCount)
  /\ UNCHANGED << isNew, priority, term_count, blocked_timer, image,
                  currQuantumSize, quantum_tick, totalProcesses, resetVars >>

IoInterrupt ==
  /\ at = "io"
  /\ IoInterruptISR
  /\ at' = "terminate"

NoTermination ==
  /\ at = "terminate"
  /\ running # NULL => ~MustTerminate(running)
  /\ at' = "reset?"
  /\ UNCHANGED << queueVars, running, interrupted, isNew, pcbVars, sysstack,
                  currQuantumSize, tickVars, totalProcesses, iterationCount, resetVars >>

(* terminate and scheduling(IS_TERMINATING).                               *)
Terminate ==
  /\ at = "terminate"
  /\ running # NULL
  /\ MustTerminate(running)
  /\ ReapKilled(q_enqueue(killed, running))
  /\ Dispatch(ready, [state EXCEPT ![running] = "HALT"], interrupted)
  /\ at' = "reset?"
  /\ UNCHANGED << blocked, isNew, priority, pc, term_count, blocked_timer, image,
                  sysstack, tickVars, totalProcesses, iterationCount, resetVars >>

(* A test for equality would see no reset again once one was stepped over. *)
MutantResetDue == iterationCount = RESET_COUNT

ResetDue == iterationCount % RESET_COUNT = 0

NoReset ==
  /\ at = "reset?"
  /\ ~ResetDue
  /\ at' = "end?"
  /\ UNCHANGED << queueVars, running, interrupted, isNew, pcbVars, sysstack,
                  currQuantumSize, tickVars, totalProcesses, iterationCount, resetVars >>

BeginReset ==
  /\ at = "reset?"
  /\ ResetDue
  /\ at' = "reset"
  /\ UNCHANGED << queueVars, running, interrupted, isNew, pcbVars, sysstack,
                  currQuantumSize, tickVars, totalProcesses, iterationCount, resetVars >>

(* resetReadyQueue: the PCBs of a level that moves to level 0.             *)
MutantMovedToTop(q) == priority

MovedToTop(q) == [p \in PCB |-> IF p \in Range(q) THEN 0 ELSE priority[p]]

MutantResetDone == level = NUM_PRIORITIES - 1

ResetDone == level = NUM_PRIORITIES

(* One round of resetMLFQ's loop: the PCBs of one level are appended to    *)
(* level 0.  allEmpty is cleared only when level 0 already held PCBs.      *)
ResetLevel ==
  /\ at = "reset"
  /\ ~ResetDone
  /\ ready' = [ready EXCEPT ![0] = @ \o ready[level], ![level] = << >>]
  /\ priority' = MovedToTop(ready[level])
  /\ allEmpty' = (allEmpty /\ (ready[level] = << >> \/ ready[0] = << >>))
  /\ level' = level + 1
  /\ UNCHANGED << at, blocked, killed, running, interrupted, isNew, state, pc,
                  term_count, blocked_timer, image, freed, sysstack,
                  currQuantumSize, tickVars, totalProcesses, iterationCount >>

(* The end of resetMLFQ.                                                   *)
FinishReset ==
  /\ at = "reset"
  /\ ResetDone
  /\ isNew' = (isNew \/ allEmpty)
  /\ level' = 1
  /\ allEmpty' = TRUE
  /\ at' = "spawn"
  /\ UNCHANGED << queueVars, running, interrupted, pcbVars, sysstack,
                  currQuantumSize, tickVars, totalProcesses, iterationCount >>

(* The draw that decides whether this reset creates a round of PCBs.       *)
Spawn ==
  /\ at = "spawn"
  /\ SomeRound
  /\ iterationCount' = 1
  /\ at' = "end?"

NoSpawn ==
  /\ at = "spawn"
  /\ iterationCount' = 1
  /\ at' = "end?"
  /\ UNCHANGED << queueVars, running, interrupted, isNew, pcbVars, sysstack,
                  currQuantumSize, tickVars, totalProcesses, resetVars >>

EndOfPass ==
  /\ at = "end?"
  /\ at' = IF totalProcesses >= MAX_PCB_TOTAL THEN "ended" ELSE "top"
  /\ UNCHANGED << queueVars, running, interrupted, isNew, pcbVars, sysstack,
                  currQuantumSize, tickVars, totalProcesses, iterationCount, resetVars >>

(* main returns: the program stays ended.                                  *)
Ended == at = "ended" /\ UNCHANGED vars

Next ==
  \/ Boot \/ RunInstruction \/ Idle
  \/ TimerTick \/ TimerInterrupt
  \/ NoTrap \/ IoTrap
  \/ WrapPC \/ NoWrap
  \/ IoTick \/ IoInterrupt
  \/ NoTermination \/ Terminate
  \/ NoReset \/ BeginReset \/ ResetLevel \/ FinishReset
  \/ Spawn \/ NoSpawn \/ EndOfPass \/ Ended

Spec == Init /\ [][Next]_vars
=============================================================================
