---------------------------- MODULE OsLoopProofs ----------------------------
(***************************************************************************)
(* What the handlers guarantee under the loop of scheduler.c they also     *)
(* guarantee under the loop of os_loop.c, as long as it runs: a PCB has    *)
(* one place, the lives of the processes are those of ProcessLife, levels, *)
(* quanta and timers agree, the queues keep their order, and no process    *)
(* outlives its terminate count; and when the loop crashes, a process is   *)
(* still waiting.                                                          *)
(***************************************************************************)
EXTENDS OsLoop, LevelProofs

(* What a crash leaves of the invariant.                                   *)
LoopPlaces == OneHome /\ StateFitsPlace /\ NoUseAfterFree /\ KilledBelowLimit

(* Until the crash the invariant of the scheduler holds.                   *)
LoopIInv == IF at = "crashed" THEN running = NULL /\ LoopPlaces ELSE IInv

(* The steps this loop shares with the one of scheduler.c...               *)
SharedStep ==
  \/ Boot \/ TimerTick \/ TimerInterrupt \/ NoTermination \/ Terminate
  \/ NoReset \/ BeginReset \/ ResetLevel \/ FinishReset \/ Spawn \/ EndOfPass \/ Ended

(* ... and its own that move no PCB.                                       *)
QuietLoopStep ==
  LoopRunInstruction \/ LoopIdle \/ LoopNoTrap \/ LoopIoTick \/ LoopWrap \/ LoopNoWrap

(* The steps of the loop are these, the two I/O handlers and the crash.    *)
LEMMA LoopSteps ==
  [LoopNext]_vars =>
    \/ SharedStep \/ UNCHANGED vars \/ Crashed
    \/ QuietLoopStep \/ LoopTrap \/ LoopIoInterrupt \/ FollowNull
BY DEF LoopNext, SharedStep, QuietLoopStep

(* A shared step is none of the crashed loop, leads neither into it nor to *)
(* a point between the I/O check and the test of terminate.                *)
LEMMA SharedPoints ==
  ASSUME SharedStep
  PROVE  /\ at \notin {"wrap", "io", "crashed"}
         /\ at' \notin {"wrap", "io", "terminate", "crashed"}
         /\ [Next]_vars
BY DEF SharedStep, Next, Boot, TimerTick, TimerInterrupt, NoTermination, Terminate, NoReset,
       BeginReset, ResetLevel, FinishReset, Spawn, EndOfPass, Ended, vars

-----------------------------------------------------------------------------
(* The steps of this loop that move no PCB keep the invariant.             *)
LEMMA QuietLoopIInv ==
  ASSUME IInv, QuietLoopStep
  PROVE  IInv'
<1> USE DEF IInv
<1>1. CASE LoopRunInstruction
  <2>1. Places' /\ RoomForRound' /\ InterruptedIsTransient'
    BY <1>1, PlacesKept DEF LoopRunInstruction
  <2>2. running \in PCB /\ pc[running] \in Nat /\ NextPC(pc[running]) \in Nat
    BY <1>1 DEF LoopRunInstruction, TypeOK, NextPC
  <2>3. TypeOK'
    BY <1>1, <2>2 DEF LoopRunInstruction, TypeOK, ControlPoint, queueVars, tickVars, resetVars
  <2> QED
    BY <1>1, <2>1, <2>3 DEF LoopRunInstruction, DerefSafe
<1>2. CASE LoopIdle
  <2>1. Places' /\ RoomForRound' /\ InterruptedIsTransient'
    BY <1>2, PlacesKept DEF LoopIdle, pcbVars
  <2>2. TypeOK'
    BY <1>2, IterationType
    DEF LoopIdle, TypeOK, ControlPoint, queueVars, pcbVars, tickVars, resetVars
  <2> QED
    BY <1>2, <2>1, <2>2 DEF LoopIdle, DerefSafe
<1>3. CASE LoopNoTrap \/ LoopNoWrap
  <2>1. Places' /\ RoomForRound' /\ InterruptedIsTransient'
    BY <1>3, PlacesKept DEF LoopNoTrap, LoopNoWrap, pcbVars
  <2>2. TypeOK'
    BY <1>3 DEF LoopNoTrap, LoopNoWrap, TypeOK, ControlPoint, queueVars, pcbVars, tickVars, resetVars
  <2> QED
    BY <1>3, <2>1, <2>2 DEF LoopNoTrap, LoopNoWrap, DerefSafe
<1>4. CASE LoopIoTick
  <2>1. Places' /\ RoomForRound' /\ InterruptedIsTransient'
    BY <1>4, PlacesKept DEF LoopIoTick, NoIoInterrupt, pcbVars
  <2>2. /\ io_timer' \in Nat
        /\ UNCHANGED << queueVars, running, interrupted, isNew, pcbVars, sysstack,
                        currQuantumSize, quantum_tick, totalProcesses, iterationCount, resetVars >>
    BY <1>4 DEF LoopIoTick, NoIoInterrupt, TypeOK
  <2>3. TypeOK'
    BY <1>4, <2>2 DEF LoopIoTick, TypeOK, ControlPoint, queueVars, pcbVars, resetVars
  <2> QED
    BY <1>4, <2>1, <2>3 DEF LoopIoTick, DerefSafe
<1>5. CASE LoopWrap
  <2>1. Places' /\ RoomForRound' /\ InterruptedIsTransient'
    BY <1>5, PlacesKept DEF LoopWrap, RestartProgram
  <2>2. NextTermCount(running) \in Nat /\ running \in PCB
    BY <1>5 DEF LoopWrap, NextTermCount, TypeOK
  <2>3. TypeOK'
    BY <1>5, <2>2
    DEF LoopWrap, RestartProgram, TypeOK, ControlPoint, queueVars, tickVars, resetVars
  <2> QED
    BY <1>5, <2>1, <2>3 DEF LoopWrap, DerefSafe
<1> QED
  BY <1>1, <1>2, <1>3, <1>4, <1>5 DEF QuietLoopStep

(* A step that leaves the queues, the CPU and the PCBs alone keeps them so. *)
LEMMA PlacesLeft ==
  ASSUME LoopPlaces, UNCHANGED << queueVars, running, state, freed >>
  PROVE  LoopPlaces'
BY DEF LoopPlaces, OneHome, StateFitsPlace, NoUseAfterFree, KilledBelowLimit, Queued, Housed,
       queueVars

(* Every step of the loop keeps its invariant.                             *)
LEMMA LoopIInvStep == LoopIInv /\ [LoopNext]_vars => LoopIInv'
<1> SUFFICES ASSUME LoopIInv, [LoopNext]_vars PROVE LoopIInv'
  OBVIOUS
<1>1. CASE SharedStep
  BY <1>1, SharedPoints, NextIInv DEF LoopIInv
<1>2. CASE UNCHANGED vars \/ Crashed
  <2>1. UNCHANGED << at, queueVars, running, state, freed >> /\ [Next]_vars
    BY <1>2 DEF Crashed, vars, pcbVars
  <2> QED
    BY <2>1, PlacesLeft, NextIInv DEF LoopIInv
<1>3. CASE QuietLoopStep
  <2>1. at # "crashed" /\ at' # "crashed"
    BY <1>3 DEF QuietLoopStep, LoopRunInstruction, LoopIdle, LoopNoTrap, LoopIoTick,
                LoopWrap, LoopNoWrap
  <2> QED
    BY <1>3, <2>1, QuietLoopIInv DEF LoopIInv
<1>4. CASE LoopTrap
  BY <1>4, IoTrapISRStep DEF LoopTrap, LoopIInv
<1>5. CASE LoopIoInterrupt
  BY <1>5, IoInterruptISRStep DEF LoopIoInterrupt, LoopIInv
<1>6. CASE FollowNull
  <2>1. /\ at # "crashed" /\ at' = "crashed" /\ running = NULL
        /\ UNCHANGED << queueVars, running, state, freed >>
    BY <1>6 DEF FollowNull, pcbVars
  <2>2. LoopPlaces
    BY <2>1, IInvImplies DEF LoopIInv, LoopPlaces
  <2> QED
    BY <2>1, <2>2, PlacesLeft DEF LoopIInv
<1> QED
  BY <1>1, <1>2, <1>3, <1>4, <1>5, <1>6, LoopSteps

(* The invariant of the loop holds in every reachable state.               *)
LEMMA LoopInvariant == LoopSpec => []LoopIInv
<1>1. Init => LoopIInv
  BY InitIInv DEF Init, LoopIInv
<1>2. LoopIInv /\ [LoopNext]_vars => LoopIInv'
  BY LoopIInvStep
<1> QED
  BY <1>1, <1>2, PTL DEF LoopSpec

(* No PCB is ever in two places under the loop of os_loop.c, nor left in   *)
(* two by its crash.                                                       *)
THEOREM LoopOneHome == LoopSpec => []OneHome
<1>1. LoopIInv => OneHome
  BY IInvImplies DEF LoopIInv, LoopPlaces
<1> QED
  BY <1>1, LoopInvariant, PTL

(* Under this loop too a PCB's state agrees with its place, no released    *)
(* PCB is in use, and the killed queue is emptied in time; the crash       *)
(* leaves it so.                                                           *)
THEOREM LoopPlacesAlways == LoopSpec => [](StateFitsPlace /\ NoUseAfterFree /\ KilledBelowLimit)
<1>1. LoopIInv => StateFitsPlace /\ NoUseAfterFree /\ KilledBelowLimit
  BY IInvImplies DEF LoopIInv, LoopPlaces
<1> QED
  BY <1>1, LoopInvariant, PTL

-----------------------------------------------------------------------------
(* Every step of the loop is a step of ProcessLife or changes no stage.    *)
LEMMA LoopLifeStep == LoopIInv /\ [LoopNext]_vars => [Life!Next]_LifeStage
<1> SUFFICES ASSUME LoopIInv, [LoopNext]_vars PROVE [Life!Next]_LifeStage
  OBVIOUS
<1>1. CASE SharedStep
  BY <1>1, SharedPoints, LifeStep DEF LoopIInv
<1>2. CASE UNCHANGED vars \/ Crashed \/ QuietLoopStep \/ FollowNull
  <2>1. UNCHANGED << ready, blocked, running, state, freed, totalProcesses >>
    BY <1>2 DEF Crashed, FollowNull, QuietLoopStep, LoopRunInstruction, LoopIdle, LoopNoTrap,
                LoopIoTick, NoIoInterrupt, LoopWrap, RestartProgram, LoopNoWrap, vars,
                queueVars, pcbVars
  <2> QED
    BY <2>1, LifeStageIs DEF Created
<1>3. CASE LoopTrap
  BY <1>3, IoTrapLife DEF LoopTrap, LoopIInv, Life!Next
<1>4. CASE LoopIoInterrupt
  BY <1>4, IoInterruptLife DEF LoopIoInterrupt, LoopIInv, Life!Next
<1> QED
  BY <1>1, <1>2, <1>3, <1>4, LoopSteps

(* The loop of os_loop.c implements ProcessLife as well: a process gets    *)
(* the CPU only from the MLFQ, and only a round can lose one.              *)
THEOREM LoopLife == LoopSpec => ImplementsLife
<1>1. Init => Life!Init
  BY LifeInit
<1>2. LoopIInv /\ [LoopNext]_vars => [Life!Next]_LifeStage
  BY LoopLifeStep
<1> QED
  BY <1>1, <1>2, LoopInvariant, PTL DEF LoopSpec, ImplementsLife, Life!Spec

-----------------------------------------------------------------------------
(* No process has wrapped as often as its image allows and not halted.     *)
NoneDue == \A p \in Created : Within(term_count[p], image[p], state[p] = "HALT", FALSE)

(* Only between the wrap and the test of terminate may one be due.         *)
LoopTermInv == at # "crashed" => TermInv /\ (at # "terminate" => NoneDue)

(* A step that halts none, revives none and counts no wrap.                *)
LEMMA TermKept ==
  ASSUME IInv, TermInv, NoneDue, UNCHANGED << term_count, image, totalProcesses >>,
         \A p \in PCB : state'[p] = "HALT" <=> state[p] = "HALT"
  PROVE  TermInv' /\ NoneDue'
<1>1. Created' = Created /\ Created \subseteq PCB
  BY CreatedArePCBs DEF Created
<1>2. \A p \in Created : Within(term_count[p], image[p], state'[p] = "HALT", FALSE)
  BY <1>1 DEF NoneDue
<1>3. NoneDue'
  BY <1>1, <1>2 DEF NoneDue
<1>4. TermCountInRange'
  BY <1>1, <1>2 DEF TermCountInRange, Within
<1> QED
  BY <1>1, <1>3, <1>4 DEF TermInv

(* A trap and an I/O interrupt halt none and revive none.                  *)
LEMMA TrapHalts ==
  ASSUME IInv, at = "trap", IoTrapISR
  PROVE  /\ UNCHANGED << term_count, image, totalProcesses >>
         /\ \A p \in PCB : state'[p] = "HALT" <=> state[p] = "HALT"
<1>1. running \in PCB /\ state[running] = "RUNNING" /\ Interrupted = running
  BY RunningIsInterrupted DEF IInv, DerefSafe
<1> DEFINE st == [state EXCEPT ![running] = "WAIT"]
<1>2. st \in [PCB -> ProcessState] /\ \A p \in PCB : st[p] = "HALT" <=> state[p] = "HALT"
  BY <1>1 DEF IInv, TypeOK, ProcessState
<1>3. Dispatch(ready, st, NULL)
  BY <1>1 DEF IoTrapISR
<1> HIDE DEF st
<1>4. \A p \in PCB : state'[p] = "HALT" <=> st[p] = "HALT"
  BY <1>2, <1>3, DispatchHalts
<1> QED
  BY <1>2, <1>4 DEF IoTrapISR

(* An I/O interrupt leaves the state of every process as it is.            *)
LEMMA IoInterruptStates ==
  ASSUME IInv, IoInterruptISR
  PROVE  running' = running /\ state' = state /\ UNCHANGED << term_count, image, totalProcesses >>
<1>1. CASE running = NULL
  <2>1. Interrupted = NULL
    BY <1>1 DEF IInv, InterruptedIsTransient, Interrupted
  <2> QED
    BY <2>1 DEF IoInterruptISR
<1>2. CASE running # NULL
  <2>1. running \in PCB /\ state[running] = "RUNNING" /\ Interrupted = running
    BY <1>2, RunningIsInterrupted
  <2>2. running' = running /\ state' = [state EXCEPT ![running] = "RUNNING"]
    BY <1>2, <2>1 DEF IoInterruptISR
  <2> QED
    BY <2>1, <2>2 DEF IInv, TypeOK, IoInterruptISR
<1> QED
  BY <1>1, <1>2

(* The count of wraps agrees with the state after every step of the loop.  *)
LEMMA LoopTermStep == LoopIInv /\ LoopTermInv /\ [LoopNext]_vars => LoopTermInv'
<1> SUFFICES ASSUME LoopIInv, LoopTermInv, [LoopNext]_vars PROVE LoopTermInv'
  OBVIOUS
<1>1. CASE SharedStep
  <2>1. /\ at # "crashed" /\ [Next]_vars
        /\ at' \notin {"io", "terminate", "crashed"}
    BY <1>1, SharedPoints
  <2>2. TermInv'
    BY <2>1, TermStep DEF LoopIInv, LoopTermInv
  <2>3. NoneDue'
    BY <2>1, <2>2 DEF TermInv, TermCountInRange, NoneDue, Within
  <2> QED
    BY <2>2, <2>3 DEF LoopTermInv
<1>2. CASE UNCHANGED vars \/ Crashed
  BY <1>2 DEF Crashed, vars, pcbVars, LoopTermInv, TermInv, NoneDue, TermCountInRange, Created
<1>3. CASE LoopWrap
  <2>1. IInv /\ TermInv /\ at = "wrap" /\ running # NULL /\ RestartProgram /\ at' = "terminate"
    BY <1>3 DEF LoopWrap, LoopIInv, LoopTermInv
  <2> QED
    BY <2>1, TermWrap DEF LoopTermInv
<1>4. CASE LoopRunInstruction \/ LoopIdle \/ LoopNoTrap \/ LoopIoTick \/ LoopNoWrap
  <2>1. UNCHANGED << term_count, image, totalProcesses, state >> /\ at \notin {"terminate", "crashed"}
    BY <1>4 DEF LoopRunInstruction, LoopIdle, LoopNoTrap, LoopIoTick, NoIoInterrupt,
                LoopNoWrap, pcbVars
  <2> QED
    BY <2>1, TermKept DEF LoopIInv, LoopTermInv
<1>5. CASE LoopTrap
  BY <1>5, TrapHalts, TermKept DEF LoopTrap, LoopIInv, LoopTermInv
<1>6. CASE LoopIoInterrupt
  BY <1>6, IoInterruptStates, TermKept DEF LoopIoInterrupt, LoopIInv, LoopTermInv
<1>7. CASE FollowNull
  BY <1>7 DEF FollowNull, LoopTermInv
<1> QED
  BY <1>1, <1>2, <1>3, <1>4, <1>5, <1>6, <1>7, LoopSteps DEF QuietLoopStep

(* In this loop too, no process outlives its terminate count: the checks   *)
(* between the wrap and the test of terminate never change the CPU.        *)
THEOREM NoMissedTerminationAlways == LoopSpec => []NoMissedTermination
<1>1. Init => LoopTermInv
  BY DEF Init, LoopTermInv, TermInv, TermCountInRange, NoneDue, Created
<1>2. LoopIInv /\ LoopTermInv /\ [LoopNext]_vars => LoopTermInv'
  BY LoopTermStep
<1>3. LoopTermInv => NoMissedTermination
  BY DEF LoopTermInv, NoneDue, Within, NoMissedTermination
<1> QED
  BY <1>1, <1>2, <1>3, LoopInvariant, PTL DEF LoopSpec

-----------------------------------------------------------------------------
SomeWaits == \E p \in Range(blocked) \cup Queued : state[p] = "WAIT"

(* Past the trap an idle CPU means that a process waits.                   *)
IdleWaits == at \in {"io", "wrap", "crashed"} /\ running = NULL => SomeWaits

(* A trap that finds no successor leaves its own process waiting, and an   *)
(* I/O interrupt moves it from the blocked queue to the MLFQ at most.      *)
LEMMA IdleWaitsStep == LoopIInv /\ IdleWaits /\ [LoopNext]_vars => IdleWaits'
<1> SUFFICES ASSUME LoopIInv, IdleWaits, [LoopNext]_vars PROVE IdleWaits'
  OBVIOUS
<1>1. CASE SharedStep
  BY <1>1, SharedPoints DEF IdleWaits
<1>2. CASE UNCHANGED vars \/ Crashed \/ FollowNull \/ LoopIoTick
  BY <1>2 DEF Crashed, FollowNull, LoopIoTick, NoIoInterrupt, vars, queueVars, pcbVars,
              IdleWaits, SomeWaits, Queued, Members
<1>3. CASE LoopRunInstruction \/ LoopIdle \/ LoopNoTrap \/ LoopWrap \/ LoopNoWrap
  BY <1>3 DEF LoopRunInstruction, LoopIdle, LoopNoTrap, LoopWrap, LoopNoWrap,
              LoopIInv, IInv, DerefSafe, IdleWaits
<1>4. CASE LoopTrap
  <2>1. IInv /\ at = "trap" /\ at' = "io" /\ IoTrapISR
    BY <1>4 DEF LoopTrap, LoopIInv
  <2>2. running \in PCB /\ Interrupted = running /\ blocked \in Seq(PCB)
    BY <2>1, RunningIsInterrupted DEF IInv, DerefSafe, Places, Homes
  <2>3. blocked' = Append(blocked, running)
    BY <2>1, <2>2 DEF IoTrapISR, q_enqueue
  <2>4. running \in Range(blocked')
    BY <2>2, <2>3, AppendRange DEF IInv, Places, Homes
  <2>5. IInv'
    BY <2>1, IoTrapISRStep
  <2>6. state'[running] = "WAIT"
    BY <2>4, <2>5 DEF IInv, Places, Fits
  <2> QED
    BY <2>4, <2>6 DEF IdleWaits, SomeWaits
<1>5. CASE LoopIoInterrupt
  <2> DEFINE h == Head(blocked)
             q == pq_enqueue(ready, priority[h], h)
  <2>1. IInv /\ at = "io" /\ at' = "wrap" /\ IoInterruptISR
    BY <1>5 DEF LoopIoInterrupt, LoopIInv
  <2>2. running' = running /\ state' = state
    BY <2>1, IoInterruptStates
  <2>3. blocked # << >> /\ blocked' = Tail(blocked) /\ ready' = q
    BY <2>1 DEF IoInterruptISR
  <2>4. h \in Range(blocked) /\ Range(blocked') = Range(blocked) \ {h}
    BY <2>1, <2>3, TailRange DEF IInv, Places, Homes
  <2>5. h \in PCB /\ h \notin Members(ready) /\ priority[h] \in Level
    BY <2>1, <2>4, OnlyPCBs DEF IInv, TypeOK, Places, Homes
  <2>6. Members(q) = Members(ready) \cup {h}
    BY <2>1, <2>5, EnqueueSound DEF IInv, Places, Homes
  <2> HIDE DEF h, q
  <2>7. Range(blocked') \cup Members(ready') = Range(blocked) \cup Members(ready)
    BY <2>3, <2>4, <2>6
  <2> QED
    BY <2>1, <2>2, <2>7 DEF IdleWaits, SomeWaits, Queued
<1> QED
  BY <1>1, <1>2, <1>3, <1>4, <1>5, LoopSteps DEF QuietLoopStep

(* The crash of the loop is never for want of work.                        *)
THEOREM CrashLeavesWorkAlways == LoopSpec => []CrashLeavesWork
<1>1. Init => IdleWaits
  BY DEF Init, IdleWaits
<1>2. LoopIInv /\ IdleWaits /\ [LoopNext]_vars => IdleWaits'
  BY IdleWaitsStep
<1>3. LoopIInv /\ IdleWaits => CrashLeavesWork
  BY DEF LoopIInv, IdleWaits, SomeWaits, CrashLeavesWork
<1> QED
  BY <1>1, <1>2, <1>3, LoopInvariant, PTL DEF LoopSpec

-----------------------------------------------------------------------------
(* No PC passes the value that stands for all that match nothing any more. *)
PcBelow == pc \in [PCB -> 0 .. PC_BEYOND] /\ sysstack \in 0 .. PC_BEYOND

(* pseudoIRET stores a PC that was saved.                                  *)
LEMMA IretBelow ==
  ASSUME pc \in [PCB -> 0 .. PC_BEYOND], sysstack' \in 0 .. PC_BEYOND,
         running' \in PCB \cup {NULL}, pseudoIRET
  PROVE  pc' \in [PCB -> 0 .. PC_BEYOND]
BY DEF pseudoIRET

(* Neither an instruction nor an interrupt takes a PC beyond.              *)
LEMMA PcBelowStep == LoopIInv /\ PcBelow /\ [LoopNext]_vars => PcBelow'
<1> SUFFICES ASSUME LoopIInv, PcBelow, [LoopNext]_vars PROVE PcBelow'
  OBVIOUS
<1>0. PC_BEYOND \in Nat /\ 0 \in 0 .. PC_BEYOND
  BY PcBeyondAssumption
<1>1. at' # "crashed" => running' \in PCB \cup {NULL}
  BY LoopIInvStep DEF LoopIInv, IInv, TypeOK
<1>2. CASE TimerInterrupt
  <2>1. at' # "crashed" /\ sysstack' = sysstack /\ pseudoIRET
    BY <1>2 DEF TimerInterrupt
  <2> QED
    BY <1>1, <2>1, IretBelow DEF PcBelow
<1>3. CASE LoopTrap
  <2>1. at' # "crashed" /\ sysstack' = sysstack /\ pseudoIRET
    BY <1>3 DEF LoopTrap, IoTrapISR
  <2> QED
    BY <1>1, <2>1, IretBelow DEF PcBelow
<1>4. CASE LoopIoInterrupt
  <2>1. IInv /\ at' # "crashed" /\ IoInterruptISR /\ pseudoIRET
    BY <1>4 DEF LoopIoInterrupt, IoInterruptISR, LoopIInv
  <2>2. Interrupted \in PCB \cup {NULL}
    BY <2>1 DEF IInv, TypeOK, Interrupted
  <2>3. sysstack' \in 0 .. PC_BEYOND
    BY <2>1, <2>2 DEF IoInterruptISR, PcBelow
  <2> QED
    BY <1>1, <2>1, <2>3, IretBelow DEF PcBelow
<1>5. CASE LoopRunInstruction
  <2>1. running \in PCB /\ pc' = [pc EXCEPT ![running] = NextPC(@)] /\ sysstack' = sysstack
    BY <1>5 DEF LoopRunInstruction, LoopIInv, IInv, TypeOK
  <2>2. NextPC(pc[running]) \in 0 .. PC_BEYOND
    BY <1>0, <2>1 DEF PcBelow, NextPC
  <2> QED
    BY <2>1, <2>2 DEF PcBelow
<1>6. CASE LoopWrap
  BY <1>0, <1>6 DEF LoopWrap, RestartProgram, PcBelow
<1>7. CASE Boot \/ Spawn
  <2>1. SomeRound
    BY <1>7 DEF Boot, Spawn
  <2>2. pc' = pc /\ sysstack' = sysstack
    BY <2>1 DEF SomeRound, makePCBList
  <2> QED
    BY <2>2 DEF PcBelow
<1>8. CASE \/ TimerTick \/ NoTermination \/ Terminate \/ NoReset \/ BeginReset \/ ResetLevel
           \/ FinishReset \/ EndOfPass \/ Ended \/ UNCHANGED vars \/ Crashed
           \/ LoopIdle \/ LoopNoTrap \/ LoopIoTick \/ LoopNoWrap \/ FollowNull
  <2>1. pc' = pc /\ sysstack' = sysstack
    BY <1>8 DEF TimerTick, NoTermination, Terminate, NoReset, BeginReset, ResetLevel,
                FinishReset, EndOfPass, Ended, vars, Crashed, LoopIdle, LoopNoTrap, LoopIoTick,
                NoIoInterrupt, LoopNoWrap, FollowNull, pcbVars
  <2> QED
    BY <2>1 DEF PcBelow
<1> QED
  BY <1>2, <1>3, <1>4, <1>5, <1>6, <1>7, <1>8, LoopSteps DEF SharedStep, QuietLoopStep

(* While the loop runs its fields have the types of the scheduler's, and   *)
(* its crash leaves them as they are.                                      *)
LEMMA LoopTypeStep ==
  LoopIInv /\ PcBelow /\ LoopTypeOK /\ [LoopNext]_vars => PcBelow' /\ LoopTypeOK'
<1> SUFFICES ASSUME LoopIInv, PcBelow, LoopTypeOK, [LoopNext]_vars PROVE PcBelow' /\ LoopTypeOK'
  OBVIOUS
<1>1. PcBelow' /\ LoopIInv'
  BY PcBelowStep, LoopIInvStep
<1>2. CASE at' # "crashed"
  BY <1>1, <1>2 DEF LoopIInv, IInv, TypeOK, PcBelow, LoopTypeOK, LoopPoint
<1>3. CASE at' = "crashed"
  <2>1. FollowNull \/ Crashed \/ UNCHANGED vars
    <3>1. ~ SharedStep
      BY <1>3, SharedPoints
    <3>2. ~ QuietLoopStep /\ ~ LoopTrap /\ ~ LoopIoInterrupt
      BY <1>3 DEF QuietLoopStep, LoopRunInstruction, LoopIdle, LoopNoTrap, LoopIoTick,
                  LoopWrap, LoopNoWrap, LoopTrap, LoopIoInterrupt
    <3> QED
      BY <3>1, <3>2, LoopSteps
  <2>2. UNCHANGED << running, priority, pc, term_count, sysstack, iterationCount >>
    BY <2>1 DEF FollowNull, Crashed, vars, pcbVars
  <2> QED
    BY <1>1, <1>3, <2>2 DEF LoopTypeOK, LoopPoint
<1> QED
  BY <1>2, <1>3, <1>1

(* The loop's control and the counters it moves stay in their types, also  *)
(* when processes run past their max_pc and wrap no more.                  *)
THEOREM LoopTypeCorrect == LoopSpec => []LoopTypeOK
<1>1. Init => PcBelow /\ LoopTypeOK
  <2>1. PC_BEYOND \in Nat /\ 0 \in 0 .. PC_BEYOND
    BY PcBeyondAssumption
  <2> SUFFICES ASSUME Init PROVE PcBelow /\ LoopTypeOK
    OBVIOUS
  <2>2. IInv
    BY InitIInv
  <2>3. PcBelow
    BY <2>1 DEF Init, PcBelow
  <2> QED
    BY <2>2, <2>3 DEF IInv, TypeOK, PcBelow, LoopTypeOK, LoopPoint
<1>2. LoopIInv /\ PcBelow /\ LoopTypeOK /\ [LoopNext]_vars => PcBelow' /\ LoopTypeOK'
  BY LoopTypeStep
<1> QED
  BY <1>1, <1>2, LoopInvariant, PTL DEF LoopSpec

-----------------------------------------------------------------------------
(* What the handlers promise of the levels, the quantum and the I/O timer  *)
(* does not depend on the order in which a loop calls them.                *)

(* The quiet steps of this loop leave alone what these promises are about. *)
LEMMA QuietLoopLeaves ==
  ASSUME QuietLoopStep \/ FollowNull \/ Crashed \/ UNCHANGED vars
  PROVE  /\ UNCHANGED << ready, running, priority, currQuantumSize, totalProcesses,
                         quantum_tick, blocked, blocked_timer >>
         /\ NoIoInterrupt \/ io_timer' = io_timer
BY DEF QuietLoopStep, LoopRunInstruction, LoopIdle, LoopNoTrap, LoopIoTick, NoIoInterrupt, LoopWrap,
       LoopNoWrap, RestartProgram, FollowNull, Crashed, vars, queueVars, pcbVars, tickVars

(* The counters and levels of this loop, after every step.                 *)
LEMMA LoopLevelStep ==
  LoopIInv /\ LevelInv /\ [LoopNext]_vars =>
    /\ LevelInv'
    /\ running' = running \/ NoneMoreUrgent(ready', priority', running')
    /\ NoneOvertaken(ready')
<1> SUFFICES ASSUME LoopIInv, LevelInv, [LoopNext]_vars
             PROVE  /\ LevelInv'
                    /\ running' = running \/ NoneMoreUrgent(ready', priority', running')
                    /\ NoneOvertaken(ready')
  OBVIOUS
<1>1. CASE SharedStep
  BY <1>1, SharedPoints, LevelStep, HighestStep, OrderStep DEF LoopIInv
<1>2. CASE QuietLoopStep \/ FollowNull \/ Crashed \/ UNCHANGED vars
  <2>1. UNCHANGED << ready, running, priority, currQuantumSize, totalProcesses >>
    BY <1>2, QuietLoopLeaves
  <2>2. LevelInv'
    BY <2>1 DEF LevelInv, OnLevels, QuantumFitsRunning, Created
  <2> QED
    BY <2>1, <2>2, SameOrder
<1>3. CASE LoopTrap
  <2>1. IInv /\ TrapHandled
    BY <1>3 DEF LoopTrap, LoopIInv, TrapHandled
  <2> QED
    BY <2>1, LevelTrapTerminate, HandlerOrder
<1>4. CASE LoopIoInterrupt
  <2>1. IInv /\ IoInterruptISR
    BY <1>4 DEF LoopIoInterrupt, LoopIInv
  <2> QED
    BY <2>1, LevelIoInterrupt, HandlerOrder
<1> QED
  BY <1>1, <1>2, <1>3, <1>4, LoopSteps

(* The level invariant holds under this loop.                              *)
LEMMA LoopLevelInvariant == LoopSpec => []LevelInv
<1>1. Init => LevelInv
  BY LevelInit
<1>2. LoopIInv /\ LevelInv /\ [LoopNext]_vars => LevelInv'
  BY LoopLevelStep
<1> QED
  BY <1>1, <1>2, LoopInvariant, PTL DEF LoopSpec

(* A PCB waits on the level its priority names, and the quantum the timer  *)
(* counts to is that of the running process, under this loop as well.      *)
THEOREM LoopLevelsAlways == LoopSpec => [](LevelIsPriority /\ QuantumFitsRunning)
<1>1. LevelInv => LevelIsPriority /\ QuantumFitsRunning
  BY DEF LevelInv, OnLevels, LevelIsPriority
<1> QED
  BY <1>1, LoopLevelInvariant, PTL

(* Also under this loop the most urgent level is dispatched first and no   *)
(* process is overtaken on its level.                                      *)
THEOREM LoopQueueDiscipline == LoopSpec => HighestFirst /\ NoOvertaking
<1>1. LoopIInv /\ LevelInv /\ [LoopNext]_vars =>
        [running' \notin {running, NULL} =>
           \A l \in Level : l < priority'[running'] => ready'[l] = << >>]_vars
  BY LoopLevelStep DEF NoneMoreUrgent
<1>2. LoopIInv /\ LevelInv /\ [LoopNext]_vars =>
        [\A m \in Level : \A p \in Range(ready'[m]) \cap Queued : \A r \in Range(ready'[m]) :
           Ahead(ready'[m], r, p) => Before(ready, r, p)]_vars
  BY LoopLevelStep DEF NoneOvertaken, Queued
<1> QED
  BY <1>1, <1>2, LoopInvariant, LoopLevelInvariant, PTL DEF LoopSpec, HighestFirst, NoOvertaking

(* A step of this loop keeps the tick and the I/O timer within bounds.     *)
LEMMA LoopTimersStep ==
  /\ LoopIInv /\ IoInv /\ [LoopNext]_vars => IoInv'
  /\ QuantaGrow /\ LoopIInv /\ LevelInv /\ TickBounded /\ [LoopNext]_vars => TickBounded'
<1>1. ASSUME LoopIInv, IoInv, [LoopNext]_vars PROVE IoInv'
  <2>1. CASE SharedStep
    BY <1>1, <2>1, SharedPoints, IoStep DEF LoopIInv
  <2>2. CASE QuietLoopStep
    <3>1. IInv
      BY <1>1, <2>2 DEF LoopIInv, QuietLoopStep, LoopRunInstruction, LoopIdle, LoopNoTrap,
                        LoopIoTick, LoopWrap, LoopNoWrap
    <3> QED
      BY <1>1, <2>2, <3>1, QuietLoopLeaves, IoHandled
  <2>3. CASE LoopTrap
    BY <1>1, <2>3, IoHandled DEF LoopTrap, LoopIInv, TrapHandled
  <2>4. CASE LoopIoInterrupt
    BY <1>1, <2>4, IoHandled DEF LoopIoInterrupt, LoopIInv
  <2>5. CASE FollowNull \/ Crashed \/ UNCHANGED vars
    <3>1. UNCHANGED << blocked, blocked_timer, io_timer >>
      BY <2>5 DEF FollowNull, Crashed, vars, queueVars, pcbVars, tickVars
    <3> QED
      BY <1>1, <3>1 DEF IoInv, IoTimerFollowsHead
  <2> QED
    BY <1>1, <2>1, <2>2, <2>3, <2>4, <2>5, LoopSteps
<1>2. ASSUME QuantaGrow, LoopIInv, LevelInv, TickBounded, [LoopNext]_vars PROVE TickBounded'
  <2>1. CASE SharedStep
    BY <1>2, <2>1, SharedPoints, TickStep DEF LoopIInv
  <2>2. CASE ~SharedStep
    <3>1. quantum_tick' = quantum_tick
      BY <1>2, <2>2, LoopSteps, QuietLoopLeaves
      DEF LoopTrap, LoopIoInterrupt, IoTrapISR, IoInterruptISR, tickVars
    <3> QED
      BY <1>2, <3>1 DEF TickBounded
  <2> QED
    BY <2>1, <2>2
<1> QED
  BY <1>1, <1>2

(* The I/O timer follows the head of the blocked queue under this loop.    *)
THEOREM LoopIoTimerAlways == LoopSpec => []IoTimerFollowsHead
<1>1. Init => IoInv
  BY DEF Init, IoInv, IoTimerFollowsHead, Range
<1>2. LoopIInv /\ IoInv /\ [LoopNext]_vars => IoInv'
  BY LoopTimersStep
<1>3. IoInv => IoTimerFollowsHead
  BY DEF IoInv
<1> QED
  BY <1>1, <1>2, <1>3, LoopInvariant, PTL DEF LoopSpec

(* No tick outgrows the longest quantum under this loop either.            *)
THEOREM LoopTickAlways ==
  ASSUME QuantaGrow
  PROVE  LoopSpec => []TickBounded
<1>1. Init => TickBounded
  BY LongestQuantum, ConstantsFact DEF Init, TickBounded
<1>2. LoopIInv /\ LevelInv /\ TickBounded /\ [LoopNext]_vars => TickBounded'
  BY LoopTimersStep
<1> QED
  BY <1>1, <1>2, LoopInvariant, LoopLevelInvariant, PTL DEF LoopSpec
=============================================================================
