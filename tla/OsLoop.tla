------------------------------- MODULE OsLoop -------------------------------
(***************************************************************************)
(* The variant of the loop in os_loop.c, with a main of its own.  It calls *)
(* the handlers of scheduler.c but differs from the loop there: the I/O    *)
(* check comes before the wrap of the PC, the wrap tests for equality and  *)
(* follows running without a test for NULL, an idle pass goes through      *)
(* terminate as well, and every reset creates a round of PCBs.             *)
(***************************************************************************)
EXTENDS SchedulerProps

(* A PC above every max_pc and every trap matches none of them any more;   *)
(* one value stands for all of those.                                      *)
CONSTANT PC_BEYOND

ASSUME PcBeyondAssumption ==
  /\ PC_BEYOND \in Nat
  /\ \A i \in Image : i.max_pc < PC_BEYOND /\ \A t \in i.traps : t < PC_BEYOND

LoopPoint == ControlPoint \cup {"crashed"}

NextPC(n) == IF n < PC_BEYOND THEN n + 1 ELSE n

(* One pass of the loop body.                                              *)
LoopRunInstruction ==
  /\ at = "top"
  /\ running # NULL
  /\ pc' = [pc EXCEPT ![running] = NextPC(@)]
  /\ at' = "timer"
  /\ UNCHANGED << queueVars, running, interrupted, isNew, state, priority,
                  term_count, blocked_timer, image, freed, sysstack,
                  currQuantumSize, tickVars, totalProcesses, iterationCount, resetVars >>

(* Without the else, an idle pass would go on to the checks.               *)
MutantLoopIdle ==
  /\ at = "top"
  /\ running = NULL
  /\ iterationCount' = NextIteration(iterationCount)
  /\ at' = "wrap"
  /\ UNCHANGED << queueVars, running, interrupted, isNew, pcbVars, sysstack,
                  currQuantumSize, tickVars, totalProcesses, resetVars >>

LoopIdle ==
  /\ at = "top"
  /\ running = NULL
  /\ iterationCount' = NextIteration(iterationCount)
  /\ at' = "terminate"
  /\ UNCHANGED << queueVars, running, interrupted, isNew, pcbVars, sysstack,
                  currQuantumSize, tickVars, totalProcesses, resetVars >>

LoopNoTrap ==
  /\ at = "trap"
  /\ ~TrapReached(running)
  /\ at' = "io"
  /\ UNCHANGED << queueVars, running, interrupted, isNew, pcbVars, sysstack,
                  currQuantumSize, tickVars, totalProcesses, iterationCount, resetVars >>

(* The checks for interrupts come one after the other, the wrap last.      *)
LoopTrap ==
  /\ at = "trap"
  /\ TrapReached(running)
  /\ IoTrapISR
  /\ at' = "io"

LoopIoTick ==
  /\ at = "io"
  /\ NoIoInterrupt
  /\ at' = "wrap"

LoopIoInterrupt ==
  /\ at = "io"
  /\ IoInterruptISR
  /\ at' = "wrap"

(* Equality, where the loop of scheduler.c tests for >=.                   *)
WrapMatches(p) == pc[p] = image[p].max_pc

(* The test of terminate could come before the wrap.                       *)
MutantLoopWrap ==
  /\ at = "wrap"
  /\ running # NULL
  /\ WrapMatches(running)
  /\ RestartProgram
  /\ at' = "reset?"

LoopWrap ==
  /\ at = "wrap"
  /\ running # NULL
  /\ WrapMatches(running)
  /\ RestartProgram
  /\ at' = "terminate"

LoopNoWrap ==
  /\ at = "wrap"
  /\ running # NULL
  /\ ~WrapMatches(running)
  /\ at' = "terminate"
  /\ UNCHANGED << queueVars, running, interrupted, isNew, pcbVars, sysstack,
                  currQuantumSize, tickVars, totalProcesses, iterationCount, resetVars >>

(* The wrap follows running although the trap may have left none.          *)
FollowNull ==
  /\ at = "wrap"
  /\ running = NULL
  /\ at' = "crashed"
  /\ UNCHANGED << queueVars, running, interrupted, isNew, pcbVars, sysstack,
                  currQuantumSize, tickVars, totalProcesses, iterationCount, resetVars >>

(* The process of the simulator is gone.                                   *)
Crashed == at = "crashed" /\ UNCHANGED vars

LoopNext ==
  \/ Boot \/ LoopRunInstruction \/ LoopIdle
  \/ TimerTick \/ TimerInterrupt
  \/ LoopNoTrap \/ LoopTrap \/ LoopIoTick \/ LoopIoInterrupt
  \/ LoopWrap \/ LoopNoWrap \/ FollowNull \/ Crashed
  \/ NoTermination \/ Terminate
  \/ NoReset \/ BeginReset \/ ResetLevel \/ FinishReset
  \/ Spawn \/ EndOfPass \/ Ended

LoopSpec == Init /\ [][LoopNext]_vars

-----------------------------------------------------------------------------
(* The loop's control and the counters it moves stay in their types.       *)
LoopTypeOK ==
  /\ at \in LoopPoint
  /\ running \in PCB \cup {NULL}
  /\ priority \in [PCB -> Level]
  /\ pc \in [PCB -> 0 .. PC_BEYOND]
  /\ term_count \in [PCB -> Nat]
  /\ sysstack \in 0 .. PC_BEYOND
  /\ iterationCount \in 1 .. 2 * RESET_COUNT

(* A process whose count has reached terminate halts in the same pass: no  *)
(* interrupt lies between the wrap and the test, and no pass begins with   *)
(* such a process anywhere, or terminate's == would never find it again.   *)
(* The comments of terminate and scheduling (scheduler.c:247-249, 377-379) *)
(* would have it halt one wrap later, over its maximum.                    *)
NoMissedTermination ==
  at \notin {"terminate", "crashed"} =>
    \A p \in Created : image[p].terminate > 0 /\ state[p] # "HALT" =>
                         term_count[p] < image[p].terminate

(* The simulator never crashes for want of work: whenever it follows the   *)
(* null running pointer, the process whose trap emptied the CPU waits for  *)
(* its I/O or, woken in this very pass, for the CPU.                       *)
CrashLeavesWork ==
  at = "crashed" => \E p \in Range(blocked) \cup Queued : state[p] = "WAIT"

(* The program blocks nowhere, and a draw of rand() that can create PCBs   *)
(* and is made again and again does.                                       *)
LoopFairSpec == LoopSpec /\ WF_vars(LoopNext) /\ SF_vars(Creates)


-----------------------------------------------------------------------------
(* os_loop.c:67-71: each pass checks all interrupt types "and eventually   *)
(* an IRET to return to the top of the loop and start with the new         *)
(* process".                                                               *)
LoopSurvives == at # "crashed"
=============================================================================
