--------------------------- MODULE SchedulerProofs ---------------------------
(***************************************************************************)
(* The scheduler keeps every PCB in one place, in a state that fits the    *)
(* place, never touches a PCB it released and never dereferences a null    *)
(* running pointer, for every number of levels, PCBs and processes.        *)
(*                                                                         *)
(* The inductive invariant IInv is the conjunction of these with what they *)
(* rest on: only PCBs that were created are in a place or released, and    *)
(* rounds are only created while fewer than MAX_PCB_TOTAL PCBs exist.      *)
(* From it follows that the scheduler implements ProcessLife.              *)
(***************************************************************************)
EXTENDS SchedulerProps, MLFQProofs

(* The MLFQ q, the blocked queue b, the killed queue k and the running     *)
(* process r share no PCB.                                                 *)
Homes(q, b, k, r) ==
  /\ Sound(q, PCB)
  /\ b \in Seq(PCB) /\ IsInjective(b)
  /\ k \in Seq(PCB) /\ IsInjective(k)
  /\ r \in PCB \cup {NULL}
  /\ Range(b) \cap Members(q) = {}
  /\ Range(k) \cap (Members(q) \cup Range(b)) = {}
  /\ r \notin Members(q) \cup Range(b) \cup Range(k)

(* The states st fit these places.                                         *)
Fits(q, b, k, r, st) ==
  /\ st \in [PCB -> ProcessState]
  /\ r # NULL => st[r] = "RUNNING"
  /\ \A p \in Members(q) : st[p] \in {"READY", "WAIT"}
  /\ \A p \in Range(b) : st[p] = "WAIT"
  /\ \A p \in Range(k) : st[p] = "HALT"

(* The PCBs in these places.                                               *)
InPlaces(q, b, k, r) == Members(q) \cup Range(b) \cup Range(k) \cup ({r} \ {NULL})

(* A round is only created below MAX_PCB_TOTAL, so that PIDs stay in PCB.  *)
RoomForRound ==
  /\ totalProcesses \in Nat
  /\ at = "boot" => totalProcesses = 0
  /\ at \notin {"end?", "ended"} => totalProcesses < MAX_PCB_TOTAL
  /\ totalProcesses <= (MAX_PCB_TOTAL - 1) + (MAX_PCB_IN_ROUND - 1)

Places ==
  /\ Homes(ready, blocked, killed, running)
  /\ Fits(ready, blocked, killed, running, state)
  /\ InPlaces(ready, blocked, killed, running) \subseteq Created
  /\ freed \subseteq Created
  /\ freed \cap InPlaces(ready, blocked, killed, running) = {}
  /\ Len(killed) < TOTAL_TERMINATED

IInv == TypeOK /\ Places /\ RoomForRound /\ DerefSafe /\ InterruptedIsTransient

-----------------------------------------------------------------------------
(* Arithmetic of the constants.                                            *)
LEMMA ConstantsFact ==
  /\ Level \subseteq Nat
  /\ 0 \in Level
  /\ PCB \subseteq Nat
  /\ NULL \notin PCB
  /\ \A l \in Level : Demoted(l) \in Level /\ QuantumSize(l) \in Nat
BY MLFQAssumption, SchedulerAssumption DEF Level, PCB, Demoted, QuantumSize

(* Emptying the killed queue releases only PCBs of it.                     *)
LEMMA ReapHomes ==
  ASSUME NEW q, NEW b, NEW k, NEW r, Homes(q, b, k, r),
         freed \subseteq PCB, freed \cap InPlaces(q, b, k, r) = {},
         Len(k) <= TOTAL_TERMINATED, ReapKilled(k)
  PROVE  /\ Homes(q, b, killed', r)
         /\ Range(killed') \subseteq Range(k)
         /\ freed' \subseteq freed \cup Range(k)
         /\ freed' \subseteq PCB
         /\ freed' \cap InPlaces(q, b, killed', r) = {}
         /\ Len(killed') < TOTAL_TERMINATED
<1>1. /\ k \in Seq(PCB)
      /\ Len(k) \in Nat
      /\ DOMAIN k = 1 .. Len(k)
      /\ Range(k) \subseteq PCB
  BY LenProperties DEF Homes, Range
<1>2. Released(k) \subseteq Range(k)
  BY <1>1 DEF Released, Range
<1>3. CASE KilledFull(k)
  <2>1. killed' = << >> /\ freed' = freed \cup Released(k)
    BY <1>3 DEF ReapKilled
  <2>2. Range(<< >>) = {} /\ IsInjective(<< >>) /\ << >> \in Seq(PCB) /\ Len(<< >>) = 0
    BY EmptySeq DEF Range, IsInjective
  <2>3. Homes(q, b, killed', r)
    BY <2>1, <2>2 DEF Homes
  <2>4. Range(k) \cap (Members(q) \cup Range(b) \cup ({r} \ {NULL})) = {}
    BY DEF Homes
  <2>5. freed' \cap InPlaces(q, b, killed', r) = {}
    BY <2>1, <2>2, <2>4, <1>2 DEF InPlaces
  <2> QED
    BY <1>1, <1>2, <2>1, <2>2, <2>3, <2>5, SchedulerAssumption
<1>4. CASE ~ KilledFull(k)
  <2>1. killed' = k /\ freed' = freed
    BY <1>4 DEF ReapKilled
  <2>2. Len(k) < TOTAL_TERMINATED
    BY <1>1, <1>4, SchedulerAssumption DEF KilledFull
  <2> QED
    BY <2>1, <2>2
<1> QED
  BY <1>3, <1>4

(* The dispatcher moves the first PCB of the MLFQ, if there is one, to the *)
(* CPU, and leaves every other PCB where and as it is.                     *)
LEMMA DispatchHomes ==
  ASSUME NEW q, NEW b, NEW k, NEW st, NEW intr,
         Homes(q, b, k, NULL), Fits(q, b, k, NULL, st),
         currQuantumSize \in Nat, Dispatch(q, st, intr)
  PROVE  /\ Homes(ready', b, k, running')
         /\ Fits(ready', b, k, running', state')
         /\ InPlaces(ready', b, k, running') = InPlaces(q, b, k, NULL)
         /\ running' = NULL <=> pq_is_empty(q)
         /\ interrupted' \in {NULL, intr}
         /\ currQuantumSize' \in Nat
         /\ running' # NULL => /\ interrupted' = NULL
                               /\ TopLevel(q) \in Level
                               /\ running' \in Range(q[TopLevel(q)])
                               /\ currQuantumSize' = QuantumSize(TopLevel(q))
         /\ \A l \in Level : Range(ready'[l]) = Range(q[l]) \ {running'}
<1>1. Sound(q, PCB) /\ Members(q) \subseteq PCB
  BY MembersSubset DEF Homes
<1>2. CASE pq_is_empty(q)
  <2>1. pq_peek(q) = NULL
    BY <1>2 DEF pq_peek
  <2>2. /\ running' = NULL /\ ready' = q /\ state' = st
        /\ currQuantumSize' = currQuantumSize /\ interrupted' = intr
    BY <2>1 DEF Dispatch
  <2>3. \A l \in Level : NULL \notin Range(q[l])
    BY <1>1, InMembers, ConstantsFact
  <2>4. \A l \in Level : Range(ready'[l]) = Range(q[l]) \ {running'}
    BY <2>2, <2>3
  <2> QED
    BY <2>2, <2>4, <1>2
<1>3. CASE ~ pq_is_empty(q)
  <2> DEFINE h == pq_peek(q)
             r == pq_dequeue(q)
             t == TopLevel(q)
  <2>1. /\ h \in Members(q) /\ t \in Level /\ h \in Range(q[t])
        /\ Sound(r, PCB) /\ Members(r) = Members(q) \ {h}
        /\ \A m \in Level : Range(r[m]) = Range(q[m]) \ {h}
    BY <1>1, <1>3, DequeueSound
  <2>2. getNextQuantumSize(q) = QuantumSize(t)
    BY <1>3 DEF getNextQuantumSize
  <2> HIDE DEF h, r, t
  <2>3. h \in PCB /\ h # NULL /\ st[h] \in {"READY", "WAIT"}
    BY <2>1, <1>1, ConstantsFact DEF Fits
  <2>4. /\ running' = h /\ ready' = r /\ state' = [st EXCEPT ![h] = "RUNNING"]
        /\ currQuantumSize' = QuantumSize(t) /\ interrupted' = NULL
    BY <2>2, <2>3 DEF Dispatch, h, r
  <2>5. Homes(r, b, k, h)
    BY <2>1, <2>3 DEF Homes
  <2>6. Fits(r, b, k, h, state')
    <3>1. h \notin Range(b) /\ h \notin Range(k)
      BY <2>1 DEF Homes
    <3>2. state' \in [PCB -> ProcessState] /\ state'[h] = "RUNNING"
      BY <2>3, <2>4 DEF Fits, ProcessState
    <3>3. \A p \in PCB : p # h => state'[p] = st[p]
      BY <2>4 DEF Fits
    <3>4. Range(b) \subseteq PCB /\ Range(k) \subseteq PCB
      BY LenProperties DEF Homes, Range
    <3> QED
      BY <3>1, <3>2, <3>3, <3>4, <2>1, <1>1 DEF Fits
  <2>7. InPlaces(r, b, k, h) = InPlaces(q, b, k, NULL)
    BY <2>1, <2>3 DEF InPlaces
  <2>8. QuantumSize(t) \in Nat
    BY <2>1, ConstantsFact
  <2> QED
    BY <1>3, <2>1, <2>3, <2>4, <2>5, <2>6, <2>7, <2>8 DEF t
<1> QED
  BY <1>2, <1>3

(* scheduling, for the interrupts that choose a new running process: from  *)
(* places without a running process to places with one.                    *)
LEMMA SchedulingHomes ==
  ASSUME NEW q, NEW b, NEW k, NEW st, NEW intr,
         Homes(q, b, k, NULL), Fits(q, b, k, NULL, st),
         InPlaces(q, b, k, NULL) \subseteq Created,
         freed \subseteq PCB, freed \subseteq Created,
         freed \cap InPlaces(q, b, k, NULL) = {}, Len(k) <= TOTAL_TERMINATED,
         currQuantumSize \in Nat, ReapKilled(k), Dispatch(q, st, intr)
  PROVE  /\ Homes(ready', b, killed', running')
         /\ Fits(ready', b, killed', running', state')
         /\ InPlaces(ready', b, killed', running') \subseteq Created
         /\ freed' \subseteq PCB
         /\ freed' \subseteq Created
         /\ freed' \cap InPlaces(ready', b, killed', running') = {}
         /\ Len(killed') < TOTAL_TERMINATED
         /\ ~ pq_is_empty(q) => running' # NULL
         /\ interrupted' \in {NULL, intr}
         /\ running' # NULL => interrupted' = NULL
         /\ currQuantumSize' \in Nat
<1>1. /\ Homes(q, b, killed', NULL)
      /\ Range(killed') \subseteq Range(k)
      /\ freed' \subseteq freed \cup Range(k)
      /\ freed' \subseteq PCB
      /\ freed' \cap InPlaces(q, b, killed', NULL) = {}
      /\ Len(killed') < TOTAL_TERMINATED
  BY ReapHomes
<1>2. Fits(q, b, killed', NULL, st)
  BY <1>1 DEF Fits
<1>3. /\ Homes(ready', b, killed', running')
      /\ Fits(ready', b, killed', running', state')
      /\ InPlaces(ready', b, killed', running') = InPlaces(q, b, killed', NULL)
      /\ running' = NULL <=> pq_is_empty(q)
      /\ interrupted' \in {NULL, intr}
      /\ running' # NULL => interrupted' = NULL
      /\ currQuantumSize' \in Nat
  BY <1>1, <1>2, DispatchHomes
<1>4. InPlaces(q, b, killed', NULL) \subseteq Created /\ freed' \subseteq Created
  BY <1>1 DEF InPlaces
<1> QED
  BY <1>1, <1>3, <1>4

(* pseudoIRET stores a PC.                                                 *)
LEMMA IretType ==
  ASSUME pc \in [PCB -> Nat], sysstack' \in Nat, running' \in PCB \cup {NULL}, pseudoIRET
  PROVE  pc' \in [PCB -> Nat]
BY DEF pseudoIRET

(* A step that moves no PCB keeps the places, whatever control does.       *)
LEMMA PlacesKept ==
  ASSUME IInv, UNCHANGED << queueVars, running, interrupted, state, freed, totalProcesses >>,
         at' # "boot", at' \in {"end?", "ended"} \/ at \notin {"end?", "ended"}
                       \/ totalProcesses < MAX_PCB_TOTAL
  PROVE  Places' /\ RoomForRound' /\ InterruptedIsTransient'
<1>1. Places'
  BY DEF IInv, Places, queueVars, Homes, Fits, InPlaces, Created
<1>2. RoomForRound'
  BY DEF IInv, RoomForRound
<1>3. InterruptedIsTransient'
  BY DEF IInv, InterruptedIsTransient
<1> QED
  BY <1>1, <1>2, <1>3

-----------------------------------------------------------------------------
(* The constructor's state satisfies the invariant.                        *)
LEMMA InitIInv == Init => IInv
<1> SUFFICES ASSUME Init PROVE IInv
  OBVIOUS
<1>1. Range(<< >>) = {} /\ IsInjective(<< >>) /\ << >> \in Seq(PCB) /\ Len(<< >>) = 0
  BY EmptySeq DEF Range, IsInjective
<1>2. Sound(ready, PCB) /\ Members(ready) = {}
  BY CreateSound DEF Init
<1>3. Homes(ready, blocked, killed, running)
  BY <1>1, <1>2 DEF Init, Homes
<1>4. Fits(ready, blocked, killed, running, state)
  BY <1>1, <1>2 DEF Init, Fits, ProcessState
<1>5. InPlaces(ready, blocked, killed, running) = {}
  BY <1>1, <1>2 DEF Init, InPlaces
<1>6. Places
  BY <1>1, <1>3, <1>4, <1>5, SchedulerAssumption DEF Init, Places
<1>7. RoomForRound
  BY SchedulerAssumption DEF Init, RoomForRound
<1>8. TypeOK
  <2>1. ready \in [Level -> Seq(PCB)]
    BY <1>2 DEF Sound
  <2> QED
    BY <2>1, <1>1, ConstantsFact, MLFQAssumption, SchedulerAssumption
    DEF Init, TypeOK, ControlPoint, ProcessState
<1> QED
  BY <1>6, <1>7, <1>8 DEF Init, IInv, DerefSafe, InterruptedIsTransient

(* IInv gives the named places and states their properties.                *)
LEMMA IInvImplies ==
  IInv => OneHome /\ StateFitsPlace /\ NoUseAfterFree /\ KilledBelowLimit
<1> SUFFICES ASSUME IInv PROVE OneHome /\ StateFitsPlace /\ NoUseAfterFree /\ KilledBelowLimit
  OBVIOUS
<1>1. OneHome
  BY DEF IInv, Places, Homes, Sound, OneHome, Queued
<1>2. StateFitsPlace
  BY DEF IInv, Places, Fits, StateFitsPlace, Queued
<1>3. NoUseAfterFree /\ KilledBelowLimit
  BY DEF IInv, Places, InPlaces, NoUseAfterFree, Housed, Queued, KilledBelowLimit
<1> QED
  BY <1>1, <1>2, <1>3

-----------------------------------------------------------------------------
(* The checks of osLoop that move no PCB.                                  *)
LEMMA QuietStep ==
  ASSUME IInv,
         \/ RunInstruction \/ Idle \/ TimerTick \/ NoTrap \/ WrapPC \/ NoWrap
         \/ IoTick \/ NoTermination \/ NoReset \/ BeginReset \/ FinishReset
         \/ NoSpawn \/ EndOfPass
  PROVE  IInv'
<1> USE DEF IInv
<1>1. CASE RunInstruction
  <2>1. Places' /\ RoomForRound' /\ InterruptedIsTransient'
    BY <1>1, PlacesKept DEF RunInstruction
  <2>2. TypeOK'
    BY <1>1 DEF RunInstruction, TypeOK, ControlPoint, queueVars, tickVars, resetVars
  <2> QED
    BY <1>1, <2>1, <2>2 DEF RunInstruction, DerefSafe
<1>2. CASE Idle
  <2>1. Places' /\ RoomForRound' /\ InterruptedIsTransient'
    BY <1>2, PlacesKept DEF Idle, pcbVars
  <2>2. NextIteration(iterationCount) \in 1 .. 2 * RESET_COUNT
    BY SchedulerAssumption DEF NextIteration, TypeOK
  <2>3. TypeOK'
    BY <1>2, <2>2 DEF Idle, TypeOK, ControlPoint, queueVars, pcbVars, tickVars, resetVars
  <2> QED
    BY <1>2, <2>1, <2>3 DEF Idle, DerefSafe
<1>3. CASE TimerTick
  <2>1. Places' /\ RoomForRound' /\ InterruptedIsTransient'
    BY <1>3, PlacesKept DEF TimerTick, pcbVars
  <2>2. TypeOK'
    BY <1>3 DEF TimerTick, TypeOK, ControlPoint, queueVars, pcbVars, resetVars
  <2> QED
    BY <1>3, <2>1, <2>2 DEF TimerTick, DerefSafe
<1>4. CASE NoTrap \/ NoWrap \/ NoTermination \/ NoReset \/ BeginReset
  <2> USE DEF NoTrap, NoWrap, NoTermination, NoReset, BeginReset
  <2>1. Places' /\ RoomForRound' /\ InterruptedIsTransient'
    BY <1>4, PlacesKept DEF pcbVars
  <2>2. TypeOK'
    BY <1>4 DEF TypeOK, ControlPoint, queueVars, pcbVars, tickVars, resetVars
  <2> QED
    BY <1>4, <2>1, <2>2 DEF DerefSafe
<1>5. CASE WrapPC
  <2>1. Places' /\ RoomForRound' /\ InterruptedIsTransient'
    BY <1>5, PlacesKept DEF WrapPC, RestartProgram
  <2>2. NextTermCount(running) \in Nat /\ running \in PCB
    BY <1>5 DEF WrapPC, RestartProgram, NextTermCount, TypeOK
  <2>3. TypeOK'
    BY <1>5, <2>2 DEF WrapPC, RestartProgram, TypeOK, ControlPoint, queueVars, tickVars, resetVars
  <2> QED
    BY <1>5, <2>1, <2>3 DEF WrapPC, RestartProgram, DerefSafe
<1>6. CASE IoTick
  <2>1. Places' /\ RoomForRound' /\ InterruptedIsTransient'
    BY <1>6, PlacesKept DEF IoTick, NoIoInterrupt, pcbVars
  <2>2. TypeOK'
    BY <1>6 DEF IoTick, NoIoInterrupt, TypeOK, ControlPoint, queueVars, pcbVars, resetVars
  <2> QED
    BY <1>6, <2>1, <2>2 DEF IoTick, NoIoInterrupt, DerefSafe
<1>7. CASE FinishReset
  <2>1. Places' /\ RoomForRound' /\ InterruptedIsTransient'
    BY <1>7, PlacesKept DEF FinishReset, pcbVars
  <2>2. TypeOK'
    BY <1>7, MLFQAssumption DEF FinishReset, TypeOK, ControlPoint, queueVars, pcbVars, tickVars
  <2> QED
    BY <1>7, <2>1, <2>2 DEF FinishReset, DerefSafe
<1>8. CASE NoSpawn
  <2>1. Places' /\ RoomForRound' /\ InterruptedIsTransient'
    BY <1>8, PlacesKept DEF NoSpawn, pcbVars
  <2>2. TypeOK'
    BY <1>8, SchedulerAssumption
    DEF NoSpawn, TypeOK, ControlPoint, queueVars, pcbVars, tickVars, resetVars
  <2> QED
    BY <1>8, <2>1, <2>2 DEF NoSpawn, DerefSafe
<1>9. CASE EndOfPass
  <2>1. totalProcesses \in Nat /\ MAX_PCB_TOTAL \in Nat
    BY SchedulerAssumption DEF TypeOK
  <2>2. Places' /\ RoomForRound' /\ InterruptedIsTransient'
    BY <1>9, <2>1, PlacesKept DEF EndOfPass, pcbVars
  <2>3. TypeOK'
    BY <1>9 DEF EndOfPass, TypeOK, ControlPoint, queueVars, pcbVars, tickVars, resetVars
  <2> QED
    BY <1>9, <2>2, <2>3 DEF EndOfPass, DerefSafe
<1> QED
  BY <1>1, <1>2, <1>3, <1>4, <1>5, <1>6, <1>7, <1>8, <1>9

(* The running process, when there is one, is what an interrupt saves.     *)
LEMMA RunningIsInterrupted ==
  ASSUME IInv, running # NULL
  PROVE  /\ running \in PCB
         /\ state[running] = "RUNNING"
         /\ Interrupted = running
         /\ running \notin Members(ready) \cup Range(blocked) \cup Range(killed)
         /\ running \in Created
BY DEF IInv, TypeOK, Places, Homes, Fits, InPlaces, Interrupted

(* The iteration count stays in its window.                                *)
LEMMA IterationType ==
  ASSUME TypeOK
  PROVE  NextIteration(iterationCount) \in 1 .. 2 * RESET_COUNT
BY SchedulerAssumption DEF NextIteration, TypeOK

(* Only PCBs are in the queues, so the null pointer is not.                *)
LEMMA OnlyPCBs ==
  ASSUME NEW q, Sound(q, PCB), NEW b \in Seq(PCB), NEW k \in Seq(PCB)
  PROVE  /\ Members(q) \subseteq PCB
         /\ Range(b) \subseteq PCB
         /\ Range(k) \subseteq PCB
         /\ NULL \notin Members(q) \cup Range(b) \cup Range(k)
<1>1. Members(q) \subseteq PCB
  BY MembersSubset
<1>2. Range(b) \subseteq PCB /\ Range(k) \subseteq PCB
  BY LenProperties DEF Range
<1> QED
  BY <1>1, <1>2, ConstantsFact

(* The timer interrupt: the running process goes to the MLFQ, so that the  *)
(* dispatcher finds one.                                                   *)
LEMMA TimerInterruptStep == IInv /\ TimerInterrupt => IInv'
<1> SUFFICES ASSUME IInv, TimerInterrupt PROVE IInv'
  OBVIOUS
<1> DEFINE l == Demoted(priority[running])
           q == pq_enqueue(ready, l, running)
           st == [state EXCEPT ![running] = "READY"]
<1>1. running # NULL
  BY DEF IInv, DerefSafe, TimerInterrupt
<1>2. /\ running \in PCB
      /\ Interrupted = running
      /\ running \notin Members(ready) \cup Range(blocked) \cup Range(killed)
  BY <1>1, RunningIsInterrupted
<1>3. /\ at = "timer" /\ at' = "trap"
      /\ quantum_tick' = 0
      /\ priority' = [priority EXCEPT ![running] = l]
      /\ ReapKilled(killed)
      /\ Dispatch(q, st, running)
      /\ sysstack' = sysstack
      /\ pseudoIRET
      /\ iterationCount' = NextIteration(iterationCount)
      /\ UNCHANGED << blocked, isNew, term_count, blocked_timer, image, io_timer,
                      totalProcesses, resetVars >>
  BY <1>2 DEF TimerInterrupt
<1>4. l \in Level
  BY <1>2, ConstantsFact DEF IInv, TypeOK
<1>5. Sound(q, PCB) /\ Members(q) = Members(ready) \cup {running} /\ ~ pq_is_empty(q)
  BY <1>2, <1>4, EnqueueSound DEF IInv, Places, Homes
<1> HIDE DEF q, l
<1>6. Homes(q, blocked, killed, NULL)
  <2>1. NULL \notin Members(q) \cup Range(blocked) \cup Range(killed)
    BY <1>5, OnlyPCBs DEF IInv, TypeOK
  <2> QED
    BY <1>2, <1>5, <2>1 DEF IInv, Places, Homes
<1>7. Fits(q, blocked, killed, NULL, st)
  <2>1. \A p \in PCB : st[p] = IF p = running THEN "READY" ELSE state[p]
    BY <1>2 DEF IInv, TypeOK
  <2>2. st \in [PCB -> ProcessState]
    BY <1>2 DEF IInv, TypeOK, ProcessState
  <2>3. Members(q) \subseteq PCB /\ Range(blocked) \subseteq PCB /\ Range(killed) \subseteq PCB
    BY <1>5, OnlyPCBs DEF IInv, TypeOK
  <2> HIDE DEF st
  <2> QED
    BY <1>2, <1>5, <2>1, <2>2, <2>3 DEF IInv, Places, Fits
<1>8. InPlaces(q, blocked, killed, NULL) = InPlaces(ready, blocked, killed, running)
  BY <1>1, <1>5 DEF InPlaces
<1> HIDE DEF st
<1>9. /\ Homes(ready', blocked, killed', running')
      /\ Fits(ready', blocked, killed', running', state')
      /\ InPlaces(ready', blocked, killed', running') \subseteq Created
      /\ freed' \subseteq PCB
      /\ freed' \subseteq Created
      /\ freed' \cap InPlaces(ready', blocked, killed', running') = {}
      /\ Len(killed') < TOTAL_TERMINATED
      /\ running' # NULL
      /\ interrupted' = NULL
      /\ currQuantumSize' \in Nat
  <2>1. Len(killed) <= TOTAL_TERMINATED
    BY LenProperties, SchedulerAssumption DEF IInv, TypeOK, Places
  <2>2. freed \subseteq PCB /\ currQuantumSize \in Nat
    BY DEF IInv, TypeOK
  <2>3. /\ InPlaces(q, blocked, killed, NULL) \subseteq Created
        /\ freed \subseteq Created
        /\ freed \cap InPlaces(q, blocked, killed, NULL) = {}
    BY <1>8 DEF IInv, Places
  <2> QED
    BY <1>3, <1>5, <1>6, <1>7, <2>1, <2>2, <2>3, SchedulingHomes
<1>10. Places'
  BY <1>3, <1>9 DEF Places, Created
<1>11. RoomForRound' /\ DerefSafe' /\ InterruptedIsTransient'
  BY <1>3, <1>9 DEF IInv, RoomForRound, DerefSafe, InterruptedIsTransient
<1>12. TypeOK'
  <2>1. pc' \in [PCB -> Nat]
    BY <1>3, <1>9, IretType DEF IInv, TypeOK, Homes
  <2>2. /\ ready' \in [Level -> Seq(PCB)]
        /\ blocked' \in Seq(PCB)
        /\ killed' \in Seq(PCB)
        /\ running' \in PCB \cup {NULL}
        /\ state' \in [PCB -> ProcessState]
    BY <1>3, <1>9 DEF Homes, Sound, Fits
  <2>3. iterationCount' \in 1 .. 2 * RESET_COUNT
    BY <1>3, IterationType DEF IInv
  <2> QED
    BY <1>2, <1>3, <1>4, <1>9, <2>1, <2>2, <2>3 DEF IInv, TypeOK, ControlPoint, resetVars
<1> QED
  BY <1>10, <1>11, <1>12 DEF IInv

(* The I/O trap: the running process goes to the blocked queue.            *)
LEMMA IoTrapISRStep ==
  ASSUME IInv, at = "trap", at' \in {"wrap", "io"}, IoTrapISR
  PROVE  IInv'
<1> DEFINE b == Append(blocked, running)
           st == [state EXCEPT ![running] = "WAIT"]
<1>1. running # NULL
  BY DEF IInv, DerefSafe
<1>2. /\ running \in PCB
      /\ Interrupted = running
      /\ running \notin Members(ready) \cup Range(blocked) \cup Range(killed)
  BY <1>1, RunningIsInterrupted
<1>3. /\ blocked' = b
      /\ blocked_timer' \in [PCB -> (1 .. TIMER_RANGE) \cup {-1}]
      /\ ReapKilled(killed)
      /\ Dispatch(ready, st, NULL)
      /\ sysstack' = sysstack
      /\ pseudoIRET
      /\ iterationCount' = NextIteration(iterationCount)
      /\ UNCHANGED << isNew, priority, term_count, image, tickVars, totalProcesses, resetVars >>
  BY <1>2 DEF IoTrapISR, q_enqueue, IInv, TypeOK
<1>4. /\ b \in Seq(PCB)
      /\ Range(b) = Range(blocked) \cup {running}
      /\ IsInjective(b)
  BY <1>2, AppendRange DEF IInv, Places, Homes
<1> HIDE DEF b
<1>5. /\ Members(ready) \subseteq PCB /\ Range(blocked) \subseteq PCB /\ Range(killed) \subseteq PCB
      /\ NULL \notin Members(ready) \cup Range(b) \cup Range(killed)
  BY <1>4, OnlyPCBs DEF IInv, Places, Homes
<1>6. Homes(ready, b, killed, NULL)
  BY <1>2, <1>4, <1>5 DEF IInv, Places, Homes
<1>7. Fits(ready, b, killed, NULL, st)
  <2>1. \A p \in PCB : st[p] = IF p = running THEN "WAIT" ELSE state[p]
    BY <1>2 DEF IInv, TypeOK
  <2>2. st \in [PCB -> ProcessState]
    BY <1>2 DEF IInv, TypeOK, ProcessState
  <2> HIDE DEF st
  <2> QED
    BY <1>2, <1>4, <1>5, <2>1, <2>2 DEF IInv, Places, Fits
<1>8. InPlaces(ready, b, killed, NULL) = InPlaces(ready, blocked, killed, running)
  BY <1>1, <1>4 DEF InPlaces
<1> HIDE DEF st
<1>9. /\ Homes(ready', b, killed', running')
      /\ Fits(ready', b, killed', running', state')
      /\ InPlaces(ready', b, killed', running') \subseteq Created
      /\ freed' \subseteq PCB
      /\ freed' \subseteq Created
      /\ freed' \cap InPlaces(ready', b, killed', running') = {}
      /\ Len(killed') < TOTAL_TERMINATED
      /\ interrupted' = NULL
      /\ currQuantumSize' \in Nat
  <2>1. Len(killed) <= TOTAL_TERMINATED
    BY LenProperties, SchedulerAssumption DEF IInv, TypeOK, Places
  <2>2. freed \subseteq PCB /\ currQuantumSize \in Nat
    BY DEF IInv, TypeOK
  <2>3. /\ InPlaces(ready, b, killed, NULL) \subseteq Created
        /\ freed \subseteq Created
        /\ freed \cap InPlaces(ready, b, killed, NULL) = {}
    BY <1>8 DEF IInv, Places
  <2> QED
    BY <1>3, <1>6, <1>7, <2>1, <2>2, <2>3, SchedulingHomes
<1>10. Places'
  BY <1>3, <1>9 DEF Places, Created
<1>11. RoomForRound' /\ DerefSafe' /\ InterruptedIsTransient'
  BY <1>3, <1>9 DEF IInv, RoomForRound, DerefSafe, InterruptedIsTransient
<1>12. TypeOK'
  <2>1. pc' \in [PCB -> Nat]
    BY <1>3, <1>9, IretType DEF IInv, TypeOK, Homes
  <2>2. /\ ready' \in [Level -> Seq(PCB)]
        /\ blocked' \in Seq(PCB)
        /\ killed' \in Seq(PCB)
        /\ running' \in PCB \cup {NULL}
        /\ state' \in [PCB -> ProcessState]
    BY <1>3, <1>9 DEF Homes, Sound, Fits
  <2>3. iterationCount' \in 1 .. 2 * RESET_COUNT
    BY <1>3, IterationType DEF IInv
  <2> QED
    BY <1>3, <1>9, <2>1, <2>2, <2>3 DEF IInv, TypeOK, ControlPoint, tickVars, resetVars
<1> QED
  BY <1>10, <1>11, <1>12 DEF IInv

(* The trap check of scheduler.c goes on to the wrap.                      *)
LEMMA IoTrapStep == IInv /\ IoTrap => IInv'
BY IoTrapISRStep DEF IoTrap

(* A termination: the running process goes to the killed queue, which is   *)
(* then emptied if that made it full.                                      *)
LEMMA TerminateStep == IInv /\ Terminate => IInv'
<1> SUFFICES ASSUME IInv, Terminate PROVE IInv'
  OBVIOUS
<1> DEFINE k == Append(killed, running)
           st == [state EXCEPT ![running] = "HALT"]
<1>1. /\ running # NULL
      /\ at = "terminate" /\ at' = "reset?"
      /\ ReapKilled(k)
      /\ Dispatch(ready, st, interrupted)
      /\ UNCHANGED << blocked, isNew, priority, pc, term_count, blocked_timer, image,
                      sysstack, tickVars, totalProcesses, iterationCount, resetVars >>
  BY DEF Terminate, q_enqueue
<1>2. /\ running \in PCB
      /\ running \notin Members(ready) \cup Range(blocked) \cup Range(killed)
  BY <1>1, RunningIsInterrupted
<1>3. /\ k \in Seq(PCB)
      /\ Range(k) = Range(killed) \cup {running}
      /\ IsInjective(k)
  BY <1>2, AppendRange DEF IInv, Places, Homes
<1>4. Len(k) <= TOTAL_TERMINATED
  BY <1>2, AppendProperties, LenProperties, SchedulerAssumption DEF IInv, Places, Homes
<1> HIDE DEF k
<1>5. /\ Members(ready) \subseteq PCB /\ Range(blocked) \subseteq PCB /\ Range(killed) \subseteq PCB
      /\ NULL \notin Members(ready) \cup Range(blocked) \cup Range(k)
  BY <1>3, OnlyPCBs DEF IInv, Places, Homes
<1>6. Homes(ready, blocked, k, NULL)
  BY <1>2, <1>3, <1>5 DEF IInv, Places, Homes
<1>7. Fits(ready, blocked, k, NULL, st)
  <2>1. \A p \in PCB : st[p] = IF p = running THEN "HALT" ELSE state[p]
    BY <1>2 DEF IInv, TypeOK
  <2>2. st \in [PCB -> ProcessState]
    BY <1>2 DEF IInv, TypeOK, ProcessState
  <2> HIDE DEF st
  <2> QED
    BY <1>2, <1>3, <1>5, <2>1, <2>2 DEF IInv, Places, Fits
<1>8. InPlaces(ready, blocked, k, NULL) = InPlaces(ready, blocked, killed, running)
  BY <1>1, <1>3 DEF InPlaces
<1> HIDE DEF st
<1>9. /\ Homes(ready', blocked, killed', running')
      /\ Fits(ready', blocked, killed', running', state')
      /\ InPlaces(ready', blocked, killed', running') \subseteq Created
      /\ freed' \subseteq PCB
      /\ freed' \subseteq Created
      /\ freed' \cap InPlaces(ready', blocked, killed', running') = {}
      /\ Len(killed') < TOTAL_TERMINATED
      /\ interrupted' = NULL
      /\ currQuantumSize' \in Nat
  <2>1. freed \subseteq PCB /\ currQuantumSize \in Nat /\ interrupted = NULL
    BY DEF IInv, TypeOK, InterruptedIsTransient
  <2>2. /\ InPlaces(ready, blocked, k, NULL) \subseteq Created
        /\ freed \subseteq Created
        /\ freed \cap InPlaces(ready, blocked, k, NULL) = {}
    BY <1>8 DEF IInv, Places
  <2> QED
    BY <1>1, <1>4, <1>6, <1>7, <2>1, <2>2, SchedulingHomes
<1>10. Places'
  BY <1>1, <1>9 DEF Places, Created
<1>11. RoomForRound' /\ DerefSafe' /\ InterruptedIsTransient'
  BY <1>1, <1>9 DEF IInv, RoomForRound, DerefSafe, InterruptedIsTransient
<1>12. TypeOK'
  <2>1. /\ ready' \in [Level -> Seq(PCB)]
        /\ killed' \in Seq(PCB)
        /\ running' \in PCB \cup {NULL}
        /\ state' \in [PCB -> ProcessState]
    BY <1>9 DEF Homes, Sound, Fits
  <2> QED
    BY <1>1, <1>9, <2>1 DEF IInv, TypeOK, ControlPoint, tickVars, resetVars
<1> QED
  BY <1>10, <1>11, <1>12 DEF IInv

(* The I/O interrupt: the head of the blocked queue goes to the MLFQ and   *)
(* the process that ran goes on running.                                   *)
LEMMA IoInterruptISRStep ==
  ASSUME IInv, at = "io", at' \in {"terminate", "wrap"}, IoInterruptISR
  PROVE  IInv'
<1> DEFINE h == Head(blocked)
           b == Tail(blocked)
           q == pq_enqueue(ready, priority[h], h)
<1>1. /\ blocked # << >>
      /\ io_timer' = 0
      /\ blocked' = b
      /\ ready' = q
      /\ interrupted' = NULL
      /\ ReapKilled(killed)
      /\ pseudoIRET
      /\ iterationCount' = NextIteration(iterationCount)
      /\ UNCHANGED << isNew, priority, term_count, blocked_timer, image,
                      currQuantumSize, quantum_tick, totalProcesses, resetVars >>
  BY DEF IoInterruptISR
<1>2. /\ blocked \in Seq(PCB)
      /\ b \in Seq(PCB)
      /\ h \in Range(blocked)
      /\ Range(b) = Range(blocked) \ {h}
      /\ IsInjective(b)
  BY <1>1, TailRange DEF IInv, Places, Homes
<1>3. /\ Members(ready) \subseteq PCB /\ Range(blocked) \subseteq PCB /\ Range(killed) \subseteq PCB
      /\ NULL \notin Members(ready) \cup Range(blocked) \cup Range(killed)
  BY OnlyPCBs DEF IInv, Places, Homes
<1>4. h \in PCB /\ h # NULL /\ h \notin Members(ready) \cup Range(killed) \cup {running}
  BY <1>2, <1>3 DEF IInv, Places, Homes
<1>5. Sound(q, PCB) /\ Members(q) = Members(ready) \cup {h}
  <2>1. priority[h] \in Level
    BY <1>4 DEF IInv, TypeOK
  <2> QED
    BY <2>1, <1>4, EnqueueSound DEF IInv, Places, Homes
<1>6. /\ running' = running
      /\ state' = state
      /\ sysstack' \in Nat
  <2>1. CASE running = NULL
    <3>1. Interrupted = NULL
      BY <2>1 DEF IInv, InterruptedIsTransient, Interrupted
    <3> QED
      BY <3>1 DEF IoInterruptISR, IInv, TypeOK
  <2>2. CASE running # NULL
    <3>1. running \in PCB /\ state[running] = "RUNNING" /\ Interrupted = running
      BY <2>2, RunningIsInterrupted
    <3>2. /\ running' = running
          /\ state' = [state EXCEPT ![running] = "RUNNING"]
          /\ sysstack' = pc[running]
      BY <2>2, <3>1 DEF IoInterruptISR
    <3>3. state' = state
      BY <3>1, <3>2 DEF IInv, TypeOK
    <3> QED
      BY <3>1, <3>2, <3>3 DEF IInv, TypeOK
  <2> QED
    BY <2>1, <2>2
<1> HIDE DEF h, b, q
<1>7. Homes(q, b, killed, running)
  BY <1>2, <1>4, <1>5 DEF IInv, Places, Homes
<1>8. InPlaces(q, b, killed, running) = InPlaces(ready, blocked, killed, running)
  BY <1>2, <1>5 DEF InPlaces
<1>9. /\ Homes(q, b, killed', running)
      /\ Range(killed') \subseteq Range(killed)
      /\ freed' \subseteq freed \cup Range(killed)
      /\ freed' \subseteq PCB
      /\ freed' \cap InPlaces(q, b, killed', running) = {}
      /\ Len(killed') < TOTAL_TERMINATED
  <2>1. Len(killed) <= TOTAL_TERMINATED
    BY LenProperties, SchedulerAssumption DEF IInv, TypeOK, Places
  <2>2. freed \subseteq PCB /\ freed \cap InPlaces(q, b, killed, running) = {}
    BY <1>8 DEF IInv, TypeOK, Places
  <2> QED
    BY <1>1, <1>7, <2>1, <2>2, ReapHomes
<1>10. Fits(q, b, killed', running, state)
  BY <1>2, <1>5, <1>9 DEF IInv, Places, Fits
<1>11. Places'
  <2>1. InPlaces(q, b, killed', running) \subseteq Created /\ freed' \subseteq Created
    BY <1>8, <1>9 DEF IInv, Places, InPlaces
  <2> QED
    BY <1>1, <1>6, <1>9, <1>10, <2>1 DEF Places, Created
<1>12. RoomForRound' /\ DerefSafe' /\ InterruptedIsTransient'
  BY <1>1 DEF IInv, RoomForRound, DerefSafe, InterruptedIsTransient
<1>13. TypeOK'
  <2>1. running' \in PCB \cup {NULL} /\ state' \in [PCB -> ProcessState]
    BY <1>6 DEF IInv, TypeOK
  <2>2. pc' \in [PCB -> Nat]
    BY <1>1, <1>6, <2>1, IretType DEF IInv, TypeOK
  <2>3. /\ ready' \in [Level -> Seq(PCB)]
        /\ blocked' \in Seq(PCB)
        /\ killed' \in Seq(PCB)
    BY <1>1, <1>9 DEF Homes, Sound
  <2>4. iterationCount' \in 1 .. 2 * RESET_COUNT
    BY <1>1, IterationType DEF IInv
  <2> QED
    BY <1>1, <1>6, <1>9, <2>1, <2>2, <2>3, <2>4 DEF IInv, TypeOK, ControlPoint, resetVars
<1> QED
  BY <1>11, <1>12, <1>13 DEF IInv

(* The I/O check of scheduler.c goes on to the termination.                *)
LEMMA IoInterruptStep == IInv /\ IoInterrupt => IInv'
BY IoInterruptISRStep DEF IoInterrupt

(* One round of resetMLFQ's loop moves PCBs within the MLFQ.               *)
LEMMA ResetLevelStep == IInv /\ ResetLevel => IInv'
<1> SUFFICES ASSUME IInv, ResetLevel PROVE IInv'
  OBVIOUS
<1>1. level \in Level /\ level # 0 /\ 0 \in Level /\ level + 1 \in 1 .. NUM_PRIORITIES
  BY MLFQAssumption DEF IInv, TypeOK, ResetLevel, ResetDone, Level
<1>2. /\ at' = at /\ at = "reset"
      /\ ready' = [ready EXCEPT ![0] = @ \o ready[level], ![level] = << >>]
      /\ priority' = MovedToTop(ready[level])
      /\ allEmpty' \in BOOLEAN
      /\ level' = level + 1
      /\ UNCHANGED << blocked, killed, running, interrupted, isNew, state, pc,
                      term_count, blocked_timer, image, freed, sysstack,
                      currQuantumSize, tickVars, totalProcesses, iterationCount >>
  BY DEF ResetLevel, IInv, TypeOK
<1>3. Sound(ready', PCB) /\ Members(ready') = Members(ready)
  BY <1>1, <1>2, MoveLevelSound DEF IInv, Places, Homes
<1>4. Places'
  BY <1>2, <1>3 DEF IInv, Places, Homes, Fits, InPlaces, Created
<1>5. RoomForRound' /\ DerefSafe' /\ InterruptedIsTransient'
  BY <1>2 DEF IInv, RoomForRound, DerefSafe, InterruptedIsTransient
<1>6. TypeOK'
  <2>1. ready' \in [Level -> Seq(PCB)]
    BY <1>3 DEF Sound
  <2>2. priority' \in [PCB -> Level]
    BY <1>1, <1>2 DEF IInv, TypeOK, MovedToTop
  <2> QED
    BY <1>1, <1>2, <2>1, <2>2 DEF IInv, TypeOK, ControlPoint, tickVars
<1> QED
  BY <1>4, <1>5, <1>6 DEF IInv

(* A round of new PCBs enters level 0, and its first PCB the CPU if isNew. *)
LEMMA RoundStep ==
  ASSUME IInv, at \notin {"end?", "ended"}, SomeRound
  PROVE  /\ Places'
         /\ InterruptedIsTransient'
         /\ totalProcesses' \in Nat
         /\ totalProcesses' <= (MAX_PCB_TOTAL - 1) + (MAX_PCB_IN_ROUND - 1)
         /\ totalProcesses' <= totalProcesses + (MAX_PCB_IN_ROUND - 1)
         /\ image' \in [PCB -> Image \cup {NULL}]
         /\ isNew' \in BOOLEAN
         /\ currQuantumSize' \in Nat
         /\ UNCHANGED << blocked, killed, interrupted, priority, pc, term_count,
                         blocked_timer, freed, sysstack, tickVars, resetVars >>
<1>1. PICK n \in 0 .. MAX_PCB_IN_ROUND - 1 :
        \E img \in [1 .. n -> Image] : makePCBList(n, img)
  BY DEF SomeRound
<1>2. PICK img \in [1 .. n -> Image] : makePCBList(n, img)
  BY <1>1
<1> DEFINE new == totalProcesses .. totalProcesses + n - 1
           s == [i \in 1 .. n |-> totalProcesses + i - 1]
           q == [ready EXCEPT ![0] = @ \o s]
           st == [p \in PCB |-> IF p \in new THEN "READY" ELSE state[p]]
<1>3. /\ n \in Nat
      /\ totalProcesses \in Nat
      /\ totalProcesses < MAX_PCB_TOTAL
      /\ new \subseteq PCB
      /\ new \cap Created = {}
      /\ 0 .. totalProcesses + n - 1 = Created \cup new
      /\ totalProcesses + n <= (MAX_PCB_TOTAL - 1) + (MAX_PCB_IN_ROUND - 1)
      /\ totalProcesses + n <= totalProcesses + (MAX_PCB_IN_ROUND - 1)
  BY SchedulerAssumption DEF IInv, RoomForRound, PCB, Created
<1>4. /\ totalProcesses' = totalProcesses + n
      /\ image' = [p \in PCB |-> IF p \in new THEN img[p - totalProcesses + 1] ELSE image[p]]
      /\ \/ /\ n > 0 /\ isNew
            /\ running' = pq_peek(q)
            /\ ready' = pq_dequeue(q)
            /\ state' = [st EXCEPT ![pq_peek(q)] = "RUNNING"]
            /\ isNew' = FALSE
            /\ currQuantumSize' = QuantumSize(0)
         \/ /\ ready' = q
            /\ state' = st
            /\ UNCHANGED << running, isNew, currQuantumSize >>
      /\ UNCHANGED << blocked, killed, interrupted, priority, pc, term_count,
                      blocked_timer, freed, sysstack, tickVars, resetVars >>
  BY <1>2 DEF makePCBList
<1>5. s \in Seq(PCB) /\ IsInjective(s) /\ Range(s) = new /\ (n > 0 => s # << >>)
  <2>1. s \in Seq(PCB) /\ IsInjective(s) /\ Range(s) = new
    BY <1>3, PidsInOrder
  <2>2. n > 0 => totalProcesses \in Range(s)
    BY <2>1, <1>3
  <2>3. Range(<< >>) = {}
    BY DEF Range
  <2> QED
    BY <2>1, <2>2, <2>3
<1>6. Sound(q, PCB) /\ Members(q) = Members(ready) \cup new
  <2>1. new \cap Members(ready) = {}
    BY <1>3 DEF IInv, Places, InPlaces
  <2>2. Sound(ready, PCB) /\ ready \in [Level -> Seq(PCB)] /\ 0 \in Level
    BY ConstantsFact DEF IInv, TypeOK, Places, Homes
  <2>3. s \in Seq(PCB) /\ IsInjective(s) /\ Range(s) = new
    BY <1>5
  <2>4. Range(s) \cap Members(ready) = {}
    BY <2>1, <2>3
  <2> HIDE DEF s, new
  <2>6. q = WithRound(ready, s)
    BY DEF q, WithRound
  <2> HIDE DEF q
  <2>7. Sound(q, PCB) /\ Members(q) = Members(ready) \cup Range(s)
    BY <2>2, <2>3, <2>4, <2>6, AppendRoundSound
  <2> QED
    BY <2>3, <2>7
<1> HIDE DEF q, s
<1>7. /\ Members(q) \subseteq PCB /\ Range(blocked) \subseteq PCB /\ Range(killed) \subseteq PCB
      /\ NULL \notin Members(q) \cup Range(blocked) \cup Range(killed)
  BY <1>6, OnlyPCBs DEF IInv, Places, Homes
<1>8. Homes(q, blocked, killed, running) /\ Homes(q, blocked, killed, NULL)
  BY <1>3, <1>6, <1>7, ConstantsFact DEF IInv, Places, Homes, InPlaces
<1>9. Fits(q, blocked, killed, running, st)
  <2>1. st \in [PCB -> ProcessState]
    BY DEF IInv, TypeOK, ProcessState
  <2>2. \A p \in PCB : st[p] = IF p \in new THEN "READY" ELSE state[p]
    OBVIOUS
  <2>3. \A p \in Range(blocked) \cup Range(killed) \cup ({running} \ {NULL}) :
          p \in PCB /\ p \notin new
    BY <1>3, <1>7 DEF IInv, TypeOK, Places, InPlaces
  <2> HIDE DEF st, new
  <2> QED
    BY <1>6, <1>7, <2>1, <2>2, <2>3 DEF IInv, Places, Fits
<1> HIDE DEF st
<1>10. /\ Homes(ready', blocked, killed, running')
       /\ Fits(ready', blocked, killed, running', state')
       /\ InPlaces(ready', blocked, killed, running') \subseteq
            InPlaces(ready, blocked, killed, running) \cup new
       /\ isNew' \in BOOLEAN
       /\ currQuantumSize' \in Nat
  <2>1. CASE n > 0 /\ isNew /\ running' = pq_peek(q) /\ ready' = pq_dequeue(q)
             /\ state' = [st EXCEPT ![pq_peek(q)] = "RUNNING"]
             /\ isNew' = FALSE /\ currQuantumSize' = QuantumSize(0)
    <3>1. Members(q) # {}
      <4>1. totalProcesses \in new
        BY <1>3, <2>1
      <4> QED
        BY <4>1, <1>6
    <3>2. /\ running' \in Members(q)
          /\ Sound(ready', PCB)
          /\ Members(ready') = Members(q) \ {running'}
      BY <1>6, <2>1, <3>1, MembersSubset, DequeueSound
    <3>3. running' \in PCB /\ running' \notin Range(blocked) \cup Range(killed)
      BY <1>7, <1>8, <3>2 DEF Homes
    <3>4. Homes(ready', blocked, killed, running')
      BY <1>8, <3>2, <3>3 DEF Homes
    <3>5. \A p \in PCB : state'[p] = IF p = running' THEN "RUNNING" ELSE st[p]
      BY <2>1, <1>9 DEF Fits
    <3>6. state' \in [PCB -> ProcessState]
      BY <2>1, <3>3, <1>9 DEF Fits, ProcessState
    <3>7. Fits(ready', blocked, killed, running', state')
      BY <1>7, <1>9, <3>2, <3>3, <3>5, <3>6 DEF Fits
    <3>8. InPlaces(ready', blocked, killed, running') \subseteq
            InPlaces(ready, blocked, killed, running) \cup new
      BY <1>6, <3>2 DEF InPlaces
    <3> QED
      BY <2>1, <3>4, <3>7, <3>8, ConstantsFact
  <2>2. CASE ready' = q /\ state' = st /\ UNCHANGED << running, isNew, currQuantumSize >>
    BY <2>2, <1>6, <1>8, <1>9 DEF IInv, TypeOK, InPlaces
  <2> QED
    BY <1>4, <2>1, <2>2
<1>11. Created' = Created \cup new
  BY <1>3, <1>4 DEF Created
<1> HIDE DEF new
<1>12. Places'
  <2>1. freed' \subseteq Created'
    BY <1>4, <1>11 DEF IInv, Places
  <2>2. freed \cap InPlaces(ready', blocked, killed, running') = {}
    BY <1>3, <1>10 DEF IInv, Places
  <2>3. InPlaces(ready', blocked, killed, running') \subseteq Created'
    BY <1>10, <1>11 DEF IInv, Places
  <2> QED
    BY <1>4, <1>10, <2>1, <2>2, <2>3 DEF IInv, Places
<1>13. image' \in [PCB -> Image \cup {NULL}]
  <2>1. ASSUME NEW p \in PCB, p \in new PROVE img[p - totalProcesses + 1] \in Image
    <3>1. p - totalProcesses + 1 \in 1 .. n
      BY <1>3, <2>1 DEF new
    <3> QED
      BY <3>1
  <2> QED
    BY <1>4, <2>1 DEF IInv, TypeOK
<1> QED
  BY <1>3, <1>4, <1>10, <1>12, <1>13 DEF IInv, InterruptedIsTransient

(* The round before the loop is the only one no test guards.               *)
LEMMA BootStep == IInv /\ Boot => IInv'
<1> SUFFICES ASSUME IInv, Boot PROVE IInv'
  OBVIOUS
<1>1. at = "boot" /\ at' = "top" /\ SomeRound /\ iterationCount' = iterationCount
  BY DEF Boot
<1>2. at \notin {"end?", "ended"}
  BY <1>1
<1>3. totalProcesses' < MAX_PCB_TOTAL
  BY <1>1, <1>2, RoundStep, SchedulerAssumption DEF IInv, RoomForRound
<1>4. RoomForRound' /\ DerefSafe'
  BY <1>1, <1>2, <1>3, RoundStep DEF RoomForRound, DerefSafe
<1>5. Places' /\ InterruptedIsTransient'
  BY <1>2, <1>1, RoundStep
<1>6. TypeOK'
  <2>1. /\ ready' \in [Level -> Seq(PCB)] /\ blocked' \in Seq(PCB) /\ killed' \in Seq(PCB)
        /\ running' \in PCB \cup {NULL} /\ state' \in [PCB -> ProcessState]
    BY <1>5 DEF Places, Homes, Sound, Fits
  <2> QED
    BY <1>1, <1>2, <2>1, RoundStep DEF IInv, TypeOK, ControlPoint, tickVars, resetVars
<1> QED
  BY <1>4, <1>5, <1>6 DEF IInv

(* A round created by a reset.                                             *)
LEMMA SpawnStep == IInv /\ Spawn => IInv'
<1> SUFFICES ASSUME IInv, Spawn PROVE IInv'
  OBVIOUS
<1>1. at = "spawn" /\ at' = "end?" /\ SomeRound /\ iterationCount' = 1
  BY DEF Spawn
<1>2. at \notin {"end?", "ended"}
  BY <1>1
<1>3. RoomForRound' /\ DerefSafe'
  BY <1>1, <1>2, RoundStep DEF RoomForRound, DerefSafe
<1>4. Places' /\ InterruptedIsTransient'
  BY <1>2, <1>1, RoundStep
<1>5. TypeOK'
  <2>1. /\ ready' \in [Level -> Seq(PCB)] /\ blocked' \in Seq(PCB) /\ killed' \in Seq(PCB)
        /\ running' \in PCB \cup {NULL} /\ state' \in [PCB -> ProcessState]
    BY <1>4 DEF Places, Homes, Sound, Fits
  <2>2. 1 \in 1 .. 2 * RESET_COUNT
    BY SchedulerAssumption
  <2> QED
    BY <1>1, <1>2, <2>1, <2>2, RoundStep DEF IInv, TypeOK, ControlPoint, tickVars, resetVars
<1> QED
  BY <1>3, <1>4, <1>5 DEF IInv

(* Every step of the program keeps the inductive invariant.                *)
LEMMA NextIInv == IInv /\ [Next]_vars => IInv'
<1> SUFFICES ASSUME IInv, [Next]_vars PROVE IInv'
  OBVIOUS
<1>1. CASE \/ RunInstruction \/ Idle \/ TimerTick \/ NoTrap \/ WrapPC \/ NoWrap
           \/ IoTick \/ NoTermination \/ NoReset \/ BeginReset \/ FinishReset
           \/ NoSpawn \/ EndOfPass
  BY <1>1, QuietStep
<1>2. CASE Boot
  BY <1>2, BootStep
<1>3. CASE TimerInterrupt
  BY <1>3, TimerInterruptStep
<1>4. CASE IoTrap
  BY <1>4, IoTrapStep
<1>5. CASE IoInterrupt
  BY <1>5, IoInterruptStep
<1>6. CASE Terminate
  BY <1>6, TerminateStep
<1>7. CASE ResetLevel
  BY <1>7, ResetLevelStep
<1>8. CASE Spawn
  BY <1>8, SpawnStep
<1>9. CASE Ended \/ UNCHANGED vars
  <2>1. /\ UNCHANGED << queueVars, running, interrupted, state, freed, totalProcesses, at >>
        /\ UNCHANGED << isNew, priority, pc, term_count, blocked_timer, image, sysstack,
                        currQuantumSize, tickVars, iterationCount, resetVars >>
    BY <1>9 DEF Ended, vars, pcbVars
  <2>2. TypeOK' /\ RoomForRound' /\ DerefSafe' /\ InterruptedIsTransient'
    BY <2>1 DEF IInv, TypeOK, RoomForRound, DerefSafe, InterruptedIsTransient,
                queueVars, tickVars, resetVars
  <2>3. Places'
    BY <2>1 DEF IInv, Places, Homes, Fits, InPlaces, Created, Sound, Members, queueVars
  <2> QED
    BY <2>2, <2>3 DEF IInv
<1> QED
  BY <1>1, <1>2, <1>3, <1>4, <1>5, <1>6, <1>7, <1>8, <1>9 DEF Next

-----------------------------------------------------------------------------
(* The inductive invariant holds in every reachable state.                 *)
THEOREM Invariant == Spec => []IInv
<1>1. Init => IInv
  BY InitIInv
<1>2. IInv /\ [Next]_vars => IInv'
  BY NextIInv
<1> QED
  BY <1>1, <1>2, PTL DEF Spec

(* Every variable of the scheduler stays in its type.                      *)
THEOREM TypeCorrect == Spec => []TypeOK
<1>1. IInv => TypeOK
  BY DEF IInv
<1> QED
  BY <1>1, Invariant, PTL

(* No PCB is ever in two places, or in one place twice.                    *)
THEOREM OneHomeAlways == Spec => []OneHome
<1>1. IInv => OneHome
  BY IInvImplies
<1> QED
  BY <1>1, Invariant, PTL

(* A PCB's state field always agrees with the place it is in.              *)
THEOREM StateFitsPlaceAlways == Spec => []StateFitsPlace
<1>1. IInv => StateFitsPlace
  BY IInvImplies
<1> QED
  BY <1>1, Invariant, PTL

(* A PCB that was released is in no queue and not on the CPU.              *)
THEOREM NoUseAfterFreeAlways == Spec => []NoUseAfterFree
<1>1. IInv => NoUseAfterFree
  BY IInvImplies
<1> QED
  BY <1>1, Invariant, PTL

(* Between two passes of the checks the killed queue is below its limit.   *)
THEOREM KilledBelowLimitAlways == Spec => []KilledBelowLimit
<1>1. IInv => KilledBelowLimit
  BY IInvImplies
<1> QED
  BY <1>1, Invariant, PTL

(* osLoop never follows a null running pointer.                            *)
THEOREM DerefSafeAlways == Spec => []DerefSafe
<1>1. IInv => DerefSafe
  BY DEF IInv
<1> QED
  BY <1>1, Invariant, PTL

(* No process is left interrupted from one check of osLoop to the next.    *)
THEOREM InterruptedIsTransientAlways == Spec => []InterruptedIsTransient
<1>1. IInv => InterruptedIsTransient
  BY DEF IInv
<1> QED
  BY <1>1, Invariant, PTL

-----------------------------------------------------------------------------
(* The scheduler implements ProcessLife: each of its steps moves the       *)
(* processes through their lives as a step of ProcessLife does, or not at  *)
(* all.                                                                    *)

(* The stage of p, read off the MLFQ q, the blocked queue b, the running   *)
(* process r, the states st, the released PCBs f and the created ones c.   *)
StageOf(p, q, b, r, st, f, c) ==
  IF p \notin c THEN "unborn"
  ELSE IF p \in f THEN "released"
  ELSE IF p = r THEN "running"
  ELSE IF p \in Members(q) THEN "queued"
  ELSE IF p \in Range(b) THEN "blocked"
  ELSE IF st[p] = "HALT" THEN "halted" ELSE "lost"

StageIn(q, b, r, st, f, c) == [p \in PCB |-> StageOf(p, q, b, r, st, f, c)]

(* LifeStage before and after a step.                                      *)
LEMMA LifeStageIs ==
  /\ LifeStage = StageIn(ready, blocked, running, state, freed, Created)
  /\ LifeStage' = StageIn(ready', blocked', running', state', freed', Created')
BY DEF LifeStage, StageIn, StageOf, Queued

(* The stages of the processes in the places of the invariant.             *)
LEMMA StagesOfPlaces ==
  ASSUME IInv
  PROVE  /\ LifeStage \in [PCB -> Life!Stage]
         /\ \A p \in PCB : LifeStage[p] = StageOf(p, ready, blocked, running, state, freed, Created)
         /\ \A p \in PCB : p \notin Created => LifeStage[p] = "unborn"
         /\ running # NULL => LifeStage[running] = "running"
         /\ \A p \in PCB : LifeStage[p] = "running" => p = running
         /\ \A p \in Range(blocked) : p \in PCB => LifeStage[p] = "blocked"
         /\ \A p \in Range(killed) : p \in PCB => LifeStage[p] = "halted"
<1>1. \A p \in PCB : LifeStage[p] = StageOf(p, ready, blocked, running, state, freed, Created)
  BY LifeStageIs DEF StageIn
<1>2. LifeStage \in [PCB -> Life!Stage]
  BY LifeStageIs DEF StageIn, StageOf, Life!Stage
<1>3. running # NULL => LifeStage[running] = "running"
  BY <1>1 DEF StageOf, IInv, TypeOK, Places, InPlaces
<1>4. \A p \in PCB : LifeStage[p] = "running" => p = running
  BY <1>1 DEF StageOf
<1>5. ASSUME NEW p \in Range(blocked), p \in PCB PROVE LifeStage[p] = "blocked"
  BY <1>1, <1>5 DEF StageOf, IInv, Places, Homes, InPlaces
<1>6. ASSUME NEW p \in Range(killed), p \in PCB PROVE LifeStage[p] = "halted"
  BY <1>1, <1>6 DEF StageOf, IInv, Places, Homes, Fits, InPlaces
<1> QED
  BY <1>1, <1>2, <1>3, <1>4, <1>5, <1>6 DEF StageOf

(* The dispatcher hands the CPU over as ProcessLife says.                  *)
LEMMA DispatchLife ==
  ASSUME NEW q, NEW b, NEW k, NEW st, NEW intr, NEW f, NEW c,
         Homes(q, b, k, NULL), Fits(q, b, k, NULL, st),
         InPlaces(q, b, k, NULL) \subseteq c, f \cap InPlaces(q, b, k, NULL) = {},
         currQuantumSize \in Nat, Dispatch(q, st, intr),
         LifeStage' = StageIn(ready', b, running', state', f, c)
  PROVE  Life!HandOver(StageIn(q, b, NULL, st, f, c))
<1> DEFINE s == StageIn(q, b, NULL, st, f, c)
<1>1. /\ Homes(ready', b, k, running')
      /\ InPlaces(ready', b, k, running') = InPlaces(q, b, k, NULL)
      /\ running' = NULL <=> pq_is_empty(q)
      /\ \A l \in Level : Range(ready'[l]) = Range(q[l]) \ {running'}
  BY DispatchHomes
<1>2. Members(q) \subseteq PCB /\ (Members(q) # {} => ~ pq_is_empty(q)) /\ NULL \notin Members(q)
  BY MembersSubset, ConstantsFact DEF Homes
<1>3. Members(ready') = Members(q) \ {running'}
  BY <1>1, InMembers
<1>4. \A p \in PCB : s[p] = StageOf(p, q, b, NULL, st, f, c)
  BY DEF StageIn
<1>5. \A p \in PCB : LifeStage'[p] = StageOf(p, ready', b, running', state', f, c)
  BY DEF StageIn
<1>6. CASE pq_is_empty(q)
  <2>1. Members(q) = {} /\ running' = NULL
    BY <1>1, <1>2, <1>6
  <2>2. pq_peek(q) = NULL
    BY <1>6 DEF pq_peek
  <2>3. state' = st /\ ready' = q
    BY <2>2 DEF Dispatch
  <2>4. \A p \in PCB : s[p] # "queued"
    BY <1>4, <2>1, ConstantsFact DEF StageOf
  <2>5. LifeStage' = s
    BY <2>1, <2>3
  <2> QED
    BY <2>4, <2>5 DEF Life!HandOver
<1>7. CASE ~ pq_is_empty(q)
  <2> DEFINE h == pq_peek(q)
  <2>1. h \in Members(q)
    BY <1>7, DequeueSound DEF Homes
  <2> HIDE DEF h
  <2>2. h \in PCB /\ h # NULL /\ st[h] # "HALT" /\ h \in c /\ h \notin f
    BY <2>1, <1>2 DEF Fits, InPlaces
  <2>3. running' = h /\ state' = [st EXCEPT ![h] = "RUNNING"]
    BY <2>2 DEF Dispatch, h
  <2>4. \A p \in PCB : p # h => state'[p] = st[p]
    BY <2>3 DEF Fits
  <2>5. s[h] = "queued"
    BY <1>4, <2>1, <2>2 DEF StageOf
  <2>6. ASSUME NEW p \in PCB PROVE LifeStage'[p] = IF p = h THEN "running" ELSE s[p]
    <3>1. CASE p = h
      BY <3>1, <1>5, <2>2, <2>3 DEF StageOf
    <3>2. CASE p # h
      <4>1. p # NULL /\ (p \in Members(ready') <=> p \in Members(q)) /\ state'[p] = st[p]
        BY <3>2, <1>3, <2>3, <2>4, ConstantsFact
      <4> QED
        BY <3>2, <4>1, <1>4, <1>5, <2>3 DEF StageOf
    <3> QED
      BY <3>1, <3>2
  <2>7. LifeStage' = Life!Moved(s, h, "running")
    BY <2>6 DEF StageIn, Life!Moved
  <2> QED
    BY <2>2, <2>5, <2>7 DEF Life!HandOver
<1> QED
  BY <1>6, <1>7

-----------------------------------------------------------------------------
(* Below its limit the killed queue is left alone.                         *)
LEMMA ReapIdle ==
  ASSUME IInv, ReapKilled(killed)
  PROVE  killed' = killed /\ freed' = freed
<1>1. ~ KilledFull(killed)
  BY LenProperties, SchedulerAssumption DEF IInv, TypeOK, Places, KilledFull
<1> QED
  BY <1>1 DEF ReapKilled

(* The checks that move no PCB, and a reset that moves them within the     *)
(* MLFQ, change no stage.                                                  *)
LEMMA QuietLife ==
  ASSUME IInv,
         \/ RunInstruction \/ Idle \/ TimerTick \/ NoTrap \/ WrapPC \/ NoWrap
         \/ IoTick \/ NoTermination \/ NoReset \/ BeginReset \/ FinishReset
         \/ ResetLevel \/ NoSpawn \/ EndOfPass \/ Ended \/ UNCHANGED vars
  PROVE  LifeStage' = LifeStage
<1>1. CASE ResetLevel
  <2>1. level \in Level /\ level # 0
    BY <1>1, MLFQAssumption DEF IInv, TypeOK, ResetLevel, ResetDone, Level
  <2>2. ready' = [ready EXCEPT ![0] = @ \o ready[level], ![level] = << >>]
    BY <1>1 DEF ResetLevel
  <2>3. Members(ready') = Members(ready)
    BY <2>1, <2>2, MoveLevelSound DEF IInv, Places, Homes
  <2>4. UNCHANGED << blocked, running, state, freed, totalProcesses >>
    BY <1>1 DEF ResetLevel
  <2> QED
    BY <2>3, <2>4, LifeStageIs DEF StageIn, StageOf, Created
<1>2. CASE ~ ResetLevel
  <2>1. UNCHANGED << ready, blocked, running, state, freed, totalProcesses >>
    BY <1>2 DEF RunInstruction, Idle, TimerTick, NoTrap, WrapPC, NoWrap, RestartProgram,
                IoTick, NoIoInterrupt, NoTermination, NoReset, BeginReset, FinishReset,
                NoSpawn, EndOfPass, Ended, vars, queueVars, pcbVars
  <2> QED
    BY <2>1, LifeStageIs DEF Created
<1> QED
  BY <1>1, <1>2

(* The timer interrupt preempts the running process.                       *)
LEMMA TimerInterruptLife == IInv /\ TimerInterrupt => Life!Preempt(running) /\ running \in PCB
<1> SUFFICES ASSUME IInv, TimerInterrupt PROVE Life!Preempt(running) /\ running \in PCB
  OBVIOUS
<1> DEFINE l == Demoted(priority[running])
           q == pq_enqueue(ready, l, running)
           st == [state EXCEPT ![running] = "READY"]
<1>1. running # NULL
  BY DEF IInv, DerefSafe, TimerInterrupt
<1>2. /\ running \in PCB
      /\ Interrupted = running
      /\ running \in Created
      /\ running \notin Members(ready) \cup Range(blocked) \cup Range(killed)
  BY <1>1, RunningIsInterrupted
<1>3. /\ ReapKilled(killed)
      /\ Dispatch(q, st, running)
      /\ UNCHANGED << blocked, totalProcesses >>
  BY <1>2 DEF TimerInterrupt
<1>4. l \in Level
  BY <1>2, ConstantsFact DEF IInv, TypeOK
<1>5. Sound(q, PCB) /\ Members(q) = Members(ready) \cup {running}
  BY <1>2, <1>4, EnqueueSound DEF IInv, Places, Homes
<1> HIDE DEF q, l
<1>6. Homes(q, blocked, killed, NULL)
  <2>1. NULL \notin Members(q) \cup Range(blocked) \cup Range(killed)
    BY <1>5, OnlyPCBs DEF IInv, TypeOK
  <2> QED
    BY <1>2, <1>5, <2>1 DEF IInv, Places, Homes
<1>7. \A p \in PCB : st[p] = IF p = running THEN "READY" ELSE state[p]
  BY <1>2 DEF IInv, TypeOK
<1>8. Fits(q, blocked, killed, NULL, st)
  <2>1. st \in [PCB -> ProcessState]
    BY <1>2 DEF IInv, TypeOK, ProcessState
  <2>2. Members(q) \subseteq PCB /\ Range(blocked) \subseteq PCB /\ Range(killed) \subseteq PCB
    BY <1>5, OnlyPCBs DEF IInv, TypeOK
  <2> HIDE DEF st
  <2> QED
    BY <1>2, <1>5, <1>7, <2>1, <2>2 DEF IInv, Places, Fits
<1> HIDE DEF st
<1>9. InPlaces(q, blocked, killed, NULL) = InPlaces(ready, blocked, killed, running)
  BY <1>1, <1>5 DEF InPlaces
<1>10. freed' = freed /\ Created' = Created /\ blocked' = blocked
  BY <1>3, ReapIdle DEF Created
<1>11. Life!HandOver(StageIn(q, blocked, NULL, st, freed, Created))
  <2>1. LifeStage' = StageIn(ready', blocked, running', state', freed, Created)
    BY <1>10, LifeStageIs
  <2>2. /\ InPlaces(q, blocked, killed, NULL) \subseteq Created
        /\ freed \cap InPlaces(q, blocked, killed, NULL) = {}
        /\ currQuantumSize \in Nat
    BY <1>9 DEF IInv, Places, TypeOK
  <2> QED
    BY <1>3, <1>6, <1>8, <2>1, <2>2, DispatchLife
<1>12. StageIn(q, blocked, NULL, st, freed, Created) = Life!Moved(LifeStage, running, "queued")
  <2>1. ASSUME NEW p \in PCB
        PROVE  StageOf(p, q, blocked, NULL, st, freed, Created) =
                 IF p = running THEN "queued" ELSE LifeStage[p]
    <3>1. p # NULL /\ (p = running => p \notin freed)
      BY ConstantsFact DEF IInv, Places, InPlaces
    <3> QED
      BY <3>1, <1>2, <1>5, <1>7, StagesOfPlaces DEF StageOf
  <2> QED
    BY <2>1 DEF StageIn, Life!Moved
<1> QED
  BY <1>1, <1>2, <1>11, <1>12, StagesOfPlaces DEF Life!Preempt

(* The I/O trap blocks the running process.                                *)
LEMMA IoTrapLife ==
  ASSUME IInv, at = "trap", IoTrapISR
  PROVE  Life!Block(running) /\ running \in PCB
<1> DEFINE b == Append(blocked, running)
           st == [state EXCEPT ![running] = "WAIT"]
<1>1. running # NULL
  BY DEF IInv, DerefSafe
<1>2. /\ running \in PCB
      /\ Interrupted = running
      /\ running \in Created
      /\ running \notin Members(ready) \cup Range(blocked) \cup Range(killed)
  BY <1>1, RunningIsInterrupted
<1>3. /\ blocked' = b
      /\ ReapKilled(killed)
      /\ Dispatch(ready, st, NULL)
      /\ totalProcesses' = totalProcesses
  BY <1>2 DEF IoTrapISR, q_enqueue
<1>4. /\ b \in Seq(PCB)
      /\ Range(b) = Range(blocked) \cup {running}
      /\ IsInjective(b)
  BY <1>2, AppendRange DEF IInv, Places, Homes
<1> HIDE DEF b
<1>5. /\ Members(ready) \subseteq PCB /\ Range(blocked) \subseteq PCB /\ Range(killed) \subseteq PCB
      /\ NULL \notin Members(ready) \cup Range(b) \cup Range(killed)
  BY <1>4, OnlyPCBs DEF IInv, Places, Homes
<1>6. Homes(ready, b, killed, NULL)
  BY <1>2, <1>4, <1>5 DEF IInv, Places, Homes
<1>7. \A p \in PCB : st[p] = IF p = running THEN "WAIT" ELSE state[p]
  BY <1>2 DEF IInv, TypeOK
<1>8. Fits(ready, b, killed, NULL, st)
  <2>1. st \in [PCB -> ProcessState]
    BY <1>2 DEF IInv, TypeOK, ProcessState
  <2> HIDE DEF st
  <2> QED
    BY <1>2, <1>4, <1>5, <1>7, <2>1 DEF IInv, Places, Fits
<1> HIDE DEF st
<1>9. InPlaces(ready, b, killed, NULL) = InPlaces(ready, blocked, killed, running)
  BY <1>1, <1>4 DEF InPlaces
<1>10. freed' = freed /\ Created' = Created
  BY <1>3, ReapIdle DEF Created
<1>11. Life!HandOver(StageIn(ready, b, NULL, st, freed, Created))
  <2>1. LifeStage' = StageIn(ready', b, running', state', freed, Created)
    BY <1>3, <1>10, LifeStageIs
  <2>2. /\ InPlaces(ready, b, killed, NULL) \subseteq Created
        /\ freed \cap InPlaces(ready, b, killed, NULL) = {}
        /\ currQuantumSize \in Nat
    BY <1>9 DEF IInv, Places, TypeOK
  <2> QED
    BY <1>3, <1>6, <1>8, <2>1, <2>2, DispatchLife
<1>12. StageIn(ready, b, NULL, st, freed, Created) = Life!Moved(LifeStage, running, "blocked")
  <2>1. ASSUME NEW p \in PCB
        PROVE  StageOf(p, ready, b, NULL, st, freed, Created) =
                 IF p = running THEN "blocked" ELSE LifeStage[p]
    <3>1. p # NULL /\ (p = running => p \notin freed)
      BY ConstantsFact DEF IInv, Places, InPlaces
    <3> QED
      BY <3>1, <1>2, <1>4, <1>7, StagesOfPlaces DEF StageOf
  <2> QED
    BY <2>1 DEF StageIn, Life!Moved
<1> QED
  BY <1>1, <1>2, <1>11, <1>12, StagesOfPlaces DEF Life!Block

(* A termination halts the running process, and releases it or processes   *)
(* that halted before if the killed queue is emptied.                      *)
LEMMA TerminateLife ==
  IInv /\ Terminate =>
    /\ running \in PCB
    /\ \E R \in SUBSET ({p \in PCB : LifeStage[p] = "halted"} \cup {running}) :
         Life!Halt(running, R)
<1> SUFFICES ASSUME IInv, Terminate
             PROVE  /\ running \in PCB
                    /\ \E R \in SUBSET ({p \in PCB : LifeStage[p] = "halted"} \cup {running}) :
                         Life!Halt(running, R)
  OBVIOUS
<1> DEFINE k == Append(killed, running)
           st == [state EXCEPT ![running] = "HALT"]
           R == freed' \ freed
<1>1. /\ running # NULL
      /\ ReapKilled(k)
      /\ Dispatch(ready, st, interrupted)
      /\ UNCHANGED << blocked, totalProcesses >>
  BY DEF Terminate, q_enqueue
<1>2. /\ running \in PCB
      /\ running \in Created
      /\ running \notin Members(ready) \cup Range(blocked) \cup Range(killed)
  BY <1>1, RunningIsInterrupted
<1>3. /\ k \in Seq(PCB)
      /\ Range(k) = Range(killed) \cup {running}
      /\ IsInjective(k)
  BY <1>2, AppendRange DEF IInv, Places, Homes
<1>4. Len(k) <= TOTAL_TERMINATED
  BY <1>2, AppendProperties, LenProperties, SchedulerAssumption DEF IInv, Places, Homes
<1> HIDE DEF k
<1>5. /\ Members(ready) \subseteq PCB /\ Range(blocked) \subseteq PCB /\ Range(killed) \subseteq PCB
      /\ NULL \notin Members(ready) \cup Range(blocked) \cup Range(k)
  BY <1>3, OnlyPCBs DEF IInv, Places, Homes
<1>6. Homes(ready, blocked, k, NULL)
  BY <1>2, <1>3, <1>5 DEF IInv, Places, Homes
<1>7. \A p \in PCB : st[p] = IF p = running THEN "HALT" ELSE state[p]
  BY <1>2 DEF IInv, TypeOK
<1>8. Fits(ready, blocked, k, NULL, st)
  <2>1. st \in [PCB -> ProcessState]
    BY <1>2 DEF IInv, TypeOK, ProcessState
  <2> HIDE DEF st
  <2> QED
    BY <1>2, <1>3, <1>5, <1>7, <2>1 DEF IInv, Places, Fits
<1> HIDE DEF st
<1>9. InPlaces(ready, blocked, k, NULL) = InPlaces(ready, blocked, killed, running)
  BY <1>1, <1>3 DEF InPlaces
<1>10. /\ Homes(ready, blocked, killed', NULL)
       /\ Range(killed') \subseteq Range(k)
       /\ freed' \subseteq freed \cup Range(k)
       /\ freed' \cap InPlaces(ready, blocked, killed', NULL) = {}
       /\ freed \subseteq freed'
  <2>1. freed \subseteq PCB /\ freed \cap InPlaces(ready, blocked, k, NULL) = {}
    BY <1>9 DEF IInv, Places, TypeOK
  <2>2. freed \subseteq freed'
    BY <1>1 DEF ReapKilled
  <2> QED
    BY <1>1, <1>4, <1>6, <2>1, <2>2, ReapHomes
<1>11. Fits(ready, blocked, killed', NULL, st)
  BY <1>8, <1>10 DEF Fits
<1>12. Life!HandOver(StageIn(ready, blocked, NULL, st, freed', Created))
  <2>1. LifeStage' = StageIn(ready', blocked, running', state', freed', Created)
    BY <1>1, LifeStageIs DEF Created
  <2>2. InPlaces(ready, blocked, killed', NULL) \subseteq Created /\ currQuantumSize \in Nat
    BY <1>9, <1>10 DEF IInv, Places, TypeOK, InPlaces
  <2> QED
    BY <1>1, <1>10, <1>11, <2>1, <2>2, DispatchLife
<1>13. R \in SUBSET ({p \in PCB : LifeStage[p] = "halted"} \cup {running})
  BY <1>3, <1>5, <1>10, StagesOfPlaces
<1>14. StageIn(ready, blocked, NULL, st, freed', Created) =
         [p \in PCB |-> IF p \in R THEN "released"
                        ELSE IF p = running THEN "halted" ELSE LifeStage[p]]
  <2>1. ASSUME NEW p \in PCB
        PROVE  StageOf(p, ready, blocked, NULL, st, freed', Created) =
                 IF p \in R THEN "released" ELSE IF p = running THEN "halted" ELSE LifeStage[p]
    <3>1. p # NULL /\ (p = running => p \notin freed)
      BY ConstantsFact DEF IInv, Places, InPlaces
    <3>2. p \in R => p \in Created
      BY <1>2, <1>3, <1>10 DEF IInv, Places, InPlaces
    <3>3. LifeStage[p] = StageOf(p, ready, blocked, running, state, freed, Created)
      BY StagesOfPlaces
    <3> QED
      BY <3>1, <3>2, <3>3, <1>2, <1>7, <1>10 DEF StageOf
  <2> QED
    BY <2>1 DEF StageIn
<1> HIDE DEF R
<1>15. Life!Halt(running, R)
  BY <1>1, <1>12, <1>14, StagesOfPlaces DEF Life!Halt
<1> QED
  BY <1>2, <1>13, <1>15

(* The I/O interrupt wakes the head of the blocked queue.                  *)
LEMMA IoInterruptLife ==
  ASSUME IInv, IoInterruptISR
  PROVE  \E p \in PCB : Life!Wake(p)
<1> DEFINE h == Head(blocked)
           b == Tail(blocked)
           q == pq_enqueue(ready, priority[h], h)
<1>1. /\ blocked # << >>
      /\ blocked' = b
      /\ ready' = q
      /\ ReapKilled(killed)
      /\ totalProcesses' = totalProcesses
  BY DEF IoInterruptISR
<1>2. /\ h \in Range(blocked)
      /\ Range(b) = Range(blocked) \ {h}
  BY <1>1, TailRange DEF IInv, Places, Homes
<1>3. /\ h \in PCB /\ h # running /\ h \notin Members(ready)
      /\ h \in Created /\ h \notin freed
  BY <1>2, OnlyPCBs DEF IInv, Places, Homes, InPlaces
<1>4. Members(q) = Members(ready) \cup {h}
  <2>1. priority[h] \in Level
    BY <1>3 DEF IInv, TypeOK
  <2> QED
    BY <2>1, <1>3, EnqueueSound DEF IInv, Places, Homes
<1>5. running' = running /\ state' = state
  <2>1. CASE running = NULL
    <3>1. Interrupted = NULL
      BY <2>1 DEF IInv, InterruptedIsTransient, Interrupted
    <3> QED
      BY <3>1 DEF IoInterruptISR, IInv, TypeOK
  <2>2. CASE running # NULL
    <3>1. running \in PCB /\ state[running] = "RUNNING" /\ Interrupted = running
      BY <2>2, RunningIsInterrupted
    <3>2. running' = running /\ state' = [state EXCEPT ![running] = "RUNNING"]
      BY <2>2, <3>1 DEF IoInterruptISR
    <3> QED
      BY <3>1, <3>2 DEF IInv, TypeOK
  <2> QED
    BY <2>1, <2>2
<1> HIDE DEF h, b, q
<1>6. freed' = freed /\ Created' = Created
  BY <1>1, ReapIdle DEF Created
<1>7. LifeStage[h] = "blocked"
  BY <1>2, <1>3, StagesOfPlaces
<1>8. LifeStage' = StageIn(q, b, running, state, freed, Created)
  BY <1>1, <1>5, <1>6, LifeStageIs
<1>9. ASSUME NEW p \in PCB
      PROVE  StageOf(p, q, b, running, state, freed, Created) =
               IF p = h THEN "queued" ELSE LifeStage[p]
  BY <1>2, <1>3, <1>4, StagesOfPlaces DEF StageOf
<1>10. LifeStage' = Life!Moved(LifeStage, h, "queued")
  BY <1>8, <1>9 DEF StageIn, Life!Moved
<1> QED
  BY <1>3, <1>7, <1>10 DEF Life!Wake

(* A round queues new processes, and may put one on the CPU in place of    *)
(* the process that runs.                                                  *)
LEMMA RoundLife ==
  ASSUME IInv, at \notin {"end?", "ended"}, SomeRound
  PROVE  \/ LifeStage' = LifeStage
         \/ \E new \in SUBSET {p \in PCB : LifeStage[p] = "unborn"} :
              new # {} /\ (Life!Arrive(new) \/ Life!TakeOver(new))
<1>1. PICK n \in 0 .. MAX_PCB_IN_ROUND - 1 :
        \E img \in [1 .. n -> Image] : makePCBList(n, img)
  BY DEF SomeRound
<1>2. PICK img \in [1 .. n -> Image] : makePCBList(n, img)
  BY <1>1
<1> DEFINE new == totalProcesses .. totalProcesses + n - 1
           s == [i \in 1 .. n |-> totalProcesses + i - 1]
           q == [ready EXCEPT ![0] = @ \o s]
           st == [p \in PCB |-> IF p \in new THEN "READY" ELSE state[p]]
<1>3. /\ n \in Nat
      /\ totalProcesses \in Nat
      /\ new \subseteq PCB
      /\ new \cap Created = {}
      /\ 0 .. totalProcesses + n - 1 = Created \cup new
      /\ n > 0 => totalProcesses \in new
      /\ n = 0 => new = {}
  BY SchedulerAssumption DEF IInv, RoomForRound, PCB, Created
<1>4. /\ totalProcesses' = totalProcesses + n
      /\ \/ /\ n > 0
            /\ running' = pq_peek(q)
            /\ ready' = pq_dequeue(q)
            /\ state' = [st EXCEPT ![pq_peek(q)] = "RUNNING"]
         \/ ready' = q /\ state' = st /\ running' = running
      /\ blocked' = blocked /\ freed' = freed
  BY <1>2 DEF makePCBList
<1>5. Sound(q, PCB) /\ Members(q) = Members(ready) \cup new
  <2>1. s \in Seq(PCB) /\ IsInjective(s) /\ Range(s) = new
    BY <1>3, PidsInOrder
  <2>2. new \cap Members(ready) = {}
    BY <1>3 DEF IInv, Places, InPlaces
  <2> HIDE DEF s, new
  <2>3. q = WithRound(ready, s)
    BY DEF q, WithRound
  <2> HIDE DEF q
  <2> QED
    BY <2>1, <2>2, <2>3, AppendRoundSound DEF IInv, Places, Homes
<1>6. \A p \in PCB : st[p] = IF p \in new THEN "READY" ELSE state[p]
  OBVIOUS
<1>7. Created' = Created \cup new
  BY <1>3, <1>4 DEF Created
<1> HIDE DEF q, s, st, new
<1>8. \A p \in PCB : LifeStage'[p] = StageOf(p, ready', blocked, running', state', freed, Created \cup new)
  BY <1>4, <1>7, LifeStageIs DEF StageIn
<1>9. \A p \in new : /\ p \in PCB /\ LifeStage[p] = "unborn"
                     /\ p \notin freed /\ p # running
  BY <1>3, StagesOfPlaces, ConstantsFact DEF IInv, Places, InPlaces
<1>10. \A p \in PCB \ new : LifeStage[p] =
         StageOf(p, ready, blocked, running, state, freed, Created \cup new)
  BY StagesOfPlaces DEF StageOf
<1>11. ASSUME ready' = q, state' = st, running' = running
       PROVE  LifeStage' = [p \in PCB |-> IF p \in new THEN "queued" ELSE LifeStage[p]]
  <2>1. ASSUME NEW p \in PCB
        PROVE  LifeStage'[p] = IF p \in new THEN "queued" ELSE LifeStage[p]
    BY <1>5, <1>6, <1>8, <1>9, <1>10, <1>11 DEF StageOf
  <2> QED
    BY <2>1, LifeStageIs DEF StageIn
<1>12. ASSUME n > 0, running' = pq_peek(q), ready' = pq_dequeue(q),
              state' = [st EXCEPT ![pq_peek(q)] = "RUNNING"]
       PROVE  Life!TakeOver(new)
  <2> DEFINE t == [p \in PCB |-> IF p \in new THEN "queued"
                                 ELSE IF LifeStage[p] = "running" THEN "lost" ELSE LifeStage[p]]
  <2>1. Members(q) # {}
    BY <1>3, <1>5, <1>12
  <2>2. running' \in Members(q) /\ Members(ready') = Members(q) \ {running'}
    BY <1>5, <1>12, <2>1, MembersSubset, DequeueSound
  <2>3. running' \in PCB
    BY <1>5, <2>2, MembersSubset
  <2>4. /\ running' # running
        /\ running' \in Created \cup new
        /\ running' \notin freed
        /\ running' \notin new => running' \in Members(ready)
    BY <1>5, <1>9, <2>2 DEF IInv, Places, Homes, InPlaces
  <2>5. \A p \in PCB : p # running' => state'[p] = st[p]
    BY <1>12
  <2>6. t[running'] = "queued"
    BY <1>10, <2>3, <2>4 DEF StageOf
  <2>7. ASSUME NEW p \in PCB PROVE LifeStage'[p] = IF p = running' THEN "running" ELSE t[p]
    <3>1. CASE p = running'
      BY <3>1, <1>8, <2>4 DEF StageOf
    <3>2. CASE p # running' /\ p \in new
      BY <3>2, <1>5, <1>8, <1>9, <2>2 DEF StageOf
    <3>3. CASE p # running' /\ p \notin new /\ p = running
      <4>1. /\ p \notin Members(q) \cup Range(blocked)
            /\ p \in Created /\ p \notin freed /\ state[p] = "RUNNING"
        BY <3>3, <1>5, ConstantsFact DEF IInv, Places, Homes, InPlaces, Fits
      <4>2. LifeStage'[p] = "lost"
        BY <3>3, <4>1, <1>6, <1>8, <2>2, <2>5 DEF StageOf
      <4>3. LifeStage[p] = "running"
        BY <3>3, <4>1, <1>10 DEF StageOf
      <4> QED
        BY <3>3, <4>2, <4>3
    <3>4. CASE p # running' /\ p \notin new /\ p # running
      <4>1. LifeStage[p] # "running"
        BY <3>4, StagesOfPlaces
      <4>2. LifeStage'[p] = LifeStage[p]
        BY <3>4, <1>5, <1>6, <1>8, <1>10, <2>2, <2>5 DEF StageOf
      <4> QED
        BY <3>4, <4>1, <4>2
    <3> QED
      BY <3>1, <3>2, <3>3, <3>4
  <2> HIDE DEF t
  <2>8. LifeStage' = Life!Moved(t, running', "running")
    BY <2>7, LifeStageIs DEF StageIn, Life!Moved
  <2>9. Life!HandOver(t)
    BY <2>3, <2>6, <2>8 DEF Life!HandOver
  <2> QED
    BY <2>9 DEF Life!TakeOver, t
<1>13. CASE n = 0
  <2>1. ready' = q /\ state' = st /\ running' = running
    BY <1>3, <1>4, <1>13
  <2>2. LifeStage' = [p \in PCB |-> LifeStage[p]]
    BY <1>3, <1>11, <1>13, <2>1
  <2> QED
    BY <2>2, StagesOfPlaces
<1>14. CASE n > 0
  <2>1. new # {} /\ new \in SUBSET {p \in PCB : LifeStage[p] = "unborn"}
    BY <1>3, <1>9, <1>14
  <2>2. Life!Arrive(new) \/ Life!TakeOver(new)
    BY <1>4, <1>11, <1>12, <1>14 DEF Life!Arrive
  <2> QED
    BY <2>1, <2>2
<1> QED
  BY <1>3, <1>13, <1>14

-----------------------------------------------------------------------------
(* Before the first round no process is born.                              *)
LEMMA LifeInit == Init => Life!Init
<1> SUFFICES ASSUME Init PROVE Life!Init
  OBVIOUS
<1>1. Created = {}
  BY DEF Init, Created
<1> QED
  BY <1>1, LifeStageIs DEF StageIn, StageOf, Life!Init

(* Every step of the program is a step of ProcessLife or changes no stage. *)
LEMMA LifeStep == IInv /\ [Next]_vars => [Life!Next]_LifeStage
<1> SUFFICES ASSUME IInv, [Next]_vars PROVE [Life!Next]_LifeStage
  OBVIOUS
<1>1. CASE \/ RunInstruction \/ Idle \/ TimerTick \/ NoTrap \/ WrapPC \/ NoWrap
           \/ IoTick \/ NoTermination \/ NoReset \/ BeginReset \/ FinishReset
           \/ ResetLevel \/ NoSpawn \/ EndOfPass \/ Ended \/ UNCHANGED vars
  BY <1>1, QuietLife
<1>2. CASE TimerInterrupt
  BY <1>2, TimerInterruptLife DEF Life!Next
<1>3. CASE IoTrap
  BY <1>3, IoTrapLife DEF IoTrap, Life!Next
<1>4. CASE IoInterrupt
  BY <1>4, IoInterruptLife DEF IoInterrupt, Life!Next
<1>5. CASE Terminate
  BY <1>5, TerminateLife DEF Life!Next
<1>6. CASE Boot \/ Spawn
  <2>1. at \notin {"end?", "ended"} /\ SomeRound
    BY <1>6 DEF Boot, Spawn
  <2> QED
    BY <2>1, RoundLife DEF Life!Next
<1> QED
  BY <1>1, <1>2, <1>3, <1>4, <1>5, <1>6 DEF Next

(* The scheduler implements ProcessLife: in every behaviour of the program *)
(* a process gets the CPU only from the MLFQ, no handler leaves the CPU    *)
(* idle while one is queued, and only a round can lose one.                *)
THEOREM LifeImplemented == Spec => ImplementsLife
<1>1. Init => Life!Init
  BY LifeInit
<1>2. IInv /\ [Next]_vars => [Life!Next]_LifeStage
  BY LifeStep
<1> QED
  BY <1>1, <1>2, Invariant, PTL DEF Spec, ImplementsLife, Life!Spec
=============================================================================
