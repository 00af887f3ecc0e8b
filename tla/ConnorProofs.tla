---------------------------- MODULE ConnorProofs ----------------------------
(***************************************************************************)
(* The alternative scheduler of scheduler_connor.c, in which a process can *)
(* be in several queues at once: it still never follows a null pointer nor *)
(* runs a halted process, and the order scheduler.c promises is lost in    *)
(* one way only.                                                           *)
(*                                                                         *)
(* The inductive invariant ConnorInv says nothing of where a process is.   *)
(* It rests on this: only processes that were created are anywhere, one    *)
(* that was not has not halted, and whatever puts a process on the CPU     *)
(* makes it RUNNING.  The order of scheduler.c is not an invariant here;   *)
(* the second half shows handler by handler that it is kept once it holds  *)
(* (InOrder), except by a trap with an empty MLFQ.                         *)
(***************************************************************************)
EXTENDS SchedulerConnor, SchedulerProofs

(* Only processes that were created are in the queues or on the CPU.       *)
Started ==
  /\ ready \in [Level -> Seq(Created)]
  /\ blocked \in Seq(Created)
  /\ killed \in Seq(Created)
  /\ running \in Created \cup {NULL}

(* The fields that ConnorTypeOK does not name.                             *)
ConnorFields ==
  /\ state \in [PCB -> ProcessState]
  /\ sysstack \in Nat /\ io_timer \in Nat
  /\ level \in 1 .. NUM_PRIORITIES

NoneHaltedUnborn == \A p \in PCB \ Created : state[p] # "HALT"

ConnorInv ==
  /\ ConnorTypeOK /\ ConnorFields /\ RoomForRound /\ Started /\ NoneHaltedUnborn
  /\ ConnorDerefSafe /\ IoTimerBounded

(* What a step may do to a process that has halted.                        *)
HaltKept ==
  \A p \in PCB : state[p] = "HALT" /\ state'[p] # "HALT" => at = "spawn" /\ isNew /\ running' = p

-----------------------------------------------------------------------------
(* PIDs of processes that were created are PIDs.                           *)
LEMMA CreatedInPCB == RoomForRound => Created \subseteq PCB /\ NULL \notin Created
<1> SUFFICES ASSUME RoomForRound PROVE Created \subseteq PCB /\ NULL \notin Created
  OBVIOUS
<1>1. Created \subseteq PCB
  BY SchedulerAssumption DEF RoomForRound, Created, PCB
<1> QED
  BY <1>1, ConstantsFact

(* A sequence over some PCBs is one over more.                             *)
LEMMA SeqGrows ==
  ASSUME NEW S, NEW T, S \subseteq T
  PROVE  \A s \in Seq(S) : s \in Seq(T)
<1> SUFFICES ASSUME NEW s \in Seq(S) PROVE s \in Seq(T)
  OBVIOUS
<1>1. Len(s) \in Nat /\ s \in [1 .. Len(s) -> S]
  BY LenProperties
<1>2. s \in [1 .. Len(s) -> T]
  BY <1>1
<1> QED
  BY <1>1, <1>2, SeqDef

(* An MLFQ of PCBs of S, on which a PCB may be more than once: a PCB of S  *)
(* can be put on it, and what is taken off it is one.                      *)
LEMMA QueueTypes ==
  ASSUME NEW S, NULL \notin S, NEW q \in [Level -> Seq(S)]
  PROVE  /\ \A l \in Level : \A p \in S : /\ pq_enqueue(q, l, p) \in [Level -> Seq(S)]
                                          /\ ~ pq_is_empty(pq_enqueue(q, l, p))
         /\ pq_peek(q) \in S \cup {NULL}
         /\ pq_peek(q) = NULL <=> pq_is_empty(q)
         /\ pq_dequeue(q) \in [Level -> Seq(S)]
<1>1. ASSUME NEW l \in Level, NEW p \in S
      PROVE  /\ pq_enqueue(q, l, p) \in [Level -> Seq(S)]
             /\ ~ pq_is_empty(pq_enqueue(q, l, p))
  <2>1. q[l] \in Seq(S)
    OBVIOUS
  <2>2. /\ Append(q[l], p) \in Seq(S)
        /\ Range(Append(q[l], p)) = Range(q[l]) \cup {p}
    BY <2>1, AppendRange
  <2>3. Range(<< >>) = {}
    BY DEF Range
  <2>4. Append(q[l], p) # << >>
    BY <2>2, <2>3
  <2> QED
    BY <2>2, <2>4 DEF pq_enqueue, q_enqueue, pq_is_empty
<1>2. CASE pq_is_empty(q)
  BY <1>1, <1>2 DEF pq_peek, pq_dequeue
<1>3. CASE ~ pq_is_empty(q)
  <2> DEFINE t == TopLevel(q)
  <2>1. t \in Level /\ q[t] # << >>
    BY <1>3, TopLevelIsFirst
  <2>2. pq_peek(q) = Head(q[t]) /\ pq_dequeue(q) = [q EXCEPT ![t] = Tail(q[t])]
    BY <1>3 DEF pq_peek, pq_dequeue
  <2> HIDE DEF t
  <2>3. q[t] \in Seq(S)
    BY <2>1
  <2>4. Head(q[t]) \in S /\ Tail(q[t]) \in Seq(S)
    BY <2>1, <2>3, HeadTailProperties
  <2> QED
    BY <1>1, <1>3, <2>1, <2>2, <2>4
<1> QED
  BY <1>2, <1>3

(* This dispatcher gives the CPU to a process that has not halted, or lets *)
(* run keep it; nobody halts or stops being halted.                        *)
LEMMA ConnorDispatchKeeps ==
  ASSUME Created \subseteq PCB, NEW q \in [Level -> Seq(Created)], NEW st \in [PCB -> ProcessState],
         NEW run \in Created \cup {NULL}, run # NULL => st[run] # "HALT",
         ConnorDispatch(q, st, run)
  PROVE  /\ ready' \in [Level -> Seq(Created)]
         /\ running' \in Created \cup {NULL}
         /\ run # NULL => running' # NULL
         /\ running' # NULL => state'[running'] # "HALT"
         /\ state' \in [PCB -> ProcessState]
         /\ \A p \in PCB : state'[p] = "HALT" <=> st[p] = "HALT"
<1> DEFINE next == pq_peek(q)
           rest == pq_dequeue(q)
<1>1. NULL \notin Created
  BY ConstantsFact
<1>2. next \in Created \cup {NULL} /\ rest \in [Level -> Seq(Created)]
  BY <1>1, QueueTypes
<1>3. CASE next # NULL /\ st[next] # "HALT"
  <2>1. running' = next /\ ready' = rest /\ state' = [st EXCEPT ![next] = "RUNNING"]
    BY <1>3 DEF ConnorDispatch
  <2> HIDE DEF next, rest
  <2>2. next \in PCB
    BY <1>2, <1>3
  <2> QED
    BY <1>2, <1>3, <2>1, <2>2 DEF ProcessState
<1>4. CASE ~ (next # NULL /\ st[next] # "HALT")
  <2>1. running' = run /\ ready' = q /\ state' = st
    BY <1>4 DEF ConnorDispatch
  <2> QED
    BY <2>1
<1> QED
  BY <1>3, <1>4

(* Emptying the killed queue leaves a sequence.                            *)
LEMMA ReapTypes ==
  ASSUME NEW S, NEW k \in Seq(S), ReapKilled(k)
  PROVE  killed' \in Seq(S) /\ killed' \in {k, << >>}
<1>1. << >> \in Seq(S)
  BY EmptySeq
<1> QED
  BY <1>1 DEF ReapKilled

(* While the loop may follow running, an interrupt is one of running.      *)
LEMMA ConnorInterrupted ==
  ASSUME ConnorInv, running # NULL
  PROVE  /\ running \in Created /\ running \in PCB
         /\ state[running] # "HALT"
         /\ Interrupted = running
         /\ Created \subseteq PCB
BY CreatedInPCB DEF ConnorInv, Started, ConnorDerefSafe, Interrupted

-----------------------------------------------------------------------------
(* The constructor's state satisfies the invariant.                        *)
LEMMA ConnorInitInv == ConnorInit => ConnorInv
<1> SUFFICES ASSUME ConnorInit PROVE ConnorInv
  OBVIOUS
<1>1. Init
  BY DEF ConnorInit
<1>2. IInv
  BY <1>1, InitIInv
<1>3. RoomForRound /\ TypeOK
  BY <1>2 DEF IInv
<1>4. Created \subseteq PCB /\ NULL \notin Created
  BY <1>3, CreatedInPCB
<1>5. << >> \in Seq(Created)
  BY EmptySeq
<1>6. Started
  BY <1>1, <1>5 DEF Init, Started, pq_create
<1>7. blocked_timer \in [PCB -> -1 .. TIMER_RANGE - 1] /\ IoTimerBounded
  BY <1>1, SchedulerAssumption DEF Init, IoTimerBounded
<1>8. ConnorTypeOK /\ ConnorFields
  BY <1>3, <1>7 DEF TypeOK, ConnorTypeOK, ConnorFields, ControlPoint, LoopPoint, ConnorPoint
<1>9. ConnorDerefSafe /\ NoneHaltedUnborn
  BY <1>1 DEF Init, ConnorDerefSafe, NoneHaltedUnborn
<1> QED
  BY <1>3, <1>6, <1>7, <1>8, <1>9 DEF ConnorInv

(* The steps that leave the queues, the CPU and the states alone.          *)
ConnorQuiet ==
  \/ RunInstruction \/ LoopIdle \/ TimerTick \/ LoopNoTrap \/ LoopIoTick \/ ConnorWrap
  \/ NoTermination \/ NoReset \/ BeginReset \/ FinishReset \/ NoSpawn \/ EndOfPass

(* The steps of this loop are these, the interrupts, a round of the reset  *)
(* and a round of new PCBs.                                                *)
LEMMA ConnorSteps ==
  [ConnorNext]_vars =>
    \/ UNCHANGED vars \/ ConnorQuiet
    \/ ConnorTimerInterrupt \/ ConnorTrap \/ ConnorIoInterrupt \/ ConnorTerminate
    \/ ResetLevel \/ Boot \/ Spawn
BY DEF ConnorNext, ConnorQuiet, ConnorTimerTick, ConnorNoTrap, ConnorIoTick,
       ConnorNoTermination, ConnorResetTest, ConnorResetMLFQ, ConnorRound, Ended, Over

(* A step that changes nothing.                                            *)
LEMMA ConnorStutter == ConnorInv /\ UNCHANGED vars => ConnorInv'
BY DEF vars, queueVars, pcbVars, tickVars, resetVars, ConnorInv, ConnorTypeOK, ConnorFields,
       RoomForRound, Started, NoneHaltedUnborn, ConnorDerefSafe, IoTimerBounded, Created

(* What a quiet step leaves alone; control stays off the points at which   *)
(* running is followed, unless it was there or there is a process to run.  *)
LEMMA QuietConnor ==
  ASSUME ConnorInv, ConnorQuiet
  PROVE  /\ UNCHANGED << queueVars, running, interrupted, state, priority, blocked_timer,
                         sysstack, totalProcesses >>
         /\ at' \in ConnorPoint \ {"boot"}
         /\ at' \in {"timer", "trap", "io"} => running # NULL
         /\ at' \in {"end?", "ended"} \/ totalProcesses < MAX_PCB_TOTAL
<1> USE DEF ConnorInv, RoomForRound, ConnorPoint, LoopPoint, ControlPoint, pcbVars
<1>1. CASE RunInstruction \/ TimerTick \/ LoopNoTrap
  BY <1>1 DEF RunInstruction, TimerTick, LoopNoTrap, ConnorDerefSafe
<1>2. CASE LoopIdle \/ LoopIoTick \/ ConnorWrap \/ NoTermination
  BY <1>2 DEF LoopIdle, LoopIoTick, NoIoInterrupt, ConnorWrap, RestartProgram, NoTermination
<1>3. CASE NoReset \/ BeginReset \/ FinishReset \/ NoSpawn
  BY <1>3 DEF NoReset, BeginReset, FinishReset, NoSpawn
<1>4. CASE EndOfPass
  BY <1>4, SchedulerAssumption DEF EndOfPass
<1> QED
  BY <1>1, <1>2, <1>3, <1>4 DEF ConnorQuiet

(* A quiet step keeps the invariant.                                       *)
LEMMA ConnorQuietStep == ConnorInv /\ ConnorQuiet => ConnorInv' /\ HaltKept
<1> SUFFICES ASSUME ConnorInv, ConnorQuiet PROVE ConnorInv' /\ HaltKept
  OBVIOUS
<1>1. /\ ready' = ready /\ blocked' = blocked /\ killed' = killed /\ running' = running
      /\ interrupted' = interrupted /\ state' = state /\ priority' = priority
      /\ blocked_timer' = blocked_timer /\ sysstack' = sysstack
      /\ totalProcesses' = totalProcesses
      /\ at' \in ConnorPoint \ {"boot"}
      /\ at' \in {"timer", "trap", "io"} => running # NULL
      /\ at' \in {"end?", "ended"} \/ totalProcesses < MAX_PCB_TOTAL
  BY QuietConnor DEF queueVars
<1>2. pc' \in [PCB -> Nat]
  <2>1. CASE RunInstruction
    <3>1. running \in PCB /\ pc \in [PCB -> Nat]
      BY <2>1, ConnorInterrupted DEF RunInstruction, ConnorInv, ConnorTypeOK
    <3> QED
      BY <2>1, <3>1 DEF RunInstruction
  <2>2. CASE ConnorWrap
    <3>1. pc' = [pc EXCEPT ![running] = 0] \/ pc' = pc
      BY <2>2 DEF ConnorWrap, RestartProgram, pcbVars
    <3>2. pc \in [PCB -> Nat]
      BY DEF ConnorInv, ConnorTypeOK
    <3>3. CASE pc' = [pc EXCEPT ![running] = 0]
      BY <3>2, <3>3
    <3>4. CASE pc' = pc
      BY <3>2, <3>4
    <3> QED
      BY <3>1, <3>3, <3>4
  <2>3. CASE ~ RunInstruction /\ ~ ConnorWrap
    <3>1. pc' = pc
      BY <2>3 DEF ConnorQuiet, LoopIdle, TimerTick, LoopNoTrap, LoopIoTick, NoIoInterrupt,
                  NoTermination, NoReset, BeginReset, FinishReset, NoSpawn, EndOfPass, pcbVars
    <3> QED
      BY <3>1 DEF ConnorInv, ConnorTypeOK
  <2> QED
    BY <2>1, <2>2, <2>3
<1>3. IoTimerBounded' /\ io_timer' \in Nat
  <2>1. CASE LoopIoTick /\ blocked # << >>
    <3> DEFINE h == Head(blocked)
    <3>1. h \in PCB
      <4>1. h \in Created
        BY <2>1, HeadTailProperties DEF ConnorInv, Started
      <4> QED
        BY <4>1, CreatedInPCB DEF ConnorInv
    <3>2. io_timer' = io_timer + 1 /\ ~ (io_timer >= blocked_timer[h])
      BY <2>1 DEF LoopIoTick, NoIoInterrupt, RequestServed
    <3>3. blocked_timer[h] \in -1 .. TIMER_RANGE - 1 /\ io_timer \in Nat /\ TIMER_RANGE \in Nat
      BY <3>1, SchedulerAssumption DEF ConnorInv, ConnorTypeOK, ConnorFields
    <3> HIDE DEF h
    <3>4. io_timer' \in Nat /\ io_timer' <= TIMER_RANGE - 1
      BY <3>2, <3>3
    <3> QED
      BY <1>1, <2>1, <3>4 DEF IoTimerBounded
  <2>2. CASE ~ (LoopIoTick /\ blocked # << >>)
    <3>1. io_timer' = io_timer
      BY <2>2 DEF ConnorQuiet, RunInstruction, LoopIdle, TimerTick, LoopNoTrap, LoopIoTick,
                  NoIoInterrupt, ConnorWrap, RestartProgram, NoTermination, NoReset, BeginReset,
                  FinishReset, NoSpawn, EndOfPass, tickVars
    <3> QED
      BY <1>1, <3>1 DEF ConnorInv, IoTimerBounded, ConnorFields
  <2> QED
    BY <2>1, <2>2
<1>4. level' \in 1 .. NUM_PRIORITIES
  <2>1. level' = level \/ level' = 1
    BY DEF ConnorQuiet, RunInstruction, LoopIdle, TimerTick, LoopNoTrap, LoopIoTick,
           NoIoInterrupt, ConnorWrap, RestartProgram, NoTermination, NoReset, BeginReset,
           FinishReset, NoSpawn, EndOfPass, resetVars
  <2> QED
    BY <2>1, MLFQAssumption DEF ConnorInv, ConnorFields
<1>5. ConnorTypeOK' /\ ConnorFields'
  BY <1>1, <1>2, <1>3, <1>4 DEF ConnorInv, ConnorTypeOK, ConnorFields
<1>6. Started' /\ NoneHaltedUnborn' /\ ConnorDerefSafe'
  BY <1>1 DEF ConnorInv, Started, NoneHaltedUnborn, ConnorDerefSafe, Created
<1>7. RoomForRound'
  BY <1>1 DEF ConnorInv, RoomForRound
<1> QED
  BY <1>1, <1>3, <1>5, <1>6, <1>7 DEF ConnorInv, HaltKept

-----------------------------------------------------------------------------
(* A handler keeps the invariant if it leaves only created processes in    *)
(* the queues, halts no process that was not created, and leaves a process *)
(* that has not halted on the CPU where the loop will follow running.      *)
LEMMA ConnorHandled ==
  ASSUME ConnorInv,
         /\ ready' \in [Level -> Seq(Created)]
         /\ blocked' \in Seq(Created) /\ killed' \in Seq(Created)
         /\ running' \in Created \cup {NULL}
         /\ running' # NULL => state'[running'] # "HALT",
         state' \in [PCB -> ProcessState],
         \A p \in PCB \ Created : state'[p] # "HALT",
         interrupted' \in PCB \cup {NULL},
         priority' \in [PCB -> Level],
         blocked_timer' \in [PCB -> -1 .. TIMER_RANGE - 1],
         pc' \in [PCB -> Nat],
         sysstack' \in Nat, io_timer' \in Nat, IoTimerBounded', level' \in 1 .. NUM_PRIORITIES,
         totalProcesses' = totalProcesses, at \notin {"end?", "ended"},
         at' \in ConnorPoint \ {"boot"},
         at' \in {"timer", "trap", "io"} => running' # NULL
  PROVE  ConnorInv'
<1>1. Created \subseteq PCB
  BY CreatedInPCB DEF ConnorInv
<1>2. ready' \in [Level -> Seq(PCB)] /\ blocked' \in Seq(PCB)
  <2>1. \A s \in Seq(Created) : s \in Seq(PCB)
    BY <1>1, SeqGrows
  <2> QED
    BY <2>1
<1>3. ConnorTypeOK' /\ ConnorFields'
  BY <1>1, <1>2 DEF ConnorTypeOK, ConnorFields
<1>4. Created' = Created
  BY DEF Created
<1>5. Started' /\ NoneHaltedUnborn' /\ ConnorDerefSafe'
  BY <1>4 DEF Started, NoneHaltedUnborn, ConnorDerefSafe
<1>6. RoomForRound'
  BY DEF ConnorInv, RoomForRound
<1> QED
  BY <1>3, <1>5, <1>6 DEF ConnorInv

(* The timer interrupt queues the process it interrupts.                   *)
LEMMA ConnorTimerStep == ConnorInv /\ ConnorTimerInterrupt => ConnorInv' /\ HaltKept
<1> SUFFICES ASSUME ConnorInv, ConnorTimerInterrupt PROVE ConnorInv' /\ HaltKept
  OBVIOUS
<1> DEFINE l == Demoted(priority[running])
           q == pq_enqueue(ready, l, running)
           st == [state EXCEPT ![running] = "READY"]
<1>1. running # NULL
  BY DEF ConnorInv, ConnorDerefSafe, ConnorTimerInterrupt
<1>2. /\ running \in Created /\ running \in PCB /\ state[running] # "HALT"
      /\ Interrupted = running /\ Created \subseteq PCB
  BY <1>1, ConnorInterrupted
<1>3. /\ at = "timer" /\ at' \in {"beyond", "trap"}
      /\ interrupted' = running
      /\ priority' = [priority EXCEPT ![running] = l]
      /\ ReapKilled(killed)
      /\ ConnorDispatch(q, st, running)
      /\ sysstack' = sysstack /\ pseudoIRET
      /\ blocked' = blocked /\ blocked_timer' = blocked_timer /\ io_timer' = io_timer
      /\ totalProcesses' = totalProcesses /\ level' = level
  BY <1>2 DEF ConnorTimerInterrupt, GoTo, resetVars
<1>4. l \in Level
  BY <1>2, ConstantsFact DEF ConnorInv, ConnorTypeOK
<1> HIDE DEF l
<1>5. q \in [Level -> Seq(Created)]
  BY <1>2, <1>4, QueueTypes, ConstantsFact DEF ConnorInv, Started
<1>6. /\ st \in [PCB -> ProcessState] /\ st[running] # "HALT"
      /\ \A p \in PCB : st[p] = "HALT" <=> state[p] = "HALT"
  BY <1>2 DEF ConnorInv, ConnorFields, ProcessState
<1> HIDE DEF q, st
<1>7. /\ ready' \in [Level -> Seq(Created)]
      /\ running' \in Created /\ running' # NULL /\ state'[running'] # "HALT"
      /\ state' \in [PCB -> ProcessState]
      /\ \A p \in PCB : state'[p] = "HALT" <=> state[p] = "HALT"
  BY <1>1, <1>2, <1>3, <1>5, <1>6, ConnorDispatchKeeps
<1>8. killed' \in Seq(Created) /\ blocked' \in Seq(Created)
  BY <1>3, ReapTypes DEF ConnorInv, Started
<1>9. pc' \in [PCB -> Nat] /\ priority' \in [PCB -> Level]
  BY <1>2, <1>3, <1>4, <1>7, IretType DEF ConnorInv, ConnorTypeOK, ConnorFields
<1>10. IoTimerBounded' /\ blocked_timer' \in [PCB -> -1 .. TIMER_RANGE - 1]
  BY <1>3 DEF ConnorInv, IoTimerBounded, ConnorTypeOK
<1>11. ConnorInv'
  BY <1>2, <1>3, <1>7, <1>8, <1>9, <1>10, ConnorHandled
  DEF ConnorInv, NoneHaltedUnborn, ConnorFields, ConnorPoint, LoopPoint, ControlPoint
<1> QED
  BY <1>7, <1>11 DEF HaltKept

(* The I/O trap blocks the running process, which may go on running.       *)
LEMMA ConnorTrapStep == ConnorInv /\ ConnorTrap => ConnorInv' /\ HaltKept
<1> SUFFICES ASSUME ConnorInv, ConnorTrap PROVE ConnorInv' /\ HaltKept
  OBVIOUS
<1> DEFINE b == Append(blocked, running)
           st == [state EXCEPT ![running] = "WAIT"]
<1>1. running # NULL
  BY DEF ConnorInv, ConnorDerefSafe, ConnorTrap
<1>2. /\ running \in Created /\ running \in PCB /\ state[running] # "HALT"
      /\ Interrupted = running /\ Created \subseteq PCB
  BY <1>1, ConnorInterrupted
<1>3. /\ at = "trap" /\ at' \in {"beyond", "io"}
      /\ interrupted' = running
      /\ \E timer \in 0 .. TIMER_RANGE - 1 :
           blocked_timer' = [blocked_timer EXCEPT ![running] = timer]
      /\ blocked' = b
      /\ ReapKilled(killed)
      /\ ConnorDispatch(ready, st, running)
      /\ sysstack' = sysstack /\ pseudoIRET
      /\ priority' = priority /\ io_timer' = io_timer
      /\ totalProcesses' = totalProcesses /\ level' = level
  BY <1>2 DEF ConnorTrap, GoTo, q_enqueue, tickVars, resetVars
<1>4. b \in Seq(Created) /\ b # << >>
  BY <1>2, AppendProperties DEF ConnorInv, Started
<1>5. /\ st \in [PCB -> ProcessState] /\ st[running] # "HALT"
      /\ \A p \in PCB : st[p] = "HALT" <=> state[p] = "HALT"
  BY <1>2 DEF ConnorInv, ConnorFields, ProcessState
<1> HIDE DEF b, st
<1>6. ready \in [Level -> Seq(Created)]
  BY DEF ConnorInv, Started
<1>7. /\ ready' \in [Level -> Seq(Created)]
      /\ running' \in Created /\ running' # NULL /\ state'[running'] # "HALT"
      /\ state' \in [PCB -> ProcessState]
      /\ \A p \in PCB : state'[p] = "HALT" <=> state[p] = "HALT"
  BY <1>1, <1>2, <1>3, <1>5, <1>6, ConnorDispatchKeeps
<1>8. killed' \in Seq(Created)
  BY <1>3, ReapTypes DEF ConnorInv, Started
<1>9. pc' \in [PCB -> Nat]
  BY <1>2, <1>3, <1>7, IretType DEF ConnorInv, ConnorTypeOK, ConnorFields
<1>10. blocked_timer' \in [PCB -> -1 .. TIMER_RANGE - 1]
  <2>1. PICK timer \in 0 .. TIMER_RANGE - 1 :
          blocked_timer' = [blocked_timer EXCEPT ![running] = timer]
    BY <1>3
  <2>2. timer \in -1 .. TIMER_RANGE - 1
    BY SchedulerAssumption
  <2> QED
    BY <2>1, <2>2 DEF ConnorInv, ConnorTypeOK
<1>11. io_timer' \in Nat /\ IoTimerBounded'
  <2>1. io_timer \in Nat /\ io_timer <= TIMER_RANGE - 1
    BY SchedulerAssumption DEF ConnorInv, ConnorFields, IoTimerBounded
  <2> QED
    BY <1>3, <1>4, <2>1 DEF IoTimerBounded
<1>12. ConnorInv'
  BY <1>2, <1>3, <1>4, <1>7, <1>8, <1>9, <1>10, <1>11, ConnorHandled
  DEF ConnorInv, NoneHaltedUnborn, ConnorTypeOK, ConnorFields, ConnorPoint, LoopPoint, ControlPoint
<1> QED
  BY <1>7, <1>12 DEF HaltKept

(* The I/O interrupt wakes a process, also one that has halted; the        *)
(* running process, which is there, goes on running.                       *)
LEMMA ConnorIoStep == ConnorInv /\ ConnorIoInterrupt => ConnorInv' /\ HaltKept
<1> SUFFICES ASSUME ConnorInv, ConnorIoInterrupt PROVE ConnorInv' /\ HaltKept
  OBVIOUS
<1> DEFINE h == Head(blocked)
<1>1. running # NULL
  BY DEF ConnorInv, ConnorDerefSafe, ConnorIoInterrupt
<1>2. /\ running \in Created /\ running \in PCB /\ state[running] # "HALT"
      /\ Interrupted = running /\ Created \subseteq PCB
  BY <1>1, ConnorInterrupted
<1>3. /\ at = "io" /\ at' = "wrap"
      /\ blocked # << >>
      /\ io_timer' = 0
      /\ blocked' = Tail(blocked)
      /\ ready' = pq_enqueue(ready, priority[h], h)
      /\ interrupted' = running /\ running' = running
      /\ state' = [state EXCEPT ![running] = "RUNNING"]
      /\ sysstack' = pc[running]
      /\ ReapKilled(killed) /\ pseudoIRET
      /\ priority' = priority /\ blocked_timer' = blocked_timer
      /\ totalProcesses' = totalProcesses /\ level' = level
  BY <1>2 DEF ConnorIoInterrupt, resetVars
<1>4. h \in Created /\ Tail(blocked) \in Seq(Created)
  BY <1>3, HeadTailProperties DEF ConnorInv, Started
<1> HIDE DEF h
<1>5. priority[h] \in Level
  BY <1>2, <1>4 DEF ConnorInv, ConnorTypeOK
<1>6. ready' \in [Level -> Seq(Created)]
  BY <1>2, <1>3, <1>4, <1>5, QueueTypes, ConstantsFact DEF ConnorInv, Started
<1>7. /\ state' \in [PCB -> ProcessState] /\ state'[running'] # "HALT"
      /\ \A p \in PCB : state'[p] = "HALT" <=> state[p] = "HALT"
  BY <1>2, <1>3 DEF ConnorInv, ConnorFields, ProcessState
<1>8. killed' \in Seq(Created)
  BY <1>3, ReapTypes DEF ConnorInv, Started
<1>9. sysstack' \in Nat /\ pc' \in [PCB -> Nat]
  BY <1>2, <1>3, IretType DEF ConnorInv, ConnorTypeOK
<1>10. io_timer' \in Nat /\ IoTimerBounded'
  BY <1>3, SchedulerAssumption DEF IoTimerBounded
<1>11. ConnorInv'
  BY <1>2, <1>3, <1>4, <1>6, <1>7, <1>8, <1>9, <1>10, ConnorHandled
  DEF ConnorInv, NoneHaltedUnborn, ConnorTypeOK, ConnorFields, ConnorPoint, LoopPoint, ControlPoint
<1> QED
  BY <1>7, <1>11 DEF HaltKept

(* A termination halts the running process, and its dispatcher is the only *)
(* one that can leave the CPU without a process.                           *)
LEMMA ConnorTerminateStep == ConnorInv /\ ConnorTerminate => ConnorInv' /\ HaltKept
<1> SUFFICES ASSUME ConnorInv, ConnorTerminate PROVE ConnorInv' /\ HaltKept
  OBVIOUS
<1> DEFINE k == Append(killed, running)
           st == [state EXCEPT ![running] = "HALT"]
<1>1. /\ running # NULL
      /\ at = "terminate" /\ at' \in {"undefined", "reset?"}
      /\ ReapKilled(k)
      /\ ConnorDispatch(ready, st, NULL)
      /\ blocked' = blocked /\ interrupted' = interrupted /\ priority' = priority /\ pc' = pc
      /\ blocked_timer' = blocked_timer /\ sysstack' = sysstack /\ io_timer' = io_timer
      /\ totalProcesses' = totalProcesses /\ level' = level
  BY DEF ConnorTerminate, q_enqueue, tickVars, resetVars
<1>2. running \in Created /\ running \in PCB /\ Created \subseteq PCB
  BY <1>1, ConnorInterrupted
<1>3. k \in Seq(Created)
  BY <1>2, AppendProperties DEF ConnorInv, Started
<1>4. /\ st \in [PCB -> ProcessState]
      /\ \A p \in PCB : st[p] = "HALT" <=> p = running \/ state[p] = "HALT"
  BY <1>2 DEF ConnorInv, ConnorFields, ProcessState
<1> HIDE DEF k, st
<1>5. ready \in [Level -> Seq(Created)]
  BY DEF ConnorInv, Started
<1>6. /\ ready' \in [Level -> Seq(Created)]
      /\ running' \in Created \cup {NULL}
      /\ running' # NULL => state'[running'] # "HALT"
      /\ state' \in [PCB -> ProcessState]
      /\ \A p \in PCB : state'[p] = "HALT" <=> st[p] = "HALT"
  BY <1>1, <1>2, <1>4, <1>5, ConnorDispatchKeeps
<1>7. killed' \in Seq(Created)
  BY <1>1, <1>3, ReapTypes
<1>8. IoTimerBounded'
  BY <1>1 DEF ConnorInv, IoTimerBounded
<1>9. ConnorInv'
  BY <1>1, <1>2, <1>4, <1>6, <1>7, <1>8, ConnorHandled
  DEF ConnorInv, Started, NoneHaltedUnborn, ConnorTypeOK, ConnorFields,
      ConnorPoint, LoopPoint, ControlPoint
<1> QED
  BY <1>4, <1>6, <1>9 DEF HaltKept

(* One round of resetMLFQ's loop moves PCBs within the MLFQ.               *)
LEMMA ConnorResetStep == ConnorInv /\ ResetLevel => ConnorInv' /\ HaltKept
<1> SUFFICES ASSUME ConnorInv, ResetLevel PROVE ConnorInv' /\ HaltKept
  OBVIOUS
<1>1. /\ at = "reset" /\ at' = at /\ level # NUM_PRIORITIES /\ level' = level + 1
      /\ ready' = [ready EXCEPT ![0] = @ \o ready[level], ![level] = << >>]
      /\ priority' = MovedToTop(ready[level])
      /\ blocked' = blocked /\ killed' = killed /\ running' = running
      /\ interrupted' = interrupted /\ state' = state /\ pc' = pc
      /\ blocked_timer' = blocked_timer /\ sysstack' = sysstack /\ io_timer' = io_timer
      /\ totalProcesses' = totalProcesses
  BY DEF ResetLevel, ResetDone, tickVars
<1>2. level \in Level /\ 0 \in Level /\ level' \in 1 .. NUM_PRIORITIES
  BY <1>1, MLFQAssumption DEF ConnorInv, ConnorFields, Level
<1>3. ready' \in [Level -> Seq(Created)]
  <2>1. ready[0] \in Seq(Created) /\ ready[level] \in Seq(Created) /\ << >> \in Seq(Created)
    BY <1>2, EmptySeq DEF ConnorInv, Started
  <2>2. ready[0] \o ready[level] \in Seq(Created)
    BY <2>1, ConcatProperties
  <2> QED
    BY <1>1, <1>2, <2>1, <2>2 DEF ConnorInv, Started
<1>4. priority' \in [PCB -> Level]
  BY <1>1, <1>2 DEF MovedToTop, ConnorInv, ConnorTypeOK
<1>5. IoTimerBounded'
  BY <1>1 DEF ConnorInv, IoTimerBounded
<1>6. ConnorInv'
  BY <1>1, <1>2, <1>3, <1>4, <1>5, ConnorHandled
  DEF ConnorInv, Started, NoneHaltedUnborn, ConnorDerefSafe, ConnorTypeOK, ConnorFields,
      ConnorPoint, LoopPoint, ControlPoint
<1> QED
  BY <1>1, <1>6 DEF HaltKept

-----------------------------------------------------------------------------
(* A round adds new processes, behind those on level 0, and may put the    *)
(* first process of the MLFQ on the CPU; only that one, and only for a     *)
(* round of a reset, may have halted.                                      *)
LEMMA ConnorRoundStep ==
  ASSUME ConnorInv, SomeRound, at \in {"boot", "spawn"},
         at' \in {"top", "end?"}, at = "boot" => at' = "top", at = "spawn" => at' = "end?"
  PROVE  ConnorInv' /\ HaltKept
<1>1. PICK n \in 0 .. MAX_PCB_IN_ROUND - 1 :
        \E img \in [1 .. n -> Image] : makePCBList(n, img)
  BY DEF SomeRound
<1>2. PICK img \in [1 .. n -> Image] : makePCBList(n, img)
  BY <1>1
<1> DEFINE new == totalProcesses .. totalProcesses + n - 1
           s == [i \in 1 .. n |-> totalProcesses + i - 1]
           q == [ready EXCEPT ![0] = @ \o s]
           st == [p \in PCB |-> IF p \in new THEN "READY" ELSE state[p]]
<1>3. /\ totalProcesses' = totalProcesses + n
      /\ \/ /\ n > 0 /\ isNew
            /\ running' = pq_peek(q)
            /\ ready' = pq_dequeue(q)
            /\ state' = [st EXCEPT ![pq_peek(q)] = "RUNNING"]
         \/ /\ ready' = q
            /\ state' = st
            /\ running' = running
      /\ blocked' = blocked /\ killed' = killed /\ interrupted' = interrupted
      /\ priority' = priority /\ pc' = pc /\ blocked_timer' = blocked_timer
      /\ sysstack' = sysstack /\ io_timer' = io_timer /\ level' = level
  <2>1. /\ totalProcesses' = totalProcesses + n
        /\ \/ /\ n > 0 /\ isNew
              /\ running' = pq_peek(q)
              /\ ready' = pq_dequeue(q)
              /\ state' = [st EXCEPT ![pq_peek(q)] = "RUNNING"]
           \/ /\ ready' = q
              /\ state' = st
              /\ UNCHANGED << running, isNew, currQuantumSize >>
        /\ UNCHANGED << blocked, killed, interrupted, priority, pc, term_count,
                        blocked_timer, freed, sysstack, tickVars, resetVars >>
    BY <1>2 DEF makePCBList
  <2> HIDE DEF q, st
  <2> QED
    BY <2>1 DEF tickVars, resetVars
<1>4. /\ n \in Nat /\ totalProcesses \in Nat
      /\ totalProcesses < MAX_PCB_TOTAL
      /\ new \subseteq PCB
      /\ new \cap Created = {}
      /\ Created' = Created \cup new
      /\ totalProcesses + n <= (MAX_PCB_TOTAL - 1) + (MAX_PCB_IN_ROUND - 1)
      /\ totalProcesses = 0 => totalProcesses + n < MAX_PCB_TOTAL
      /\ n > 0 => totalProcesses \in new
  BY <1>1, <1>3, SchedulerAssumption DEF ConnorInv, RoomForRound, PCB, Created
<1>5. RoomForRound'
  BY <1>3, <1>4 DEF ConnorInv, RoomForRound
<1>6. /\ Created \subseteq PCB /\ Created' \subseteq PCB /\ Created \subseteq Created'
      /\ NULL \notin Created /\ NULL \notin Created'
  <2>1. Created \subseteq PCB
    BY CreatedInPCB DEF ConnorInv
  <2> HIDE DEF new
  <2> QED
    BY <2>1, <1>4, ConstantsFact
<1>7. s \in Seq(Created') /\ (n > 0 => s # << >>)
  <2>1. new \subseteq Created'
    BY <1>4
  <2>2. s \in Seq(Created') /\ Range(s) = new
    BY <1>4, <2>1, PidsInOrder
  <2>3. Range(<< >>) = {}
    BY DEF Range
  <2> QED
    BY <1>4, <2>2, <2>3
<1>8. /\ ready \in [Level -> Seq(Created')]
      /\ blocked \in Seq(Created') /\ killed \in Seq(Created')
  <2>1. \A t \in Seq(Created) : t \in Seq(Created')
    BY <1>6, SeqGrows
  <2> QED
    BY <2>1 DEF ConnorInv, Started
<1> HIDE DEF s
<1>9. q \in [Level -> Seq(Created')] /\ (n > 0 => ~ pq_is_empty(q))
  <2>1. 0 \in Level
    BY ConstantsFact
  <2>2. ready[0] \in Seq(Created')
    BY <1>8, <2>1
  <2>3. /\ ready[0] \o s \in Seq(Created')
        /\ Range(ready[0] \o s) = Range(ready[0]) \cup Range(s)
    BY <1>7, <2>2, ConcatRange
  <2>4. n > 0 => ready[0] \o s # << >>
    <3>1. Len(ready[0] \o s) = Len(ready[0]) + Len(s)
      BY <1>7, <2>2, ConcatProperties
    <3>2. n > 0 => Len(s) > 0
      BY <1>7, EmptySeq, LenProperties
    <3>3. Len(ready[0]) \in Nat /\ Len(s) \in Nat /\ Len(<< >>) = 0
      BY <1>7, <2>2, LenProperties, EmptySeq
    <3> QED
      BY <3>1, <3>2, <3>3
  <2>5. q = [ready EXCEPT ![0] = ready[0] \o s]
    OBVIOUS
  <2> HIDE DEF q
  <2>6. q[0] = ready[0] \o s
    BY <1>8, <2>1, <2>5
  <2> QED
    BY <1>8, <2>1, <2>3, <2>4, <2>5, <2>6 DEF pq_is_empty
<1> HIDE DEF q
<1>10. /\ st \in [PCB -> ProcessState]
       /\ \A p \in PCB : st[p] = "HALT" <=> p \notin new /\ state[p] = "HALT"
  BY DEF ConnorInv, ConnorFields, ProcessState
<1> HIDE DEF st
<1>11. \A p \in PCB : state[p] = "HALT" => p \in Created /\ p \notin new
  BY <1>4 DEF ConnorInv, NoneHaltedUnborn
<1>12. \A p \in PCB : st[p] = "HALT" <=> state[p] = "HALT"
  BY <1>10, <1>11
<1> HIDE DEF new
<1>13. /\ ready' \in [Level -> Seq(Created')]
       /\ running' \in Created' \cup {NULL}
       /\ running' # NULL => state'[running'] # "HALT"
       /\ state' \in [PCB -> ProcessState]
       /\ \A p \in PCB : state'[p] = "HALT" => state[p] = "HALT"
       /\ \A p \in PCB : state[p] = "HALT" /\ state'[p] # "HALT" => isNew /\ running' = p
  <2>1. CASE n > 0 /\ isNew /\ running' = pq_peek(q) /\ ready' = pq_dequeue(q)
             /\ state' = [st EXCEPT ![pq_peek(q)] = "RUNNING"]
    <3>1. running' \in Created' /\ ready' \in [Level -> Seq(Created')]
      BY <1>6, <1>9, <2>1, QueueTypes
    <3>2. running' \in PCB /\ state' = [st EXCEPT ![running'] = "RUNNING"]
      BY <1>6, <2>1, <3>1
    <3> QED
      BY <1>10, <1>12, <2>1, <3>1, <3>2 DEF ProcessState
  <2>2. CASE ready' = q /\ state' = st /\ running' = running
    <3>1. running' \in Created' \cup {NULL}
      BY <1>6, <2>2 DEF ConnorInv, Started
    <3>2. running # NULL => running \in PCB /\ state[running] # "HALT"
      BY <1>6 DEF ConnorInv, Started, ConnorDerefSafe
    <3> QED
      BY <1>9, <1>10, <1>12, <2>2, <3>1, <3>2
  <2> QED
    BY <1>3, <2>1, <2>2
<1>14. HaltKept
  <2>1. CASE at = "spawn"
    BY <1>13, <2>1 DEF HaltKept
  <2>2. CASE at = "boot"
    <3>1. Created = {}
      BY <2>2 DEF ConnorInv, RoomForRound, Created
    <3> QED
      BY <1>11, <3>1 DEF HaltKept
  <2> QED
    BY <2>1, <2>2
<1>15. ConnorTypeOK' /\ ConnorFields'
  <2>1. \A t \in Seq(Created') : t \in Seq(PCB)
    BY <1>6, SeqGrows
  <2>2. ready' \in [Level -> Seq(PCB)] /\ blocked' \in Seq(PCB) /\ running' \in PCB \cup {NULL}
    BY <1>3, <1>6, <1>8, <1>13, <2>1
  <2>3. at' \in ConnorPoint
    BY DEF ConnorPoint, LoopPoint, ControlPoint
  <2> QED
    BY <1>3, <1>13, <2>2, <2>3 DEF ConnorInv, ConnorTypeOK, ConnorFields
<1>16. Started' /\ NoneHaltedUnborn'
  <2>1. \A p \in PCB \ Created' : state'[p] # "HALT"
    BY <1>6, <1>11, <1>13
  <2> QED
    BY <1>3, <1>8, <1>13, <2>1 DEF Started, NoneHaltedUnborn
<1>17. ConnorDerefSafe' /\ IoTimerBounded'
  BY <1>3, <1>13 DEF ConnorInv, ConnorDerefSafe, IoTimerBounded
<1> QED
  BY <1>5, <1>14, <1>15, <1>16, <1>17 DEF ConnorInv

(* Every step keeps the invariant, and what has halted stays halted but    *)
(* for the first process of the MLFQ at a round.                           *)
LEMMA ConnorStep ==
  ConnorInv /\ [ConnorNext]_vars =>
    ConnorInv' /\ (UNCHANGED vars \/ HaltKept)
<1> SUFFICES ASSUME ConnorInv, [ConnorNext]_vars
             PROVE  ConnorInv' /\ (UNCHANGED vars \/ HaltKept)
  OBVIOUS
<1>1. CASE UNCHANGED vars
  BY <1>1, ConnorStutter
<1>2. CASE Boot \/ Spawn
  <2>1. /\ SomeRound /\ at \in {"boot", "spawn"}
        /\ at' \in {"top", "end?"}
        /\ at = "boot" => at' = "top"
        /\ at = "spawn" => at' = "end?"
    BY <1>2 DEF Boot, Spawn
  <2> QED
    BY <2>1, ConnorRoundStep
<1>3. CASE ConnorQuiet \/ ConnorTimerInterrupt \/ ConnorTrap \/ ConnorIoInterrupt
           \/ ConnorTerminate \/ ResetLevel
  BY <1>3, ConnorQuietStep, ConnorTimerStep, ConnorTrapStep, ConnorIoStep, ConnorTerminateStep,
     ConnorResetStep
<1> QED
  BY <1>1, <1>2, <1>3, ConnorSteps

(* The inductive invariant holds from the constructor on.                  *)
THEOREM ConnorInvariant == ConnorSpec => []ConnorInv
<1>1. ConnorInit => ConnorInv
  BY ConnorInitInv
<1>2. ConnorInv /\ [ConnorNext]_vars => ConnorInv'
  BY ConnorStep
<1> QED
  BY <1>1, <1>2, PTL DEF ConnorSpec

(* Every variable the two programs treat differently stays in its type,    *)
(* although a process may be queued many times.                            *)
THEOREM ConnorTypeCorrect == ConnorSpec => []ConnorTypeOK
<1>1. ConnorInv => ConnorTypeOK
  BY DEF ConnorInv
<1> QED
  BY <1>1, ConnorInvariant, PTL

(* The loop finds a process wherever it follows running, and never one     *)
(* that has halted.                                                        *)
THEOREM ConnorDerefSafeAlways == ConnorSpec => []ConnorDerefSafe
<1>1. ConnorInv => ConnorDerefSafe
  BY DEF ConnorInv
<1> QED
  BY <1>1, ConnorInvariant, PTL

(* The timer of the head of the blocked queue never passes the longest     *)
(* request.                                                                *)
THEOREM IoTimerBoundedAlways == ConnorSpec => []IoTimerBounded
<1>1. ConnorInv => IoTimerBounded
  BY DEF ConnorInv
<1> QED
  BY <1>1, ConnorInvariant, PTL

(* A process that halted stays halted, unless a round puts the first       *)
(* process of the MLFQ on the CPU.                                         *)
THEOREM HaltIsFinalAlways == ConnorSpec => HaltIsFinal
<1>1. ConnorInv /\ [ConnorNext]_vars =>
        [\A p \in PCB : state[p] = "HALT" /\ state'[p] # "HALT" =>
            at = "spawn" /\ isNew /\ running' = p]_vars
  BY ConnorStep DEF HaltKept
<1> QED
  BY <1>1, ConnorInvariant, PTL DEF ConnorSpec, HaltIsFinal

-----------------------------------------------------------------------------
(* The order of scheduler.c: the MLFQ q, the blocked queue b, the killed   *)
(* queue k and the running process r share no process, and the states st   *)
(* fit.                                                                    *)
InOrder(q, b, k, r, st) == Homes(q, b, k, r) /\ Fits(q, b, k, r, st)

(* This is what Clean says of the variables.                               *)
LEMMA CleanIsOrder ==
  /\ ConnorInv /\ Clean => InOrder(ready, blocked, killed, running, state)
  /\ InOrder(ready', blocked', killed', running', state') => Clean'
<1>1. ASSUME ConnorInv, Clean PROVE InOrder(ready, blocked, killed, running, state)
  <2>1. Created \subseteq PCB
    BY <1>1, CreatedInPCB DEF ConnorInv
  <2>2. killed \in Seq(PCB)
    BY <1>1, <2>1, SeqGrows DEF ConnorInv, Started
  <2>3. Homes(ready, blocked, killed, running)
    BY <1>1, <2>2 DEF ConnorInv, ConnorTypeOK, Clean, OneHome, Queued, Homes, Sound
  <2>4. Fits(ready, blocked, killed, running, state)
    BY <1>1 DEF ConnorInv, ConnorFields, Clean, StateFitsPlace, Queued, Fits
  <2> QED
    BY <2>3, <2>4 DEF InOrder
<1>2. ASSUME InOrder(ready', blocked', killed', running', state') PROVE Clean'
  <2>1. OneHome'
    BY <1>2 DEF InOrder, Homes, Sound, OneHome, Queued
  <2>2. StateFitsPlace'
    BY <1>2 DEF InOrder, Fits, StateFitsPlace, Queued
  <2> QED
    BY <2>1, <2>2 DEF Clean
<1> QED
  BY <1>1, <1>2

(* Emptying the killed queue keeps the order.                              *)
LEMMA ReapOrder ==
  ASSUME NEW q, NEW b, NEW k, NEW r, NEW st, InOrder(q, b, k, r, st), ReapKilled(k)
  PROVE  InOrder(q, b, killed', r, st)
<1>1. CASE killed' = k
  BY <1>1
<1>2. CASE killed' = << >>
  <2>1. Range(killed') = {} /\ IsInjective(killed') /\ killed' \in Seq(PCB)
    BY <1>2, EmptySeq DEF Range, IsInjective
  <2> QED
    BY <2>1 DEF InOrder, Homes, Fits
<1> QED
  BY <1>1, <1>2 DEF ReapKilled

(* This dispatcher keeps the order too, if the MLFQ has a process for the  *)
(* CPU or the CPU has none to keep.                                        *)
LEMMA ConnorDispatchOrder ==
  ASSUME NEW q, NEW b, NEW k, NEW st, NEW run,
         InOrder(q, b, k, NULL, st), ~ pq_is_empty(q) \/ run = NULL,
         ConnorDispatch(q, st, run)
  PROVE  InOrder(ready', b, k, running', state')
<1>1. Homes(q, b, k, NULL) /\ Fits(q, b, k, NULL, st)
  BY DEF InOrder
<1>2. Sound(q, PCB) /\ Members(q) \subseteq PCB
  BY <1>1, MembersSubset DEF Homes
<1>3. CASE pq_is_empty(q)
  <2>1. running' = NULL /\ ready' = q /\ state' = st
    BY <1>3 DEF ConnorDispatch, pq_peek
  <2> QED
    BY <2>1
<1>4. CASE ~ pq_is_empty(q)
  <2> DEFINE h == pq_peek(q)
             rest == pq_dequeue(q)
  <2>1. h \in Members(q) /\ Sound(rest, PCB) /\ Members(rest) = Members(q) \ {h}
    BY <1>2, <1>4, DequeueSound
  <2> HIDE DEF h, rest
  <2>2. h \in PCB /\ h # NULL /\ st[h] # "HALT"
    BY <1>1, <1>2, <2>1, ConstantsFact DEF Fits
  <2>3. running' = h /\ ready' = rest /\ state' = [st EXCEPT ![h] = "RUNNING"]
    BY <2>2 DEF ConnorDispatch, h, rest
  <2>4. h \notin Range(b) /\ h \notin Range(k)
    BY <1>1, <2>1 DEF Homes
  <2>5. Homes(rest, b, k, h)
    BY <1>1, <2>1, <2>2, <2>4 DEF Homes
  <2>6. Fits(rest, b, k, h, state')
    <3>1. state' \in [PCB -> ProcessState] /\ state'[h] = "RUNNING"
      BY <1>1, <2>2, <2>3 DEF Fits, ProcessState
    <3>2. \A p \in PCB : p # h => state'[p] = st[p]
      BY <1>1, <2>3 DEF Fits
    <3>3. Range(b) \subseteq PCB /\ Range(k) \subseteq PCB
      BY <1>1, LenProperties DEF Homes, Range
    <3> QED
      BY <1>1, <1>2, <2>1, <2>4, <3>1, <3>2, <3>3 DEF Fits
  <2> QED
    BY <2>3, <2>5, <2>6 DEF InOrder
<1> QED
  BY <1>3, <1>4

(* While the order holds, the running process is in no queue and only PCBs *)
(* are.                                                                    *)
LEMMA OrderIsOfPCBs ==
  ASSUME NEW q, NEW b, NEW k, NEW r, NEW st, InOrder(q, b, k, r, st)
  PROVE  /\ Sound(q, PCB)
         /\ b \in Seq(PCB) /\ IsInjective(b)
         /\ k \in Seq(PCB) /\ IsInjective(k)
         /\ Members(q) \subseteq PCB /\ Range(b) \subseteq PCB /\ Range(k) \subseteq PCB
         /\ NULL \notin Members(q) \cup Range(b) \cup Range(k)
         /\ r \notin Members(q) \cup Range(b) \cup Range(k)
         /\ Homes(q, b, k, NULL)
         /\ Fits(q, b, k, NULL, st)
<1>1. Homes(q, b, k, r) /\ Fits(q, b, k, r, st)
  BY DEF InOrder
<1>2. /\ Members(q) \subseteq PCB /\ Range(b) \subseteq PCB /\ Range(k) \subseteq PCB
      /\ NULL \notin Members(q) \cup Range(b) \cup Range(k)
  BY <1>1, OnlyPCBs DEF Homes
<1> QED
  BY <1>1, <1>2 DEF Homes, Fits

(* A process in no queue can be given the state the MLFQ wants and be put  *)
(* on it.                                                                  *)
LEMMA EnqueueOrder ==
  ASSUME NEW q, NEW b, NEW k, NEW st, InOrder(q, b, k, NULL, st),
         NEW p \in PCB, p \notin Members(q) \cup Range(b) \cup Range(k),
         NEW l \in Level, NEW new \in [PCB -> ProcessState],
         new[p] \in {"READY", "WAIT"}, \A x \in PCB : x # p => new[x] = st[x]
  PROVE  InOrder(pq_enqueue(q, l, p), b, k, NULL, new) /\ ~ pq_is_empty(pq_enqueue(q, l, p))
<1> DEFINE e == pq_enqueue(q, l, p)
<1>1. /\ Homes(q, b, k, NULL) /\ Fits(q, b, k, NULL, st)
      /\ Members(q) \subseteq PCB /\ Range(b) \subseteq PCB /\ Range(k) \subseteq PCB
  BY OrderIsOfPCBs
<1>2. Sound(e, PCB) /\ Members(e) = Members(q) \cup {p} /\ ~ pq_is_empty(e)
  BY <1>1, EnqueueSound DEF Homes
<1> HIDE DEF e
<1>3. Homes(e, b, k, NULL)
  BY <1>1, <1>2, ConstantsFact DEF Homes
<1>4. Fits(e, b, k, NULL, new)
  BY <1>1, <1>2 DEF Fits
<1> QED
  BY <1>2, <1>3, <1>4 DEF InOrder, e

-----------------------------------------------------------------------------
(* The order of the scheduler, before and after a step.                    *)
Ordered == InOrder(ready, blocked, killed, running, state)

(* A timer interrupt keeps the order.                                      *)
LEMMA TimerOrder ==
  ASSUME ConnorInv, Ordered, ConnorTimerInterrupt
  PROVE  Ordered'
<1> DEFINE l == Demoted(priority[running])
           q == pq_enqueue(ready, l, running)
           st == [state EXCEPT ![running] = "READY"]
<1>1. running # NULL
  BY DEF ConnorInv, ConnorDerefSafe, ConnorTimerInterrupt
<1>2. running \in PCB /\ Interrupted = running
  BY <1>1, ConnorInterrupted
<1>3. ReapKilled(killed) /\ ConnorDispatch(q, st, running) /\ blocked' = blocked
  BY <1>2 DEF ConnorTimerInterrupt
<1>4. l \in Level
  BY <1>2, ConstantsFact DEF ConnorInv, ConnorTypeOK
<1> HIDE DEF l
<1>5. /\ st \in [PCB -> ProcessState] /\ st[running] = "READY"
      /\ \A p \in PCB : p # running => st[p] = state[p]
  BY <1>2 DEF ConnorInv, ConnorFields, ProcessState
<1> HIDE DEF st
<1>6. /\ running \notin Members(ready) \cup Range(blocked) \cup Range(killed)
      /\ InOrder(ready, blocked, killed, NULL, state)
  BY OrderIsOfPCBs DEF Ordered, InOrder
<1>7. InOrder(q, blocked, killed, NULL, st) /\ ~ pq_is_empty(q)
  BY <1>2, <1>4, <1>5, <1>6, EnqueueOrder
<1> HIDE DEF q
<1>8. InOrder(q, blocked, killed', NULL, st)
  BY <1>3, <1>7, ReapOrder
<1> QED
  BY <1>3, <1>7, <1>8, ConnorDispatchOrder DEF Ordered

(* An I/O trap keeps the order, if the MLFQ has another process to run.    *)
LEMMA TrapOrder ==
  ASSUME ConnorInv, Ordered, ConnorTrap, ~ pq_is_empty(ready)
  PROVE  Ordered'
<1> DEFINE b == Append(blocked, running)
           st == [state EXCEPT ![running] = "WAIT"]
<1>1. running # NULL
  BY DEF ConnorInv, ConnorDerefSafe, ConnorTrap
<1>2. running \in PCB
  BY <1>1, ConnorInterrupted
<1>3. ReapKilled(killed) /\ ConnorDispatch(ready, st, running) /\ blocked' = b
  BY DEF ConnorTrap, q_enqueue
<1>4. /\ st \in [PCB -> ProcessState] /\ st[running] = "WAIT"
      /\ \A p \in PCB : p # running => st[p] = state[p]
  BY <1>2 DEF ConnorInv, ConnorFields, ProcessState
<1> HIDE DEF st
<1>5. /\ blocked \in Seq(PCB) /\ IsInjective(blocked)
      /\ Members(ready) \subseteq PCB /\ Range(blocked) \subseteq PCB /\ Range(killed) \subseteq PCB
      /\ running \notin Members(ready) \cup Range(blocked) \cup Range(killed)
      /\ Homes(ready, blocked, killed, NULL) /\ Fits(ready, blocked, killed, NULL, state)
  BY OrderIsOfPCBs DEF Ordered
<1>6. b \in Seq(PCB) /\ Range(b) = Range(blocked) \cup {running} /\ IsInjective(b)
  BY <1>2, <1>5, AppendRange
<1> HIDE DEF b
<1>7. Homes(ready, b, killed, NULL)
  BY <1>1, <1>5, <1>6 DEF Homes
<1>8. Fits(ready, b, killed, NULL, st)
  BY <1>4, <1>5, <1>6 DEF Fits
<1>9. InOrder(ready, b, killed', NULL, st)
  BY <1>3, <1>7, <1>8, ReapOrder DEF InOrder
<1> QED
  BY <1>3, <1>9, ConnorDispatchOrder DEF Ordered

(* A wake-up keeps the order.                                              *)
LEMMA IoOrder ==
  ASSUME ConnorInv, Ordered, ConnorIoInterrupt
  PROVE  Ordered'
<1> DEFINE h == Head(blocked)
           b == Tail(blocked)
           q == pq_enqueue(ready, priority[h], h)
<1>1. running # NULL
  BY DEF ConnorInv, ConnorDerefSafe, ConnorIoInterrupt
<1>2. running \in PCB /\ Interrupted = running
  BY <1>1, ConnorInterrupted
<1>3. /\ ReapKilled(killed) /\ blocked # << >>
      /\ ready' = q /\ blocked' = b /\ running' = running
      /\ state' = [state EXCEPT ![running] = "RUNNING"]
  BY <1>2 DEF ConnorIoInterrupt
<1>4. /\ blocked \in Seq(PCB) /\ IsInjective(blocked)
      /\ Members(ready) \subseteq PCB /\ Range(blocked) \subseteq PCB /\ Range(killed) \subseteq PCB
      /\ running \notin Members(ready) \cup Range(blocked) \cup Range(killed)
      /\ Homes(ready, blocked, killed, NULL) /\ Fits(ready, blocked, killed, NULL, state)
  BY OrderIsOfPCBs DEF Ordered
<1>5. /\ h \in Range(blocked) /\ b \in Seq(PCB) /\ IsInjective(b)
      /\ Range(b) = Range(blocked) \ {h}
  BY <1>3, <1>4, TailRange
<1> HIDE DEF h, b
<1>6. /\ h \in PCB /\ h # running
      /\ h \notin Members(ready) \cup Range(b) \cup Range(killed)
      /\ state[h] = "WAIT" /\ state \in [PCB -> ProcessState]
  BY <1>4, <1>5 DEF Homes, Fits
<1>7. InOrder(ready, b, killed, NULL, state)
  BY <1>4, <1>5 DEF InOrder, Homes, Fits
<1>8. priority[h] \in Level
  BY <1>6 DEF ConnorInv, ConnorTypeOK
<1>9. InOrder(q, b, killed, NULL, state) /\ Sound(q, PCB) /\ Members(q) = Members(ready) \cup {h}
  BY <1>4, <1>6, <1>7, <1>8, EnqueueOrder, EnqueueSound DEF Homes
<1> HIDE DEF q
<1>10. state' = state
  <2>1. state[running] = "RUNNING"
    BY <1>1 DEF Ordered, InOrder, Fits
  <2> QED
    BY <1>2, <1>3, <1>6, <2>1
<1>11. InOrder(q, b, killed, running, state)
  BY <1>2, <1>4, <1>5, <1>6, <1>9 DEF Ordered, InOrder, Homes, Fits
<1> QED
  BY <1>3, <1>10, <1>11, ReapOrder DEF Ordered

(* A termination keeps the order.                                          *)
LEMMA TerminateOrder ==
  ASSUME ConnorInv, Ordered, ConnorTerminate
  PROVE  Ordered'
<1> DEFINE k == Append(killed, running)
           st == [state EXCEPT ![running] = "HALT"]
<1>1. /\ running # NULL /\ ReapKilled(k) /\ ConnorDispatch(ready, st, NULL)
      /\ blocked' = blocked
  BY DEF ConnorTerminate, q_enqueue
<1>2. running \in PCB
  BY <1>1, ConnorInterrupted
<1>3. /\ st \in [PCB -> ProcessState] /\ st[running] = "HALT"
      /\ \A p \in PCB : p # running => st[p] = state[p]
  BY <1>2 DEF ConnorInv, ConnorFields, ProcessState
<1> HIDE DEF st
<1>4. /\ killed \in Seq(PCB) /\ IsInjective(killed)
      /\ Members(ready) \subseteq PCB /\ Range(blocked) \subseteq PCB /\ Range(killed) \subseteq PCB
      /\ running \notin Members(ready) \cup Range(blocked) \cup Range(killed)
      /\ Homes(ready, blocked, killed, NULL) /\ Fits(ready, blocked, killed, NULL, state)
  BY OrderIsOfPCBs DEF Ordered
<1>5. k \in Seq(PCB) /\ Range(k) = Range(killed) \cup {running} /\ IsInjective(k)
  BY <1>2, <1>4, AppendRange
<1> HIDE DEF k
<1>6. Homes(ready, blocked, k, NULL)
  BY <1>1, <1>4, <1>5 DEF Homes
<1>7. Fits(ready, blocked, k, NULL, st)
  BY <1>3, <1>4, <1>5 DEF Fits
<1>8. InOrder(ready, blocked, killed', NULL, st)
  BY <1>1, <1>6, <1>7, ReapOrder DEF InOrder
<1> QED
  BY <1>1, <1>8, ConnorDispatchOrder DEF Ordered

(* A reset moves PCBs within the MLFQ.                                     *)
LEMMA ResetOrder ==
  ASSUME ConnorInv, Ordered, ResetLevel
  PROVE  Ordered'
<1>1. /\ ready' = [ready EXCEPT ![0] = @ \o ready[level], ![level] = << >>]
      /\ blocked' = blocked /\ killed' = killed /\ running' = running /\ state' = state
  BY DEF ResetLevel
<1>2. level \in Level /\ level # 0
  BY MLFQAssumption DEF ResetLevel, ResetDone, ConnorInv, ConnorFields, Level
<1>3. Sound(ready, PCB)
  BY DEF Ordered, InOrder, Homes
<1>4. Sound(ready', PCB) /\ Members(ready') = Members(ready)
  BY <1>1, <1>2, <1>3, MoveLevelSound
<1> QED
  BY <1>1, <1>4 DEF Ordered, InOrder, Homes, Fits

(* The processes in the places of the order are created ones.              *)
LEMMA PlacesAreCreated ==
  ConnorInv => InPlaces(ready, blocked, killed, running) \subseteq Created
<1> SUFFICES ASSUME ConnorInv PROVE InPlaces(ready, blocked, killed, running) \subseteq Created
  OBVIOUS
<1>1. \A t \in Seq(Created) : Range(t) \subseteq Created
  BY LenProperties DEF Range
<1>2. Members(ready) \subseteq Created
  BY <1>1, InMembers DEF ConnorInv, Started
<1> QED
  BY <1>1, <1>2 DEF ConnorInv, Started, InPlaces

(* A round keeps the order.                                                *)
LEMMA RoundOrder ==
  ASSUME ConnorInv, Ordered, SomeRound, at \in {"boot", "spawn"}
  PROVE  Ordered'
<1>1. PICK n \in 0 .. MAX_PCB_IN_ROUND - 1 :
        \E img \in [1 .. n -> Image] : makePCBList(n, img)
  BY DEF SomeRound
<1>2. PICK img \in [1 .. n -> Image] : makePCBList(n, img)
  BY <1>1
<1> DEFINE new == totalProcesses .. totalProcesses + n - 1
           s == [i \in 1 .. n |-> totalProcesses + i - 1]
           q == [ready EXCEPT ![0] = @ \o s]
           st == [p \in PCB |-> IF p \in new THEN "READY" ELSE state[p]]
<1>3. /\ \/ /\ n > 0 /\ isNew
            /\ running' = pq_peek(q)
            /\ ready' = pq_dequeue(q)
            /\ state' = [st EXCEPT ![pq_peek(q)] = "RUNNING"]
         \/ /\ ready' = q
            /\ state' = st
            /\ UNCHANGED << running, isNew, currQuantumSize >>
      /\ UNCHANGED << blocked, killed, interrupted, priority, pc, term_count,
                      blocked_timer, freed, sysstack, tickVars, resetVars >>
  BY <1>2 DEF makePCBList
<1>4. /\ n \in Nat /\ totalProcesses \in Nat
      /\ new \subseteq PCB
      /\ new \cap Created = {}
      /\ n > 0 => totalProcesses \in new
  BY <1>1, SchedulerAssumption DEF ConnorInv, RoomForRound, PCB, Created
<1>5. s \in Seq(PCB) /\ IsInjective(s) /\ Range(s) = new
  BY <1>4, PidsInOrder
<1>6. /\ new \cap Members(ready) = {}
      /\ \A p \in Range(blocked) \cup Range(killed) \cup ({running} \ {NULL}) : p \notin new
  <2> HIDE DEF new
  <2> QED
    BY <1>4, PlacesAreCreated DEF InPlaces
<1>7. Sound(ready, PCB)
  BY DEF Ordered, InOrder, Homes
<1> HIDE DEF s
<1>8. Sound(q, PCB) /\ Members(q) = Members(ready) \cup new
  <2> HIDE DEF new
  <2>1. q = WithRound(ready, s)
    BY DEF WithRound
  <2> HIDE DEF q
  <2>2. Range(s) \cap Members(ready) = {}
    BY <1>5, <1>6
  <2>3. Sound(q, PCB) /\ Members(q) = Members(ready) \cup Range(s)
    BY <1>5, <1>7, <2>1, <2>2, AppendRoundSound
  <2> QED
    BY <1>5, <2>3
<1> HIDE DEF q
<1>9. /\ Members(q) \subseteq PCB /\ Range(blocked) \subseteq PCB /\ Range(killed) \subseteq PCB
      /\ NULL \notin Members(q) \cup Range(blocked) \cup Range(killed)
  BY <1>8, OnlyPCBs DEF Ordered, InOrder, Homes
<1>10. /\ st \in [PCB -> ProcessState]
       /\ \A p \in PCB : st[p] = IF p \in new THEN "READY" ELSE state[p]
  BY DEF ConnorInv, ConnorFields, ProcessState
<1> HIDE DEF st, new
<1>11. Homes(q, blocked, killed, running) /\ Homes(q, blocked, killed, NULL)
  BY <1>4, <1>6, <1>8, <1>9, ConstantsFact DEF Ordered, InOrder, Homes
<1>12. Fits(q, blocked, killed, running, st)
  BY <1>6, <1>8, <1>9, <1>10, <1>11 DEF Ordered, InOrder, Homes, Fits
<1>13. CASE n > 0 /\ isNew /\ running' = pq_peek(q) /\ ready' = pq_dequeue(q)
            /\ state' = [st EXCEPT ![pq_peek(q)] = "RUNNING"]
  <2>1. Members(q) # {}
    BY <1>4, <1>8, <1>13
  <2>2. /\ running' \in Members(q)
        /\ Sound(ready', PCB)
        /\ Members(ready') = Members(q) \ {running'}
    BY <1>8, <1>13, <2>1, MembersSubset, DequeueSound
  <2>3. running' \in PCB /\ running' \notin Range(blocked) \cup Range(killed)
    BY <1>9, <1>11, <2>2 DEF Homes
  <2>4. Homes(ready', blocked, killed, running')
    BY <1>11, <2>2, <2>3 DEF Homes
  <2>5. /\ state' \in [PCB -> ProcessState]
        /\ \A p \in PCB : state'[p] = IF p = running' THEN "RUNNING" ELSE st[p]
    BY <1>10, <1>13, <2>3 DEF ProcessState
  <2>6. Fits(ready', blocked, killed, running', state')
    BY <1>9, <1>12, <2>2, <2>3, <2>5 DEF Fits
  <2> QED
    BY <1>3, <2>4, <2>6 DEF Ordered, InOrder
<1>14. CASE ready' = q /\ state' = st /\ UNCHANGED << running, isNew, currQuantumSize >>
  BY <1>3, <1>11, <1>12, <1>14 DEF Ordered, InOrder
<1> QED
  BY <1>3, <1>13, <1>14

(* The only step that ends the order is a trap with an empty MLFQ.         *)
LEMMA OrderEnds ==
  ASSUME ConnorInv, Ordered, [ConnorNext]_vars
  PROVE  Ordered' \/ (at = "trap" /\ pq_is_empty(ready) /\ running' = running)
<1>1. CASE UNCHANGED vars \/ ConnorQuiet
  <2>1. UNCHANGED << queueVars, running, state >>
    BY <1>1, QuietConnor DEF vars, pcbVars
  <2> QED
    BY <2>1 DEF queueVars, Ordered, InOrder, Homes, Fits
<1>2. CASE ConnorTrap /\ pq_is_empty(ready)
  BY <1>2 DEF ConnorTrap, ConnorDispatch, pq_peek
<1>3. CASE ConnorTrap /\ ~ pq_is_empty(ready)
  BY <1>3, TrapOrder
<1>4. CASE ConnorTimerInterrupt \/ ConnorIoInterrupt \/ ConnorTerminate \/ ResetLevel
  BY <1>4, TimerOrder, IoOrder, TerminateOrder, ResetOrder
<1>5. CASE Boot \/ Spawn
  BY <1>5, RoundOrder DEF Boot, Spawn
<1> QED
  BY <1>1, <1>2, <1>3, <1>4, <1>5, ConnorSteps

(* A process first gets a second place, or a state that contradicts its    *)
(* place, when it traps while the MLFQ is empty.                           *)
THEOREM FirstCopyAlways == ConnorSpec => FirstCopy
<1>1. ConnorInv /\ [ConnorNext]_vars =>
        [Clean /\ ~Clean' => at = "trap" /\ pq_is_empty(ready) /\ running' = running]_vars
  <2> SUFFICES ASSUME ConnorInv, [ConnorNext]_vars, Clean, ~Clean'
               PROVE  at = "trap" /\ pq_is_empty(ready) /\ running' = running
    OBVIOUS
  <2>1. Ordered
    BY CleanIsOrder DEF Ordered
  <2>2. ~Ordered'
    BY CleanIsOrder DEF Ordered
  <2> QED
    BY <2>1, <2>2, OrderEnds
<1> QED
  BY <1>1, ConnorInvariant, PTL DEF ConnorSpec, FirstCopy

-----------------------------------------------------------------------------
(* A termination that finds every process in one place releases none that  *)
(* is in use.                                                              *)
LEMMA OrderlyRelease ==
  ASSUME ConnorInv, Ordered, ConnorTerminate
  PROVE  at' = "reset?"
<1> DEFINE k == Append(killed, running)
<1>1. /\ running \in PCB
      /\ at' = IF ReleasesInUse(k) THEN "undefined" ELSE "reset?"
  BY ConnorInterrupted DEF ConnorTerminate, q_enqueue
<1>2. /\ killed \in Seq(PCB) /\ IsInjective(killed)
      /\ running \notin Members(ready) \cup Range(blocked) \cup Range(killed)
      /\ Homes(ready, blocked, killed, NULL)
  BY OrderIsOfPCBs DEF Ordered
<1>3. k \in Seq(PCB) /\ Range(k) = Range(killed) \cup {running} /\ IsInjective(k)
  BY <1>1, <1>2, AppendRange
<1>4. Range(k) \cap (Members(ready) \cup Range(blocked)) = {}
  BY <1>2, <1>3 DEF Homes
<1> HIDE DEF k
<1>5. Len(k) \in Nat /\ DOMAIN k = 1 .. Len(k)
  BY <1>3, LenProperties
<1>6. \A i \in 1 .. Len(k) - 2 : i \in DOMAIN k
  BY <1>5
<1>7. Released(k) \subseteq Range(k)
  BY <1>6 DEF Released, Range
<1>8. ~ReleasesInUse(k)
  BY <1>3, <1>4, <1>6, <1>7 DEF ReleasesInUse, IsInjective
<1> QED
  BY <1>1, <1>8 DEF k

(* As long as every process is in one place and in a fitting state, the    *)
(* killed queue releases no PCB that another queue holds, and none twice:  *)
(* the undefined behaviour too comes from the trap of FirstCopy alone.     *)
THEOREM UndefinedNeedsCopy ==
  ConnorSpec => [][Clean /\ at # "undefined" => at' # "undefined"]_vars
<1>1. ConnorInv /\ [ConnorNext]_vars => [Clean /\ at # "undefined" => at' # "undefined"]_vars
  <2> SUFFICES ASSUME ConnorInv, ConnorNext, Clean, at # "undefined"
               PROVE  at' # "undefined"
    OBVIOUS
  <2>1. CASE ConnorTerminate
    BY <2>1, CleanIsOrder, OrderlyRelease DEF Ordered
  <2>2. CASE ConnorTimerInterrupt \/ ConnorTrap \/ ConnorIoInterrupt \/ ConnorWrap
    BY <2>2 DEF ConnorTimerInterrupt, ConnorTrap, ConnorIoInterrupt, ConnorWrap, GoTo
  <2>3. CASE \/ RunInstruction \/ LoopIdle \/ ConnorTimerTick \/ ConnorNoTrap \/ ConnorIoTick
             \/ ConnorNoTermination \/ ConnorResetTest \/ ConnorResetMLFQ \/ ConnorRound
             \/ EndOfPass \/ Ended \/ Over
    BY <2>3 DEF RunInstruction, LoopIdle, ConnorTimerTick, TimerTick, ConnorNoTrap, LoopNoTrap,
      ConnorIoTick, LoopIoTick, ConnorNoTermination, NoTermination, ConnorResetTest, NoReset,
      BeginReset, ConnorResetMLFQ, ResetLevel, FinishReset, ConnorRound, Boot, Spawn, NoSpawn,
      EndOfPass, Ended, Over, vars
  <2> QED
    BY <2>1, <2>2, <2>3 DEF ConnorNext
<1> QED
  BY <1>1, ConnorInvariant, PTL DEF ConnorSpec
=============================================================================
