---------------------------- MODULE LevelProofs ----------------------------
(***************************************************************************)
(* The levels of the MLFQ, the priority fields of the PCBs and the global  *)
(* currQuantumSize agree, and the counters of the scheduler stay in step   *)
(* with what they count, for every number of levels and processes.         *)
(***************************************************************************)
EXTENDS SchedulerProofs

(* The PCBs of the MLFQ q wait on the levels the priorities pr name.       *)
OnLevels(q, pr) == \A l \in Level : \A p \in Range(q[l]) : pr[p] = l

(* What is inductive together with IInv: PCBs are created on level 0.      *)
LevelInv ==
  /\ OnLevels(ready, priority)
  /\ QuantumFitsRunning
  /\ \A p \in PCB \ Created : priority[p] = 0

(* The process on the CPU leaves none waiting on a more urgent level.      *)
NoneMoreUrgent(q, pr, r) == r # NULL => \A l \in Level : l < pr[r] => q[l] = << >>

-----------------------------------------------------------------------------
(* The dispatcher takes the process and the quantum of the most urgent     *)
(* level that holds one.                                                   *)
LEMMA DispatchLevels ==
  ASSUME NEW q, NEW st, NEW intr, NEW pr,
         Sound(q, PCB), \A p \in Members(q) : st[p] # "HALT",
         OnLevels(q, pr), Dispatch(q, st, intr)
  PROVE  /\ OnLevels(ready', pr)
         /\ running' # NULL => currQuantumSize' = QuantumSize(pr[running'])
         /\ NoneMoreUrgent(ready', pr, running')
<1>1. CASE pq_is_empty(q)
  BY <1>1 DEF Dispatch, pq_peek, NoneMoreUrgent
<1>2. CASE ~ pq_is_empty(q)
  <2> DEFINE h == pq_peek(q)
             t == TopLevel(q)
             r == pq_dequeue(q)
  <2>1. /\ h \in Members(q) /\ t \in Level /\ h \in Range(q[t])
        /\ \A m \in Level : Range(r[m]) = Range(q[m]) \ {h}
    BY <1>2, DequeueSound
  <2>2. h # NULL
    BY <2>1, MembersSubset, ConstantsFact
  <2>3. getNextQuantumSize(q) = QuantumSize(t)
    BY <1>2 DEF getNextQuantumSize
  <2>5. \A m \in Level : m < t => r[m] = << >>
    <3>1. q \in [Level -> Seq(PCB)]
      BY DEF Sound
    <3>2. /\ r = [q EXCEPT ![t] = Tail(@)]
          /\ \A m \in Level : m < t => q[m] = << >>
      BY <1>2, TopLevelIsFirst DEF pq_dequeue
    <3> HIDE DEF t, r
    <3> QED
      BY <2>1, <3>1, <3>2, ConstantsFact
  <2> HIDE DEF h, t, r
  <2>4. running' = h /\ ready' = r /\ currQuantumSize' = QuantumSize(t)
    BY <2>1, <2>2, <2>3 DEF Dispatch, h, r
  <2> QED
    BY <2>1, <2>4, <2>5 DEF OnLevels, NoneMoreUrgent
<1> QED
  BY <1>1, <1>2

(* The states of the queued processes, and none is the running one.        *)
LEMMA QueuedStates ==
  ASSUME IInv
  PROVE  /\ Sound(ready, PCB)
         /\ Members(ready) \subseteq PCB
         /\ \A p \in Members(ready) : state[p] # "HALT" /\ p # running
         /\ \A p \in PCB \ Created : p \notin Members(ready) /\ p # running
<1>1. Sound(ready, PCB)
  BY DEF IInv, Places, Homes
<1>2. Members(ready) \subseteq PCB
  BY <1>1, MembersSubset
<1> QED
  BY <1>1, <1>2, ConstantsFact DEF IInv, Places, Homes, Fits, InPlaces

(* An enqueued PCB is on its level, and the other levels are what they were. *)
LEMMA EnqueueRanges ==
  ASSUME NEW q, Sound(q, PCB), NEW l \in Level, NEW p \in PCB, p \notin Members(q)
  PROVE  /\ Sound(pq_enqueue(q, l, p), PCB)
         /\ Members(pq_enqueue(q, l, p)) = Members(q) \cup {p}
         /\ Range(pq_enqueue(q, l, p)[l]) = Range(q[l]) \cup {p}
         /\ \A m \in Level \ {l} : Range(pq_enqueue(q, l, p)[m]) = Range(q[m])
<1>1. /\ Sound(pq_enqueue(q, l, p), PCB)
      /\ Members(pq_enqueue(q, l, p)) = Members(q) \cup {p}
  BY EnqueueSound
<1>2. \A m \in Level : Range(pq_enqueue(q, l, p)[m]) =
                          IF m = l THEN Range(q[m]) \cup {p} ELSE Range(q[m])
  BY EnqueueSound
<1>3. Range(pq_enqueue(q, l, p)[l]) = Range(q[l]) \cup {p}
  BY <1>2
<1>4. ASSUME NEW m \in Level \ {l} PROVE Range(pq_enqueue(q, l, p)[m]) = Range(q[m])
  BY <1>2
<1> QED
  BY <1>1, <1>3, <1>4

-----------------------------------------------------------------------------
(* Before the first round the MLFQ is empty and no process runs.           *)
LEMMA LevelInit == Init => LevelInv
<1>1. Range(<< >>) = {}
  BY DEF Range
<1> QED
  BY <1>1 DEF Init, LevelInv, OnLevels, pq_create, QuantumFitsRunning

(* The steps that touch neither the MLFQ nor the priorities.               *)
LEMMA LevelQuiet ==
  ASSUME IInv, LevelInv,
         \/ RunInstruction \/ Idle \/ TimerTick \/ NoTrap \/ WrapPC \/ NoWrap
         \/ IoTick \/ NoTermination \/ NoReset \/ BeginReset \/ FinishReset
         \/ NoSpawn \/ EndOfPass \/ Ended \/ UNCHANGED vars
  PROVE  LevelInv'
<1>1. UNCHANGED << ready, running, priority, currQuantumSize, totalProcesses >>
  BY DEF RunInstruction, Idle, TimerTick, NoTrap, WrapPC, NoWrap, RestartProgram,
         IoTick, NoIoInterrupt, NoTermination, NoReset, BeginReset, FinishReset,
         NoSpawn, EndOfPass, Ended, vars, queueVars, pcbVars
<1> QED
  BY <1>1 DEF LevelInv, OnLevels, QuantumFitsRunning, Created

(* A demoted process enters the level its new priority names.              *)
LEMMA LevelTimer ==
  ASSUME IInv, LevelInv, TimerInterrupt
  PROVE  LevelInv' /\ NoneMoreUrgent(ready', priority', running')
<1> DEFINE l == Demoted(priority[running])
           q == pq_enqueue(ready, l, running)
           st == [state EXCEPT ![running] = "READY"]
<1>1. running # NULL
  BY DEF IInv, DerefSafe, TimerInterrupt
<1>2. /\ running \in PCB
      /\ Interrupted = running
      /\ running \in Created
      /\ running \notin Members(ready)
  BY <1>1, RunningIsInterrupted
<1>3. /\ priority' = [priority EXCEPT ![running] = l]
      /\ Dispatch(q, st, running)
      /\ totalProcesses' = totalProcesses
  BY <1>2 DEF TimerInterrupt
<1>4. l \in Level
  BY <1>2, ConstantsFact DEF IInv, TypeOK
<1>5. /\ Sound(q, PCB)
      /\ Members(q) = Members(ready) \cup {running}
      /\ Range(q[l]) = Range(ready[l]) \cup {running}
      /\ \A m \in Level \ {l} : Range(q[m]) = Range(ready[m])
  <2>1. Sound(ready, PCB)
    BY DEF IInv, Places, Homes
  <2> HIDE DEF l
  <2> QED
    BY <1>2, <1>4, <2>1, EnqueueRanges
<1>6. \A p \in PCB : st[p] = IF p = running THEN "READY" ELSE state[p]
  BY <1>2 DEF IInv, TypeOK
<1>7. \A p \in PCB : priority'[p] = IF p = running THEN l ELSE priority[p]
  BY <1>2, <1>3 DEF IInv, TypeOK
<1> HIDE DEF q, l, st
<1>8. \A p \in Members(q) : st[p] # "HALT"
  BY <1>2, <1>5, <1>6, QueuedStates
<1>9. OnLevels(q, priority')
  <2>1. ASSUME NEW m \in Level, NEW p \in Range(q[m]) PROVE priority'[p] = m
    <3>1. CASE p = running
      <4>1. m = l
        BY <3>1, <1>2, <1>5, <2>1, InMembers
      <4> QED
        BY <3>1, <4>1, <1>2, <1>7
    <3>2. CASE p # running
      <4>1. p \in Range(ready[m])
        <5>1. CASE m = l
          BY <5>1, <3>2, <1>5, <2>1
        <5>2. CASE m # l
          BY <5>2, <1>5, <2>1
        <5> QED
          BY <5>1, <5>2
      <4>2. p \in PCB
        BY <4>1, QueuedStates, InMembers
      <4> QED
        BY <3>2, <4>1, <4>2, <1>7 DEF LevelInv, OnLevels
    <3> QED
      BY <3>1, <3>2
  <2> QED
    BY <2>1 DEF OnLevels
<1>10. /\ OnLevels(ready', priority')
       /\ running' # NULL => currQuantumSize' = QuantumSize(priority'[running'])
       /\ NoneMoreUrgent(ready', priority', running')
  <2>1. Sound(q, PCB) /\ Dispatch(q, st, running)
    BY <1>3, <1>5
  <2> QED
    BY <2>1, <1>8, <1>9, DispatchLevels
<1> QED
  BY <1>2, <1>3, <1>7, <1>10 DEF LevelInv, QuantumFitsRunning, Created

(* The trap handler, called for a trap in either loop.                     *)
TrapHandled == at = "trap" /\ IoTrapISR

(* A trap or a termination dispatches from the MLFQ as it is.              *)
LEMMA LevelTrapTerminate ==
  ASSUME IInv, LevelInv, TrapHandled \/ Terminate
  PROVE  LevelInv' /\ NoneMoreUrgent(ready', priority', running')
<1>1. PICK st, intr :
        /\ \A p \in Members(ready) : st[p] # "HALT"
        /\ Dispatch(ready, st, intr)
        /\ priority' = priority /\ totalProcesses' = totalProcesses
  <2>1. CASE TrapHandled
    <3>1. running # NULL
      BY <2>1 DEF IInv, DerefSafe, TrapHandled
    <3>2. Interrupted = running /\ running \in PCB
      BY <3>1, RunningIsInterrupted
    <3>3. \A p \in Members(ready) : [state EXCEPT ![running] = "WAIT"][p] # "HALT"
      BY <3>2, QueuedStates DEF IInv, TypeOK
    <3>4. /\ Dispatch(ready, [state EXCEPT ![running] = "WAIT"], NULL)
          /\ priority' = priority /\ totalProcesses' = totalProcesses
      BY <2>1, <3>2 DEF TrapHandled, IoTrapISR
    <3> QED
      BY <3>3, <3>4
  <2>2. CASE Terminate
    <3>1. \A p \in Members(ready) : [state EXCEPT ![running] = "HALT"][p] # "HALT"
      BY QueuedStates DEF IInv, TypeOK
    <3>2. /\ Dispatch(ready, [state EXCEPT ![running] = "HALT"], interrupted)
          /\ priority' = priority /\ totalProcesses' = totalProcesses
      BY <2>2 DEF Terminate
    <3> QED
      BY <3>1, <3>2
  <2> QED
    BY <2>1, <2>2
<1>2. /\ OnLevels(ready', priority)
      /\ running' # NULL => currQuantumSize' = QuantumSize(priority[running'])
      /\ NoneMoreUrgent(ready', priority, running')
  BY <1>1, QueuedStates, DispatchLevels DEF LevelInv
<1> QED
  BY <1>1, <1>2 DEF LevelInv, QuantumFitsRunning, Created

(* The process an I/O interrupt wakes enters the level its priority names. *)
LEMMA LevelIoInterrupt ==
  ASSUME IInv, LevelInv, IoInterruptISR
  PROVE  LevelInv' /\ running' = running
<1> DEFINE h == Head(blocked)
           q == pq_enqueue(ready, priority[h], h)
<1>1. /\ blocked # << >>
      /\ ready' = q
      /\ priority' = priority
      /\ currQuantumSize' = currQuantumSize
      /\ totalProcesses' = totalProcesses
  BY DEF IoInterruptISR
<1>2. running' = running
  <2>1. CASE running = NULL
    <3>1. Interrupted = NULL
      BY <2>1 DEF IInv, InterruptedIsTransient, Interrupted
    <3> QED
      BY <3>1 DEF IoInterruptISR
  <2>2. CASE running # NULL
    <3>1. Interrupted = running
      BY <2>2, RunningIsInterrupted
    <3> QED
      BY <2>2, <3>1 DEF IoInterruptISR
  <2> QED
    BY <2>1, <2>2
<1>3. h \in Range(blocked) /\ Range(blocked) \subseteq PCB
  BY <1>1, TailRange, OnlyPCBs DEF IInv, Places, Homes
<1>4. h \in PCB /\ h \notin Members(ready) /\ priority[h] \in Level
  BY <1>3 DEF IInv, Places, Homes, TypeOK
<1>5. /\ Range(q[priority[h]]) = Range(ready[priority[h]]) \cup {h}
      /\ \A m \in Level \ {priority[h]} : Range(q[m]) = Range(ready[m])
  <2> DEFINE pr == priority[h]
  <2>1. pr \in Level /\ h \in PCB /\ h \notin Members(ready) /\ Sound(ready, PCB)
    BY <1>4, QueuedStates
  <2> HIDE DEF h, pr
  <2>2. /\ Range(pq_enqueue(ready, pr, h)[pr]) = Range(ready[pr]) \cup {h}
        /\ \A m \in Level \ {pr} : Range(pq_enqueue(ready, pr, h)[m]) = Range(ready[m])
    BY <2>1, EnqueueRanges
  <2> QED
    BY <2>2 DEF pr
<1> HIDE DEF h, q
<1>6. OnLevels(q, priority)
  <2>1. ASSUME NEW m \in Level, NEW p \in Range(q[m]) PROVE priority[p] = m
    <3>1. p \in Range(ready[m]) \/ (p = h /\ m = priority[h])
      <4>1. CASE m = priority[h]
        BY <4>1, <1>5, <2>1
      <4>2. CASE m # priority[h]
        BY <4>2, <1>5, <2>1
      <4> QED
        BY <4>1, <4>2
    <3> QED
      BY <3>1 DEF LevelInv, OnLevels
  <2> QED
    BY <2>1 DEF OnLevels
<1> QED
  BY <1>1, <1>2, <1>6 DEF LevelInv, QuantumFitsRunning, Created

(* A reset moves the nodes of a level and the priorities of the PCBs on    *)
(* them to level 0; the running process is not among them.                 *)
LEMMA LevelReset == IInv /\ LevelInv /\ ResetLevel => LevelInv'
<1> SUFFICES ASSUME IInv, LevelInv, ResetLevel PROVE LevelInv'
  OBVIOUS
<1>1. level \in Level /\ level # 0
  BY MLFQAssumption DEF IInv, TypeOK, ResetLevel, ResetDone, Level
<1>2. /\ ready' = [ready EXCEPT ![0] = @ \o ready[level], ![level] = << >>]
      /\ priority' = MovedToTop(ready[level])
      /\ UNCHANGED << running, currQuantumSize, totalProcesses >>
  BY DEF ResetLevel
<1>3. \A m \in Level : Range(ready'[m]) = IF m = 0 THEN Range(ready[0]) \cup Range(ready[level])
                                          ELSE IF m = level THEN {} ELSE Range(ready[m])
  <2>1. /\ 0 \in Level
        /\ ready \in [Level -> Seq(PCB)]
    BY ConstantsFact DEF IInv, TypeOK
  <2>2. /\ ready'[0] = ready[0] \o ready[level]
        /\ ready'[level] = << >>
        /\ \A m \in Level \ {0, level} : ready'[m] = ready[m]
    BY <1>1, <1>2, <2>1
  <2>3. Range(ready[0] \o ready[level]) = Range(ready[0]) \cup Range(ready[level])
    BY <1>1, <2>1, ConcatRange
  <2>4. Range(<< >>) = {}
    BY DEF Range
  <2> QED
    BY <1>1, <2>2, <2>3, <2>4
<1>4. \A p \in PCB : priority'[p] = IF p \in Range(ready[level]) THEN 0 ELSE priority[p]
  BY <1>2 DEF MovedToTop
<1>5. \A m \in Level : Range(ready[m]) \subseteq PCB
  BY QueuedStates, InMembers
<1>6. OnLevels(ready', priority')
  <2>1. ASSUME NEW m \in Level, NEW p \in Range(ready'[m]) PROVE priority'[p] = m
    <3>1. CASE p \in Range(ready[level])
      <4>1. m = 0
        <5>1. CASE m = level
          BY <5>1, <1>1, <1>3, <2>1
        <5>2. CASE m # level /\ m # 0
          <6>1. p \in Range(ready[m])
            BY <5>2, <1>3, <2>1
          <6> QED
            BY <6>1, <5>2, <3>1, <1>1 DEF LevelInv, OnLevels
        <5> QED
          BY <5>1, <5>2
      <4> QED
        BY <3>1, <4>1, <1>1, <1>4, <1>5
    <3>2. CASE p \notin Range(ready[level])
      <4>1. p \in Range(ready[m])
        <5>1. CASE m = 0
          BY <5>1, <1>3, <2>1, <3>2
        <5>2. CASE m # 0
          <6>1. m # level
            BY <5>2, <1>1, <1>3, <2>1
          <6> QED
            BY <6>1, <5>2, <1>3, <2>1
        <5> QED
          BY <5>1, <5>2
      <4> QED
        BY <3>2, <4>1, <1>4, <1>5 DEF LevelInv, OnLevels
    <3> QED
      BY <3>1, <3>2
  <2> QED
    BY <2>1 DEF OnLevels
<1>7. QuantumFitsRunning'
  <2>1. running # NULL => running \in PCB /\ running \notin Range(ready[level])
    BY <1>1, RunningIsInterrupted, InMembers
  <2> QED
    BY <1>2, <1>4, <2>1 DEF LevelInv, QuantumFitsRunning
<1>8. \A p \in PCB \ Created : priority'[p] = 0
  BY <1>4 DEF LevelInv
<1> QED
  BY <1>2, <1>6, <1>7, <1>8 DEF LevelInv, Created

(* A round enters level 0 with priority 0.  The process it puts on the CPU *)
(* is the first of level 0, which is then not empty, so that the quantum   *)
(* of level 0 it is given is the one its priority names.                   *)
LEMMA LevelRound ==
  ASSUME IInv, LevelInv, at \notin {"end?", "ended"}, SomeRound
  PROVE  /\ LevelInv'
         /\ running' = running \/ NoneMoreUrgent(ready', priority', running')
<1>1. PICK n \in 0 .. MAX_PCB_IN_ROUND - 1 :
        \E img \in [1 .. n -> Image] : makePCBList(n, img)
  BY DEF SomeRound
<1>2. PICK img \in [1 .. n -> Image] : makePCBList(n, img)
  BY <1>1
<1> DEFINE new == totalProcesses .. totalProcesses + n - 1
           s == [i \in 1 .. n |-> totalProcesses + i - 1]
           q == [ready EXCEPT ![0] = @ \o s]
<1>3. /\ n \in Nat
      /\ totalProcesses \in Nat
      /\ new \subseteq PCB
      /\ new \cap Created = {}
      /\ 0 .. totalProcesses + n - 1 = Created \cup new
  BY SchedulerAssumption DEF IInv, RoomForRound, PCB, Created
<1>4. /\ totalProcesses' = totalProcesses + n
      /\ priority' = priority
      /\ \/ /\ n > 0
            /\ running' = pq_peek(q)
            /\ ready' = pq_dequeue(q)
            /\ currQuantumSize' = QuantumSize(0)
         \/ ready' = q /\ running' = running /\ currQuantumSize' = currQuantumSize
  BY <1>2 DEF makePCBList
<1>5. s \in Seq(PCB) /\ IsInjective(s) /\ Range(s) = new
  BY <1>3, PidsInOrder
<1>6. Created' = Created \cup new
  BY <1>3, <1>4 DEF Created
<1>7. /\ q[0] = ready[0] \o s
      /\ \A m \in Level \ {0} : q[m] = ready[m]
      /\ ready[0] \in Seq(PCB) /\ 0 \in Level
  BY ConstantsFact DEF IInv, TypeOK
<1>8. \A p \in new : priority[p] = 0
  BY <1>3 DEF LevelInv
<1>9. n > 0 => totalProcesses \in Range(s)
  BY <1>3, <1>5
<1> HIDE DEF new, s
<1>10. q = WithRound(ready, s)
  BY DEF WithRound
<1> HIDE DEF q
<1>11. Sound(q, PCB)
  <2>1. Range(s) \cap Members(ready) = {}
    BY <1>3, <1>5, QueuedStates
  <2> QED
    BY <1>5, <1>9, <1>10, <2>1, QueuedStates, AppendRoundSound
<1>12. Range(q[0]) = Range(ready[0]) \cup Range(s)
  BY <1>5, <1>7, ConcatRange
<1>13. OnLevels(q, priority)
  <2>1. ASSUME NEW m \in Level, NEW p \in Range(q[m]) PROVE priority[p] = m
    <3>1. CASE m # 0
      BY <3>1, <1>7, <2>1 DEF LevelInv, OnLevels
    <3>2. CASE m = 0
      BY <3>2, <1>5, <1>7, <1>8, <1>12, <2>1 DEF LevelInv, OnLevels
    <3> QED
      BY <3>1, <3>2
  <2> QED
    BY <2>1 DEF OnLevels
<1>14. ASSUME n > 0, running' = pq_peek(q), ready' = pq_dequeue(q),
              currQuantumSize' = QuantumSize(0)
       PROVE  /\ OnLevels(ready', priority)
              /\ currQuantumSize' = QuantumSize(priority[running'])
              /\ NoneMoreUrgent(ready', priority, running')
  <2>1. q[0] # << >>
    BY <1>9, <1>12, <1>14 DEF Range
  <2>2. ~ pq_is_empty(q)
    BY <2>1, <1>7 DEF pq_is_empty
  <2>3. TopLevel(q) = 0
    BY <2>1, <2>2, <1>7, TopLevelIsFirst DEF Level
  <2>4. /\ running' \in Range(q[0])
        /\ \A m \in Level : Range(ready'[m]) = Range(q[m]) \ {running'}
    BY <1>11, <1>14, <2>2, <2>3, DequeueSound
  <2>5. priority[running'] = 0
    BY <2>4, <1>7, <1>13 DEF OnLevels
  <2> QED
    BY <1>13, <1>14, <2>4, <2>5 DEF OnLevels, NoneMoreUrgent, Level
<1> QED
  BY <1>4, <1>6, <1>13, <1>14 DEF LevelInv, QuantumFitsRunning

-----------------------------------------------------------------------------
(* Levels, priorities and the quantum agree after every step.              *)
LEMMA LevelStep == IInv /\ LevelInv /\ [Next]_vars => LevelInv'
<1> SUFFICES ASSUME IInv, LevelInv, [Next]_vars PROVE LevelInv'
  OBVIOUS
<1>1. CASE \/ RunInstruction \/ Idle \/ TimerTick \/ NoTrap \/ WrapPC \/ NoWrap
           \/ IoTick \/ NoTermination \/ NoReset \/ BeginReset \/ FinishReset
           \/ NoSpawn \/ EndOfPass \/ Ended \/ UNCHANGED vars
  BY <1>1, LevelQuiet
<1>2. CASE TimerInterrupt
  BY <1>2, LevelTimer
<1>3. CASE IoTrap \/ Terminate
  BY <1>3, LevelTrapTerminate DEF IoTrap, TrapHandled
<1>4. CASE IoInterrupt
  BY <1>4, LevelIoInterrupt DEF IoInterrupt
<1>5. CASE ResetLevel
  BY <1>5, LevelReset
<1>6. CASE Boot \/ Spawn
  <2>1. at \notin {"end?", "ended"} /\ SomeRound
    BY <1>6 DEF Boot, Spawn
  <2> QED
    BY <2>1, LevelRound
<1> QED
  BY <1>1, <1>2, <1>3, <1>4, <1>5, <1>6 DEF Next

(* The strengthened invariant holds in every behaviour.                    *)
LEMMA LevelInvariant == Spec => []LevelInv
<1>1. Init => LevelInv
  BY LevelInit
<1>2. IInv /\ LevelInv /\ [Next]_vars => LevelInv'
  BY LevelStep
<1> QED
  BY <1>1, <1>2, Invariant, PTL DEF Spec

(* A PCB always waits on the level of the MLFQ its priority field names.   *)
THEOREM LevelIsPriorityAlways == Spec => []LevelIsPriority
<1>1. LevelInv => LevelIsPriority
  BY DEF LevelInv, OnLevels, LevelIsPriority
<1> QED
  BY <1>1, LevelInvariant, PTL

(* The quantum the timer counts to is always that of the running process's *)
(* priority.                                                               *)
THEOREM QuantumFitsRunningAlways == Spec => []QuantumFitsRunning
<1>1. LevelInv => QuantumFitsRunning
  BY DEF LevelInv
<1> QED
  BY <1>1, LevelInvariant, PTL

(* Only a dispatch or a round gives another process the CPU.               *)
LEMMA HighestStep ==
  IInv /\ LevelInv /\ [Next]_vars =>
    running' = running \/ NoneMoreUrgent(ready', priority', running')
<1> SUFFICES ASSUME IInv, LevelInv, [Next]_vars
             PROVE  running' = running \/ NoneMoreUrgent(ready', priority', running')
  OBVIOUS
<1>1. CASE \/ RunInstruction \/ Idle \/ TimerTick \/ NoTrap \/ WrapPC \/ NoWrap
           \/ IoTick \/ NoTermination \/ NoReset \/ BeginReset \/ FinishReset
           \/ ResetLevel \/ NoSpawn \/ EndOfPass \/ Ended \/ UNCHANGED vars
  BY <1>1
  DEF RunInstruction, Idle, TimerTick, NoTrap, WrapPC, NoWrap, RestartProgram, IoTick,
      NoIoInterrupt, NoTermination, NoReset, BeginReset, FinishReset, ResetLevel,
      NoSpawn, EndOfPass, Ended, vars
<1>2. CASE TimerInterrupt
  BY <1>2, LevelTimer
<1>3. CASE IoTrap \/ Terminate
  BY <1>3, LevelTrapTerminate DEF IoTrap, TrapHandled
<1>4. CASE IoInterrupt
  BY <1>4, LevelIoInterrupt DEF IoInterrupt
<1>5. CASE Boot \/ Spawn
  <2>1. at \notin {"end?", "ended"} /\ SomeRound
    BY <1>5 DEF Boot, Spawn
  <2> QED
    BY <2>1, LevelRound
<1> QED
  BY <1>1, <1>2, <1>3, <1>4, <1>5 DEF Next

(* A process that gets the CPU leaves none waiting on a more urgent level. *)
THEOREM HighestFirstAlways == Spec => HighestFirst
<1>1. IInv /\ LevelInv /\ [Next]_vars =>
        [running' \notin {running, NULL} =>
           \A l \in Level : l < priority'[running'] => ready'[l] = << >>]_vars
  BY HighestStep DEF NoneMoreUrgent
<1> QED
  BY <1>1, Invariant, LevelInvariant, PTL DEF Spec, HighestFirst

-----------------------------------------------------------------------------
(* Dropping the first element of a sequence changes no order.              *)
LEMMA AheadTail ==
  ASSUME NEW S, NEW s \in Seq(S), s # << >>, NEW r, NEW p, Ahead(Tail(s), r, p)
  PROVE  Ahead(s, r, p)
<1>1. /\ Len(s) \in Nat
      /\ DOMAIN s = 1 .. Len(s)
      /\ DOMAIN Tail(s) = 1 .. Len(s) - 1
      /\ \A k \in 1 .. Len(s) - 1 : Tail(s)[k] = s[k + 1]
  BY HeadTailProperties, LenProperties, EmptySeq
<1>2. PICK i, j \in DOMAIN Tail(s) : i < j /\ Tail(s)[i] = r /\ Tail(s)[j] = p
  BY DEF Ahead
<1>3. i + 1 \in DOMAIN s /\ j + 1 \in DOMAIN s /\ i + 1 < j + 1
  BY <1>1, <1>2
<1>4. s[i + 1] = r /\ s[j + 1] = p
  BY <1>1, <1>2
<1> QED
  BY <1>3, <1>4 DEF Ahead

(* In a concatenation the first sequence comes before the second.          *)
LEMMA AheadConcat ==
  ASSUME NEW S, NEW s \in Seq(S), NEW t \in Seq(S), NEW r, NEW p, Ahead(s \o t, r, p)
  PROVE  Ahead(s, r, p) \/ Ahead(t, r, p) \/ (r \in Range(s) /\ p \in Range(t))
<1> DEFINE c == s \o t
           n == Len(s)
<1>1. /\ n \in Nat /\ Len(t) \in Nat
      /\ DOMAIN s = 1 .. n
      /\ DOMAIN t = 1 .. Len(t)
      /\ DOMAIN c = 1 .. n + Len(t)
      /\ \A k \in DOMAIN c : c[k] = IF k <= n THEN s[k] ELSE t[k - n]
  BY ConcatProperties, LenProperties
<1>2. PICK i, j \in DOMAIN c : i < j /\ c[i] = r /\ c[j] = p
  BY DEF Ahead
<1> HIDE DEF c, n
<1>3. CASE j <= n
  <2>1. i \in DOMAIN s /\ j \in DOMAIN s /\ s[i] = r /\ s[j] = p
    BY <1>1, <1>2, <1>3
  <2> QED
    BY <1>2, <2>1 DEF Ahead
<1>4. CASE n < i
  <2>1. /\ i - n \in DOMAIN t /\ j - n \in DOMAIN t
        /\ t[i - n] = r /\ t[j - n] = p /\ i - n < j - n
    BY <1>1, <1>2, <1>4
  <2> QED
    BY <2>1 DEF Ahead
<1>5. CASE i <= n /\ n < j
  <2>1. i \in DOMAIN s /\ s[i] = r /\ j - n \in DOMAIN t /\ t[j - n] = p
    BY <1>1, <1>2, <1>5
  <2> QED
    BY <2>1 DEF Range
<1> QED
  BY <1>1, <1>2, <1>3, <1>4, <1>5

(* What is appended comes last.                                            *)
LEMMA AheadAppend ==
  ASSUME NEW S, NEW s \in Seq(S), NEW x \in S, NEW r, NEW p, p # x,
         Ahead(Append(s, x), r, p)
  PROVE  Ahead(s, r, p)
<1>1. /\ Len(s) \in Nat
      /\ DOMAIN s = 1 .. Len(s)
      /\ DOMAIN Append(s, x) = 1 .. Len(s) + 1
      /\ \A k \in 1 .. Len(s) : Append(s, x)[k] = s[k]
      /\ Append(s, x)[Len(s) + 1] = x
  BY AppendProperties, LenProperties
<1>2. PICK i, j \in DOMAIN Append(s, x) : i < j /\ Append(s, x)[i] = r /\ Append(s, x)[j] = p
  BY DEF Ahead
<1>3. i \in DOMAIN s /\ j \in DOMAIN s /\ s[i] = r /\ s[j] = p
  BY <1>1, <1>2
<1> QED
  BY <1>2, <1>3 DEF Ahead

-----------------------------------------------------------------------------
(* Who is ahead on a level of q of a PCB of the MLFQ was before it there.  *)
NoneOvertaken(q) ==
  \A m \in Level : \A p \in Members(ready) : \A r \in Range(q[m]) :
    Ahead(q[m], r, p) => Before(ready, r, p)

(* A dequeue overtakes nobody.                                             *)
LEMMA DequeueOrder ==
  ASSUME NEW q \in [Level -> Seq(PCB)], NoneOvertaken(q)
  PROVE  NoneOvertaken(pq_dequeue(q))
<1>1. CASE pq_is_empty(q)
  BY <1>1 DEF pq_dequeue
<1>2. CASE ~ pq_is_empty(q)
  <2> DEFINE t == TopLevel(q)
             d == pq_dequeue(q)
  <2>1. t \in Level /\ q[t] # << >> /\ q[t] \in Seq(PCB)
    BY <1>2, TopLevelIsFirst
  <2>2. d = [q EXCEPT ![t] = Tail(@)]
    BY <1>2 DEF pq_dequeue
  <2> HIDE DEF t, d
  <2>3. d[t] = Tail(q[t]) /\ \A m \in Level \ {t} : d[m] = q[m]
    BY <2>1, <2>2
  <2>4. ASSUME NEW m \in Level, NEW p \in Members(ready), NEW r \in Range(d[m]),
               Ahead(d[m], r, p)
        PROVE  Before(ready, r, p)
    <3>1. CASE m = t
      <4>1. r \in Range(q[t]) /\ Ahead(q[t], r, p)
        BY <2>1, <2>3, <2>4, <3>1, TailRange, AheadTail
      <4> QED
        BY <2>1, <4>1 DEF NoneOvertaken
    <3>2. CASE m # t
      BY <2>3, <2>4, <3>2 DEF NoneOvertaken
    <3> QED
      BY <3>1, <3>2
  <2> QED
    BY <2>4 DEF NoneOvertaken, d
<1> QED
  BY <1>1, <1>2

(* An enqueued PCB that was not on the MLFQ overtakes nobody.              *)
LEMMA EnqueueOrder ==
  ASSUME Sound(ready, PCB), NEW l \in Level, NEW x \in PCB, x \notin Members(ready)
  PROVE  NoneOvertaken(pq_enqueue(ready, l, x))
<1> DEFINE q == pq_enqueue(ready, l, x)
<1>1. ready \in [Level -> Seq(PCB)]
  BY DEF Sound
<1>2. /\ q[l] = Append(ready[l], x) /\ ready[l] \in Seq(PCB)
      /\ \A m \in Level \ {l} : q[m] = ready[m]
  BY <1>1 DEF pq_enqueue, q_enqueue
<1> HIDE DEF q
<1>3. ASSUME NEW m \in Level, NEW p \in Members(ready), NEW r \in Range(q[m]),
             Ahead(q[m], r, p)
      PROVE  Before(ready, r, p)
  <2>1. CASE m = l
    <3>1. p # x
      OBVIOUS
    <3>2. Ahead(Append(ready[l], x), r, p)
      BY <1>2, <1>3, <2>1
    <3>3. Ahead(ready[l], r, p)
      BY <1>2, <3>1, <3>2, AheadAppend
    <3> QED
      BY <3>3 DEF Before
  <2>2. CASE m # l
    BY <1>2, <1>3, <2>2 DEF Before
  <2> QED
    BY <2>1, <2>2
<1> QED
  BY <1>3 DEF NoneOvertaken, q

(* A round of PCBs that were not on the MLFQ overtakes nobody.             *)
LEMMA RoundOrder ==
  ASSUME Sound(ready, PCB), NEW s \in Seq(PCB), Range(s) \cap Members(ready) = {}
  PROVE  NoneOvertaken(WithRound(ready, s)) /\ WithRound(ready, s) \in [Level -> Seq(PCB)]
<1> DEFINE q == WithRound(ready, s)
<1>1. ready \in [Level -> Seq(PCB)] /\ 0 \in Level
  BY ConstantsFact DEF Sound
<1>2. /\ q[0] = ready[0] \o s /\ ready[0] \in Seq(PCB)
      /\ \A m \in Level \ {0} : q[m] = ready[m]
  BY <1>1 DEF WithRound
<1>3. q \in [Level -> Seq(PCB)]
  BY <1>1, ConcatProperties DEF WithRound
<1> HIDE DEF q
<1>4. ASSUME NEW m \in Level, NEW p \in Members(ready), NEW r \in Range(q[m]),
             Ahead(q[m], r, p)
      PROVE  Before(ready, r, p)
  <2>1. CASE m = 0
    <3>1. p \notin Range(s)
      OBVIOUS
    <3>2. ~ Ahead(s, r, p)
      BY <3>1 DEF Ahead, Range
    <3>3. Ahead(ready[0], r, p)
      BY <1>2, <1>4, <2>1, <3>1, <3>2, AheadConcat
    <3> QED
      BY <1>1, <3>3 DEF Before
  <2>2. CASE m # 0
    BY <1>2, <1>4, <2>2 DEF Before
  <2> QED
    BY <2>1, <2>2
<1> QED
  BY <1>3, <1>4 DEF NoneOvertaken, q

(* The dispatcher takes the first of a level, or nothing.                  *)
LEMMA DispatchOrder ==
  ASSUME NEW q \in [Level -> Seq(PCB)], NEW st, NEW intr, NoneOvertaken(q),
         Dispatch(q, st, intr)
  PROVE  NoneOvertaken(ready')
<1>1. ready' = q \/ ready' = pq_dequeue(q)
  BY DEF Dispatch
<1> QED
  BY <1>1, DequeueOrder

(* As it is, the MLFQ has the order it has.                                *)
LEMMA SameOrder == NoneOvertaken(ready)
BY DEF NoneOvertaken, Before

(* A reset puts the PCBs of a level behind those of level 0, which were    *)
(* before them as well.                                                    *)
LEMMA ResetOrder == IInv /\ ResetLevel => NoneOvertaken(ready')
<1> SUFFICES ASSUME IInv, ResetLevel PROVE NoneOvertaken(ready')
  OBVIOUS
<1>1. level \in Level /\ level # 0 /\ 0 \in Level /\ 0 < level
  BY MLFQAssumption DEF IInv, TypeOK, ResetLevel, ResetDone, Level
<1>2. ready \in [Level -> Seq(PCB)] /\ ready[0] \in Seq(PCB) /\ ready[level] \in Seq(PCB)
  BY <1>1 DEF IInv, TypeOK
<1>3. /\ ready'[0] = ready[0] \o ready[level]
      /\ ready'[level] = << >>
      /\ \A m \in Level \ {0, level} : ready'[m] = ready[m]
  BY <1>1, <1>2 DEF ResetLevel
<1>4. ASSUME NEW m \in Level, NEW p \in Members(ready), NEW r \in Range(ready'[m]),
             Ahead(ready'[m], r, p)
      PROVE  Before(ready, r, p)
  <2>1. CASE m = 0
    <3>1. Ahead(ready[0] \o ready[level], r, p)
      BY <1>3, <1>4, <2>1
    <3>2. \/ Ahead(ready[0], r, p) \/ Ahead(ready[level], r, p)
          \/ r \in Range(ready[0]) /\ p \in Range(ready[level])
      BY <1>2, <3>1, AheadConcat
    <3> QED
      BY <1>1, <3>2 DEF Before
  <2>2. CASE m = level
    BY <1>3, <1>4, <2>2 DEF Range
  <2>3. CASE m \notin {0, level}
    BY <1>3, <1>4, <2>3 DEF Before
  <2> QED
    BY <2>1, <2>2, <2>3
<1> QED
  BY <1>4 DEF NoneOvertaken

(* The timer and the I/O interrupt append one PCB, and the timer, a trap   *)
(* and a termination dispatch.                                             *)
LEMMA HandlerOrder ==
  ASSUME IInv, TimerInterrupt \/ TrapHandled \/ Terminate \/ IoInterruptISR
  PROVE  NoneOvertaken(ready')
<1>1. Sound(ready, PCB) /\ ready \in [Level -> Seq(PCB)]
  BY QueuedStates DEF Sound
<1>2. CASE TimerInterrupt
  <2> DEFINE l == Demoted(priority[running])
             q == pq_enqueue(ready, l, running)
             st == [state EXCEPT ![running] = "READY"]
  <2>1. /\ running \in PCB /\ running \notin Members(ready) /\ Interrupted = running
    BY <1>2, RunningIsInterrupted DEF IInv, DerefSafe, TimerInterrupt
  <2>2. Dispatch(q, st, running)
    BY <1>2, <2>1 DEF TimerInterrupt
  <2>3. l \in Level
    BY <2>1, ConstantsFact DEF IInv, TypeOK
  <2> HIDE DEF l, st
  <2>4. Sound(q, PCB) /\ NoneOvertaken(q)
    BY <1>1, <2>1, <2>3, EnqueueRanges, EnqueueOrder
  <2>5. q \in [Level -> Seq(PCB)]
    BY <2>4 DEF Sound
  <2> HIDE DEF q
  <2> QED
    BY <2>2, <2>4, <2>5, DispatchOrder
<1>3. CASE TrapHandled \/ Terminate
  <2>1. PICK st, intr : Dispatch(ready, st, intr)
    BY <1>3 DEF TrapHandled, IoTrapISR, Terminate
  <2> QED
    BY <1>1, <2>1, SameOrder, DispatchOrder
<1>4. CASE IoInterruptISR
  <2> DEFINE h == Head(blocked)
             l == priority[h]
  <2>1. h \in Range(blocked) /\ Range(blocked) \subseteq PCB
    BY <1>4, TailRange, OnlyPCBs DEF IInv, Places, Homes, IoInterruptISR
  <2>2. h \in PCB /\ h \notin Members(ready) /\ l \in Level
    BY <2>1 DEF IInv, Places, Homes, TypeOK
  <2>3. ready' = pq_enqueue(ready, l, h)
    BY <1>4 DEF IoInterruptISR
  <2> HIDE DEF h, l
  <2> QED
    BY <1>1, <2>2, <2>3, EnqueueOrder
<1> QED
  BY <1>2, <1>3, <1>4

(* A round appends new PCBs and may dispatch one.                          *)
LEMMA RoundKeepsOrder ==
  ASSUME IInv, at \notin {"end?", "ended"}, SomeRound
  PROVE  NoneOvertaken(ready')
<1>1. PICK n \in 0 .. MAX_PCB_IN_ROUND - 1 :
        \E img \in [1 .. n -> Image] : makePCBList(n, img)
  BY DEF SomeRound
<1> DEFINE new == totalProcesses .. totalProcesses + n - 1
           s == [i \in 1 .. n |-> totalProcesses + i - 1]
           q == [ready EXCEPT ![0] = @ \o s]
<1>2. /\ n \in Nat
      /\ totalProcesses \in Nat
      /\ new \subseteq PCB
      /\ new \cap Created = {}
  BY SchedulerAssumption DEF IInv, RoomForRound, PCB, Created
<1>3. ready' = q \/ ready' = pq_dequeue(q)
  BY <1>1 DEF makePCBList
<1>4. s \in Seq(PCB) /\ Range(s) = new
  BY <1>2, PidsInOrder
<1> HIDE DEF new, s
<1>5. Range(s) \cap Members(ready) = {}
  BY <1>2, <1>4, QueuedStates
<1>6. q = WithRound(ready, s)
  BY DEF WithRound
<1> HIDE DEF q
<1>7. q \in [Level -> Seq(PCB)] /\ NoneOvertaken(q)
  BY <1>4, <1>5, <1>6, QueuedStates, RoundOrder
<1> QED
  BY <1>3, <1>7, DequeueOrder

(* No step of the program overtakes a queued PCB.                          *)
LEMMA OrderStep == IInv /\ [Next]_vars => NoneOvertaken(ready')
<1> SUFFICES ASSUME IInv, [Next]_vars PROVE NoneOvertaken(ready')
  OBVIOUS
<1>1. CASE \/ RunInstruction \/ Idle \/ TimerTick \/ NoTrap \/ WrapPC \/ NoWrap
           \/ IoTick \/ NoTermination \/ NoReset \/ BeginReset \/ FinishReset
           \/ NoSpawn \/ EndOfPass \/ Ended \/ UNCHANGED vars
  <2>1. ready' = ready
    BY <1>1
    DEF RunInstruction, Idle, TimerTick, NoTrap, WrapPC, NoWrap, RestartProgram, IoTick,
        NoIoInterrupt, NoTermination, NoReset, BeginReset, FinishReset, NoSpawn,
        EndOfPass, Ended, vars, queueVars
  <2> QED
    BY <2>1, SameOrder
<1>2. CASE TimerInterrupt \/ IoTrap \/ Terminate \/ IoInterrupt
  BY <1>2, HandlerOrder DEF IoTrap, IoInterrupt, TrapHandled
<1>3. CASE ResetLevel
  BY <1>3, ResetOrder
<1>4. CASE Boot \/ Spawn
  <2>1. at \notin {"end?", "ended"} /\ SomeRound
    BY <1>4 DEF Boot, Spawn
  <2> QED
    BY <2>1, RoundKeepsOrder
<1> QED
  BY <1>1, <1>2, <1>3, <1>4 DEF Next

(* No process is overtaken on its level, resets included: whoever is ahead *)
(* of it there after a step was ahead of it, or more urgent, before.       *)
THEOREM NoOvertakingAlways == Spec => NoOvertaking
<1>1. IInv /\ [Next]_vars =>
        [\A m \in Level : \A p \in Range(ready'[m]) \cap Queued : \A r \in Range(ready'[m]) :
           Ahead(ready'[m], r, p) => Before(ready, r, p)]_vars
  BY OrderStep DEF NoneOvertaken, Queued
<1> QED
  BY <1>1, Invariant, PTL DEF Spec, NoOvertaking

-----------------------------------------------------------------------------
(* The counters of the scheduler stay in step with what they count:        *)
(* quantum_tick with the quantum of a running process that may have        *)
(* inherited it, io_timer with the request at the head of the blocked      *)
(* queue, and term_count with the number of wraps after which a process    *)
(* terminates.                                                             *)

(* As in the program, where they are 500 and 1000.                         *)
QuantaGrow == MIN_PRIORITY_JUMP <= PRIORITY_JUMP_EXTRA

(* A blocked PCB carries the time of its own request.                      *)
IoInv ==
  /\ IoTimerFollowsHead
  /\ \A p \in Range(blocked) : blocked_timer[p] \in 1 .. TIMER_RANGE

(* A PCB gets its image when it is created, and has not wrapped before.    *)
TermInv ==
  /\ TermCountInRange
  /\ \A p \in Created : image[p] \in Image
  /\ \A p \in PCB \ Created : term_count[p] = 0

-----------------------------------------------------------------------------
(* The last level has the longest quantum.                                 *)
LEMMA LongestQuantum ==
  ASSUME QuantaGrow, NEW l \in Level
  PROVE  /\ QuantumSize(l) <= QuantumSize(NUM_PRIORITIES - 1)
         /\ QuantumSize(l) \in Nat
         /\ QuantumSize(NUM_PRIORITIES - 1) \in Nat
<1> DEFINE n == NUM_PRIORITIES - 1
           e == PRIORITY_JUMP_EXTRA
<1>1. /\ n \in Nat /\ e \in Nat /\ l \in Nat /\ l <= n
      /\ MIN_PRIORITY_JUMP \in Nat /\ MIN_PRIORITY_JUMP <= e
  BY MLFQAssumption DEF Level, QuantaGrow
<1> HIDE DEF n, e
<1>2. l * e \in Nat /\ n * e \in Nat /\ l * e <= n * e
  <2>1. n - l \in Nat
    BY <1>1
  <2>2. (n - l) * e \in Nat /\ n * e = l * e + (n - l) * e
    BY <1>1, <2>1
  <2> QED
    BY <1>1, <2>2
<1>3. n # 0 => e <= n * e
  <2>1. n # 0 => n - 1 \in Nat
    BY <1>1
  <2>2. n # 0 => (n - 1) * e \in Nat /\ n * e = e + (n - 1) * e
    BY <1>1, <2>1
  <2> QED
    BY <1>1, <2>2
<1>4. n = 0 => l = 0
  BY <1>1
<1>5. /\ QuantumSize(l) = IF l = 0 THEN MIN_PRIORITY_JUMP ELSE l * e
      /\ QuantumSize(n) = IF n = 0 THEN MIN_PRIORITY_JUMP ELSE n * e
  BY DEF QuantumSize, e
<1>6. QuantumSize(l) <= QuantumSize(n) /\ QuantumSize(l) \in Nat /\ QuantumSize(n) \in Nat
  BY <1>1, <1>2, <1>3, <1>4, <1>5
<1> QED
  BY <1>6 DEF n

(* The tick only grows below the quantum of the running process.           *)
LEMMA TickHandled ==
  ASSUME QuantaGrow, IInv, LevelInv, TickBounded,
         TimerTick \/ TimerInterrupt \/ quantum_tick' = quantum_tick
  PROVE  TickBounded'
<1>1. CASE TimerTick
  <2>1. running \in PCB /\ priority[running] \in Level
    BY <1>1 DEF TimerTick, IInv, DerefSafe, TypeOK
  <2>2. currQuantumSize = QuantumSize(priority[running])
    BY <2>1, ConstantsFact DEF LevelInv, QuantumFitsRunning
  <2>3. /\ QuantumSize(priority[running]) <= QuantumSize(NUM_PRIORITIES - 1)
        /\ QuantumSize(priority[running]) \in Nat
        /\ QuantumSize(NUM_PRIORITIES - 1) \in Nat
    BY <2>1, LongestQuantum
  <2>4. quantum_tick \in Nat /\ quantum_tick' = quantum_tick + 1 /\ ~ (quantum_tick >= currQuantumSize)
    BY <1>1 DEF TimerTick, TimerExpired, IInv, TypeOK
  <2> QED
    BY <2>2, <2>3, <2>4 DEF TickBounded
<1>2. CASE TimerInterrupt
  <2>1. 0 \in Level
    BY ConstantsFact
  <2>2. quantum_tick' = 0 /\ QuantumSize(NUM_PRIORITIES - 1) \in Nat
    BY <1>2, <2>1, LongestQuantum DEF TimerInterrupt
  <2> QED
    BY <2>2 DEF TickBounded
<1>3. CASE quantum_tick' = quantum_tick
  BY <1>3 DEF TickBounded
<1> QED
  BY <1>1, <1>2, <1>3

(* No other step of the scheduler touches the tick.                        *)
LEMMA TickStep ==
  QuantaGrow /\ IInv /\ LevelInv /\ TickBounded /\ [Next]_vars => TickBounded'
<1>1. [Next]_vars => TimerTick \/ TimerInterrupt \/ quantum_tick' = quantum_tick
  BY DEF Next, Boot, RunInstruction, Idle, NoTrap, IoTrap, IoTrapISR, WrapPC, NoWrap,
         RestartProgram, IoTick, NoIoInterrupt, IoInterrupt, IoInterruptISR, NoTermination,
         Terminate, NoReset, BeginReset, ResetLevel, FinishReset, Spawn, NoSpawn, EndOfPass,
         Ended, SomeRound, makePCBList, vars, tickVars
<1> QED
  BY <1>1, TickHandled

(* Although a process inherits the ticks of the one before it, no tick     *)
(* outgrows the longest quantum, so that the timer always fires again.     *)
THEOREM TickBoundedAlways ==
  ASSUME QuantaGrow
  PROVE  Spec => []TickBounded
<1>1. Init => TickBounded
  BY LongestQuantum, ConstantsFact DEF Init, TickBounded
<1>2. IInv /\ LevelInv /\ TickBounded /\ [Next]_vars => TickBounded'
  BY TickStep
<1> QED
  BY <1>1, <1>2, Invariant, LevelInvariant, PTL DEF Spec

-----------------------------------------------------------------------------
(* The I/O timer.  A request that is added goes behind the others, and one *)
(* that is served leaves the next one with its whole time ahead of it.     *)
LEMMA IoHandled ==
  ASSUME IInv, IoInv,
         \/ TrapHandled \/ IoInterruptISR \/ NoIoInterrupt
         \/ UNCHANGED << blocked, blocked_timer, io_timer >>
  PROVE  IoInv'
<1>1. /\ blocked \in Seq(PCB)
      /\ Range(blocked) \subseteq PCB
      /\ io_timer \in Nat
      /\ blocked_timer \in [PCB -> (1 .. TIMER_RANGE) \cup {-1}]
      /\ TIMER_RANGE \in Nat
  BY SchedulerAssumption, OnlyPCBs DEF IInv, TypeOK, Places, Homes
<1>2. blocked # << >> => Head(blocked) \in Range(blocked)
  BY <1>1, TailRange
<1>3. CASE TrapHandled
  <2>1. running \in PCB /\ Interrupted = running /\ running \notin Range(blocked)
    BY <1>3, RunningIsInterrupted DEF IInv, DerefSafe, TrapHandled
  <2>2. PICK t \in 1 .. TIMER_RANGE : blocked_timer' = [blocked_timer EXCEPT ![running] = t]
    BY <1>3, <2>1 DEF TrapHandled, IoTrapISR
  <2>3. blocked' = Append(blocked, running) /\ io_timer' = io_timer
    BY <1>3, <2>1 DEF TrapHandled, IoTrapISR, q_enqueue, tickVars
  <2>4. Range(blocked') = Range(blocked) \cup {running}
    BY <1>1, <2>1, <2>3, AppendRange
  <2>5. \A p \in Range(blocked') : blocked_timer'[p] = IF p = running THEN t ELSE blocked_timer[p]
    BY <1>1, <2>1, <2>2, <2>4
  <2>6. /\ blocked' # << >>
        /\ Head(blocked') = IF blocked = << >> THEN running ELSE Head(blocked)
    BY <1>1, <2>1, <2>3
  <2>7. Head(blocked') \in Range(blocked')
    BY <1>2, <2>4, <2>6
  <2>8. io_timer' <= blocked_timer'[Head(blocked')]
    <3>1. CASE blocked = << >>
      BY <3>1, <2>3, <2>5, <2>6, <2>7 DEF IoInv, IoTimerFollowsHead
    <3>2. CASE blocked # << >>
      <4>1. blocked_timer'[Head(blocked)] = blocked_timer[Head(blocked)]
        BY <3>2, <1>2, <2>1, <2>4, <2>5
      <4> QED
        BY <3>2, <4>1, <2>3, <2>6 DEF IoInv, IoTimerFollowsHead
    <3> QED
      BY <3>1, <3>2
  <2>9. \A p \in Range(blocked') : blocked_timer'[p] \in 1 .. TIMER_RANGE
    BY <2>4, <2>5 DEF IoInv
  <2> QED
    BY <2>6, <2>8, <2>9 DEF IoInv, IoTimerFollowsHead
<1>4. CASE IoInterruptISR
  <2>1. /\ blocked # << >> /\ blocked' = Tail(blocked)
        /\ io_timer' = 0 /\ blocked_timer' = blocked_timer
    BY <1>4 DEF IoInterruptISR
  <2>2. Range(blocked') \subseteq Range(blocked) /\ blocked' \in Seq(PCB)
    BY <1>1, <2>1, TailRange
  <2>3. blocked' # << >> => Head(blocked') \in Range(blocked')
    BY <2>2, TailRange
  <2>4. \A p \in Range(blocked') : blocked_timer'[p] \in 1 .. TIMER_RANGE
    BY <2>1, <2>2 DEF IoInv
  <2>5. blocked' # << >> => io_timer' <= blocked_timer'[Head(blocked')]
    BY <2>1, <2>3, <2>4, <1>1
  <2> QED
    BY <2>1, <2>4, <2>5 DEF IoInv, IoTimerFollowsHead
<1>5. CASE NoIoInterrupt
  <2>1. /\ blocked' = blocked /\ blocked_timer' = blocked_timer
        /\ \/ blocked = << >> /\ io_timer' = io_timer
           \/ /\ blocked # << >>
              /\ ~ (io_timer >= blocked_timer[Head(blocked)])
              /\ io_timer' = io_timer + 1
    BY <1>5 DEF NoIoInterrupt, RequestServed, queueVars, pcbVars
  <2>2. blocked # << >> => blocked_timer[Head(blocked)] \in 1 .. TIMER_RANGE
    BY <1>2 DEF IoInv
  <2> QED
    BY <1>1, <2>1, <2>2 DEF IoInv, IoTimerFollowsHead
<1>6. CASE UNCHANGED << blocked, blocked_timer, io_timer >>
  BY <1>6 DEF IoInv, IoTimerFollowsHead
<1> QED
  BY <1>3, <1>4, <1>5, <1>6

(* The other steps of the scheduler touch neither queue nor timer.         *)
LEMMA IoStep == IInv /\ IoInv /\ [Next]_vars => IoInv'
<1> SUFFICES ASSUME IInv, IoInv, [Next]_vars PROVE IoInv'
  OBVIOUS
<1>1. CASE IoTrap \/ IoInterrupt \/ IoTick
  BY <1>1, IoHandled DEF IoTrap, IoInterrupt, IoTick, TrapHandled
<1>2. CASE ~ IoTrap /\ ~ IoInterrupt /\ ~ IoTick
  <2>1. UNCHANGED << blocked, blocked_timer, io_timer >>
    BY <1>2
    DEF Next, Boot, RunInstruction, Idle, TimerTick, TimerInterrupt, NoTrap, WrapPC, NoWrap,
        RestartProgram, NoTermination, Terminate, NoReset, BeginReset, ResetLevel,
        FinishReset, Spawn, NoSpawn, EndOfPass, Ended, SomeRound, makePCBList, vars,
        queueVars, pcbVars, tickVars
  <2> QED
    BY <2>1, IoHandled
<1> QED
  BY <1>1, <1>2

(* The one io_timer never passes the time of the request it stands for,    *)
(* and is 0 while none is there.                                           *)
THEOREM IoTimerFollowsHeadAlways == Spec => []IoTimerFollowsHead
<1>1. Init => IoInv
  BY DEF Init, IoInv, IoTimerFollowsHead, Range
<1>2. IInv /\ IoInv /\ [Next]_vars => IoInv'
  BY IoStep
<1>3. IoInv => IoTimerFollowsHead
  BY DEF IoInv
<1> QED
  BY <1>1, <1>2, <1>3, Invariant, PTL DEF Spec

-----------------------------------------------------------------------------
(* How far the count c of a process with image i may have got, when it has *)
(* halted or not, and when it is the one that just wrapped or not.         *)
Within(c, i, halted, wrapped) ==
  IF halted THEN i.terminate > 0 /\ c = i.terminate
  ELSE i.terminate > 0 => c < i.terminate \/ (wrapped /\ c = i.terminate)

JustWrapped(p) == at \in {"io", "terminate"} /\ p = running

(* TermCountInRange in these terms.                                        *)
LEMMA TermCountIs ==
  TermCountInRange <=>
    \A p \in Created : Within(term_count[p], image[p], state[p] = "HALT", JustWrapped(p))
BY DEF TermCountInRange, Within, JustWrapped

(* No more PIDs are given out than PCB has.                                *)
LEMMA CreatedArePCBs ==
  ASSUME IInv
  PROVE  Created \subseteq PCB
BY SchedulerAssumption DEF Created, IInv, RoomForRound, PCB

(* The dispatcher neither halts a process nor revives one.                 *)
LEMMA DispatchHalts ==
  ASSUME NEW q, NEW st \in [PCB -> ProcessState], NEW intr, Dispatch(q, st, intr)
  PROVE  \A p \in PCB : state'[p] = "HALT" <=> st[p] = "HALT"
BY DEF Dispatch

(* A step between "io" and "terminate" finds the process that just wrapped *)
(* still on the CPU; every other step finds no count that reached its end. *)
LEMMA TermQuiet ==
  ASSUME IInv, TermInv,
         \/ RunInstruction \/ Idle \/ TimerTick \/ NoTrap \/ NoWrap \/ NoTermination
         \/ NoReset \/ BeginReset \/ ResetLevel \/ FinishReset \/ NoSpawn \/ EndOfPass
         \/ Ended \/ IoTick \/ UNCHANGED vars
  PROVE  TermInv'
<1>1. UNCHANGED << state, term_count, image, totalProcesses, running >>
  BY DEF RunInstruction, Idle, TimerTick, NoTrap, NoWrap, NoTermination, NoReset,
         BeginReset, ResetLevel, FinishReset, NoSpawn, EndOfPass, Ended, IoTick,
         NoIoInterrupt, vars, pcbVars
<1>2. Created' = Created
  BY <1>1 DEF Created
<1>3. ASSUME NEW p \in Created, JustWrapped(p),
             image[p].terminate > 0, state[p] # "HALT", term_count[p] = image[p].terminate
      PROVE  JustWrapped(p)'
  <2>1. running # NULL /\ at \in {"io", "terminate"} /\ p = running
    BY <1>3, MLFQAssumption DEF JustWrapped, IInv, TypeOK, Created
  <2> QED
    BY <1>1, <1>3, <2>1
    DEF JustWrapped, MustTerminate, RunInstruction, Idle, TimerTick, NoTrap, NoWrap,
        NoTermination, NoReset, BeginReset, ResetLevel, FinishReset, NoSpawn, EndOfPass,
        Ended, IoTick, vars
<1>4. \A p \in Created : Within(term_count[p], image[p], state[p] = "HALT", JustWrapped(p))
  BY TermCountIs DEF TermInv
<1>5. \A p \in Created : Within(term_count[p], image[p], state[p] = "HALT", JustWrapped(p)')
  BY <1>3, <1>4 DEF Within
<1>6. TermCountInRange'
  BY <1>1, <1>2, <1>5 DEF TermCountInRange, Within, JustWrapped
<1> QED
  BY <1>1, <1>2, <1>6 DEF TermInv

(* A wrap counts one more, and leaves the process on the CPU to be tested. *)
LEMMA TermWrap ==
  ASSUME IInv, TermInv, at = "wrap", running # NULL, RestartProgram,
         at' \in {"io", "terminate"}
  PROVE  TermInv'
<1>1. /\ running' = running
      /\ term_count' = [term_count EXCEPT ![running] = NextTermCount(running)]
      /\ UNCHANGED << state, image, totalProcesses >>
  BY DEF RestartProgram
<1>2. Created' = Created /\ Created \subseteq PCB
  BY <1>1, CreatedArePCBs DEF Created
<1>3. running \in PCB /\ running \in Created /\ state[running] = "RUNNING"
  BY RunningIsInterrupted
<1>4. /\ image[running].terminate \in Nat
      /\ term_count[running] \in Nat
      /\ term_count \in [PCB -> Nat]
  BY <1>3, SchedulerAssumption DEF TermInv, IInv, TypeOK
<1>5. image[running].terminate > 0 => term_count[running] < image[running].terminate
  BY <1>1, <1>3 DEF TermInv, TermCountInRange
<1>6. image[running].terminate > 0 =>
        NextTermCount(running) < image[running].terminate \/ NextTermCount(running) = image[running].terminate
  BY <1>4, <1>5 DEF NextTermCount
<1>7. \A p \in PCB : term_count'[p] = IF p = running THEN NextTermCount(running) ELSE term_count[p]
  BY <1>1, <1>4
<1>8. ASSUME NEW p \in Created
      PROVE  Within(term_count'[p], image[p], state[p] = "HALT", JustWrapped(p)')
  <2>1. CASE p = running
    BY <2>1, <1>1, <1>3, <1>6, <1>7 DEF Within, JustWrapped
  <2>2. CASE p # running
    <3>1. term_count'[p] = term_count[p]
      BY <2>2, <1>2, <1>7
    <3> QED
      BY <2>2, <3>1 DEF Within, TermInv, TermCountInRange
  <2> QED
    BY <2>1, <2>2
<1>9. TermCountInRange'
  BY <1>1, <1>2, <1>8 DEF TermCountInRange, Within, JustWrapped
<1>10. \A p \in PCB \ Created : term_count'[p] = 0
  BY <1>3, <1>7 DEF TermInv
<1> QED
  BY <1>1, <1>2, <1>9, <1>10 DEF TermInv

(* The handlers that can hand the CPU over come before the wrap, when no   *)
(* count has reached its end, or terminate the process whose count has.    *)
LEMMA TermHandOver ==
  ASSUME IInv, TermInv, TimerInterrupt \/ IoTrap \/ Terminate
  PROVE  TermInv'
<1>1. UNCHANGED << term_count, image, totalProcesses >>
  BY DEF TimerInterrupt, IoTrap, IoTrapISR, Terminate
<1>2. Created' = Created /\ Created \subseteq PCB
  BY <1>1, CreatedArePCBs DEF Created
<1>3. /\ running \in PCB
      /\ running # NULL
      /\ running \in Created
      /\ state[running] = "RUNNING"
      /\ Interrupted = running
  BY RunningIsInterrupted DEF IInv, DerefSafe, TimerInterrupt, IoTrap, Terminate
<1>4. state \in [PCB -> ProcessState]
  BY DEF IInv, TypeOK
<1>5. CASE TimerInterrupt \/ IoTrap
  <2>1. PICK st, q, intr :
          /\ st \in [PCB -> ProcessState]
          /\ \A p \in PCB : st[p] = "HALT" <=> state[p] = "HALT"
          /\ Dispatch(q, st, intr)
    <3>1. CASE TimerInterrupt
      <4> DEFINE st == [state EXCEPT ![running] = "READY"]
      <4>1. st \in [PCB -> ProcessState] /\ \A p \in PCB : st[p] = "HALT" <=> state[p] = "HALT"
        BY <1>3, <1>4 DEF ProcessState
      <4>2. Dispatch(pq_enqueue(ready, Demoted(priority[running]), running), st, running)
        BY <3>1, <1>3 DEF TimerInterrupt
      <4> HIDE DEF st
      <4> QED
        BY <4>1, <4>2
    <3>2. CASE IoTrap
      <4> DEFINE st == [state EXCEPT ![running] = "WAIT"]
      <4>1. st \in [PCB -> ProcessState] /\ \A p \in PCB : st[p] = "HALT" <=> state[p] = "HALT"
        BY <1>3, <1>4 DEF ProcessState
      <4>2. Dispatch(ready, st, NULL)
        BY <3>2, <1>3 DEF IoTrap, IoTrapISR
      <4> HIDE DEF st
      <4> QED
        BY <4>1, <4>2
    <3> QED
      BY <1>5, <3>1, <3>2
  <2>2. \A p \in PCB : state'[p] = "HALT" <=> state[p] = "HALT"
    BY <2>1, DispatchHalts
  <2>3. at \notin {"io", "terminate"}
    BY <1>5 DEF TimerInterrupt, IoTrap
  <2>4. TermCountInRange'
    BY <1>1, <1>2, <2>2, <2>3 DEF TermInv, TermCountInRange
  <2> QED
    BY <1>1, <1>2, <2>4 DEF TermInv
<1>6. CASE Terminate
  <2> DEFINE st == [state EXCEPT ![running] = "HALT"]
  <2>1. /\ Dispatch(ready, st, interrupted)
        /\ image[running].terminate > 0 /\ image[running].terminate = term_count[running]
    BY <1>6 DEF Terminate, MustTerminate
  <2>2. /\ st \in [PCB -> ProcessState]
        /\ \A p \in PCB : st[p] = "HALT" <=> p = running \/ state[p] = "HALT"
    BY <1>3, <1>4 DEF ProcessState
  <2> HIDE DEF st
  <2>3. \A p \in PCB : state'[p] = "HALT" <=> p = running \/ state[p] = "HALT"
    BY <2>1, <2>2, DispatchHalts
  <2>4. ASSUME NEW p \in Created
        PROVE  Within(term_count[p], image[p], state'[p] = "HALT", JustWrapped(p)')
    <3>1. CASE p = running
      BY <3>1, <1>2, <2>1, <2>3 DEF Within
    <3>2. CASE p # running
      BY <3>2, <1>2, <2>3 DEF Within, TermInv, TermCountInRange
    <3> QED
      BY <3>1, <3>2
  <2>5. TermCountInRange'
    BY <1>1, <1>2, <2>4 DEF TermCountInRange, Within, JustWrapped
  <2> QED
    BY <1>1, <1>2, <2>5 DEF TermInv
<1> QED
  BY <1>5, <1>6

(* An I/O interrupt resumes the process it found on the CPU.               *)
LEMMA TermIoInterrupt == IInv /\ TermInv /\ IoInterrupt => TermInv'
<1> SUFFICES ASSUME IInv, TermInv, IoInterrupt PROVE TermInv'
  OBVIOUS
<1>1. /\ UNCHANGED << term_count, image, totalProcesses >>
      /\ at = "io" /\ at' = "terminate"
  BY DEF IoInterrupt, IoInterruptISR
<1>2. Created' = Created
  BY <1>1 DEF Created
<1>3. running' = running /\ state' = state
  <2>1. CASE running = NULL
    <3>1. Interrupted = NULL
      BY <2>1 DEF IInv, InterruptedIsTransient, Interrupted
    <3> QED
      BY <3>1 DEF IoInterrupt, IoInterruptISR
  <2>2. CASE running # NULL
    <3>1. running \in PCB /\ state[running] = "RUNNING" /\ Interrupted = running
      BY <2>2, RunningIsInterrupted
    <3>2. running' = running /\ state' = [state EXCEPT ![running] = "RUNNING"]
      BY <2>2, <3>1 DEF IoInterrupt, IoInterruptISR
    <3> QED
      BY <3>1, <3>2 DEF IInv, TypeOK
  <2> QED
    BY <2>1, <2>2
<1> QED
  BY <1>1, <1>2, <1>3 DEF TermInv, TermCountInRange

(* A round adds processes that have not wrapped yet.                       *)
LEMMA TermRound == IInv /\ TermInv /\ (Boot \/ Spawn) => TermInv'
<1> SUFFICES ASSUME IInv, TermInv, Boot \/ Spawn PROVE TermInv'
  OBVIOUS
<1>1. /\ at \notin {"io", "terminate", "end?", "ended"}
      /\ SomeRound
  BY DEF Boot, Spawn
<1>2. PICK n \in 0 .. MAX_PCB_IN_ROUND - 1 :
        \E img \in [1 .. n -> Image] : makePCBList(n, img)
  BY <1>1 DEF SomeRound
<1>3. PICK img \in [1 .. n -> Image] : makePCBList(n, img)
  BY <1>2
<1> DEFINE new == totalProcesses .. totalProcesses + n - 1
           s == [i \in 1 .. n |-> totalProcesses + i - 1]
           q == [ready EXCEPT ![0] = @ \o s]
           st == [p \in PCB |-> IF p \in new THEN "READY" ELSE state[p]]
<1>4. /\ n \in Nat
      /\ totalProcesses \in Nat
      /\ new \subseteq PCB
      /\ new \cap Created = {}
      /\ 0 .. totalProcesses + n - 1 = Created \cup new
      /\ \A p \in new : p - totalProcesses + 1 \in 1 .. n
  BY <1>1, SchedulerAssumption DEF IInv, RoomForRound, PCB, Created
<1>5. /\ totalProcesses' = totalProcesses + n
      /\ term_count' = term_count
      /\ image' = [p \in PCB |-> IF p \in new THEN img[p - totalProcesses + 1] ELSE image[p]]
      /\ \/ state' = [st EXCEPT ![pq_peek(q)] = "RUNNING"] /\ n > 0
         \/ state' = st
  BY <1>3 DEF makePCBList
<1>6. \A p \in PCB : st[p] = IF p \in new THEN "READY" ELSE state[p]
  OBVIOUS
<1>7. /\ \A p \in new : image'[p] \in Image
      /\ \A p \in PCB \ new : image'[p] = image[p]
  BY <1>4, <1>5
<1>8. Created' = Created \cup new /\ Created \subseteq PCB
  BY <1>4, <1>5, CreatedArePCBs DEF Created
<1>9. s \in Seq(PCB) /\ IsInjective(s) /\ Range(s) = new
  BY <1>4, PidsInOrder
<1> HIDE DEF st, new, s
<1>10. /\ Sound(q, PCB)
       /\ Members(q) = Members(ready) \cup new
  <2>1. q = WithRound(ready, s)
    BY DEF WithRound
  <2>2. Range(s) \cap Members(ready) = {}
    BY <1>4, <1>9, QueuedStates
  <2> HIDE DEF q
  <2> QED
    BY <1>9, <2>1, <2>2, QueuedStates, AppendRoundSound
<1> HIDE DEF q
<1>11. n > 0 => pq_peek(q) \in Members(ready) \cup new
  <2>1. n > 0 => totalProcesses \in new
    BY <1>4 DEF new
  <2> QED
    BY <2>1, <1>10, MembersSubset, DequeueSound
<1>12. \A p \in PCB : state'[p] = "HALT" <=> p \notin new /\ state[p] = "HALT"
  <2>1. \A p \in PCB : st[p] = "HALT" <=> p \notin new /\ state[p] = "HALT"
    BY <1>6
  <2>2. CASE state' = st
    BY <2>1, <2>2
  <2>3. CASE state' = [st EXCEPT ![pq_peek(q)] = "RUNNING"] /\ n > 0
    <3>1. \A p \in PCB : state'[p] = IF p = pq_peek(q) THEN "RUNNING" ELSE st[p]
      BY <2>3 DEF st
    <3>2. st[pq_peek(q)] # "HALT" /\ pq_peek(q) \in PCB
      BY <2>3, <1>4, <1>6, <1>11, QueuedStates
    <3> QED
      BY <2>1, <3>1, <3>2
  <2> QED
    BY <1>5, <2>2, <2>3
<1>13. ASSUME NEW p \in Created'
       PROVE  Within(term_count'[p], image'[p], state'[p] = "HALT", JustWrapped(p)')
  <2>1. CASE p \in new
    <3>1. term_count'[p] = 0 /\ image'[p] \in Image /\ state'[p] # "HALT"
      BY <2>1, <1>4, <1>5, <1>7, <1>12 DEF TermInv
    <3>2. image'[p].terminate \in Nat
      BY <3>1, SchedulerAssumption
    <3> QED
      BY <3>1, <3>2 DEF Within
  <2>2. CASE p \notin new
    <3>1. p \in Created /\ p \in PCB
      BY <2>2, <1>8
    <3>2. term_count'[p] = term_count[p] /\ image'[p] = image[p]
      BY <2>2, <3>1, <1>5, <1>7
    <3>3. state'[p] = "HALT" <=> state[p] = "HALT"
      BY <2>2, <3>1, <1>12
    <3>4. ~ JustWrapped(p)
      BY <1>1 DEF JustWrapped
    <3>5. Within(term_count[p], image[p], state[p] = "HALT", JustWrapped(p))
      BY <3>1, TermCountIs DEF TermInv
    <3> QED
      BY <3>2, <3>3, <3>4, <3>5 DEF Within
  <2> QED
    BY <2>1, <2>2
<1>14. TermCountInRange'
  BY <1>13 DEF TermCountInRange, Within, JustWrapped
<1>15. \A p \in Created' : image'[p] \in Image
  BY <1>7, <1>8 DEF TermInv
<1> QED
  BY <1>5, <1>8, <1>14, <1>15 DEF TermInv

(* The count of wraps agrees with the state after every step.              *)
LEMMA TermStep == IInv /\ TermInv /\ [Next]_vars => TermInv'
<1> SUFFICES ASSUME IInv, TermInv, [Next]_vars PROVE TermInv'
  OBVIOUS
<1>1. CASE \/ RunInstruction \/ Idle \/ TimerTick \/ NoTrap \/ NoWrap \/ NoTermination
           \/ NoReset \/ BeginReset \/ ResetLevel \/ FinishReset \/ NoSpawn \/ EndOfPass
           \/ Ended \/ IoTick \/ UNCHANGED vars
  BY <1>1, TermQuiet
<1>2. CASE WrapPC
  BY <1>2, TermWrap DEF WrapPC
<1>3. CASE TimerInterrupt \/ IoTrap \/ Terminate
  BY <1>3, TermHandOver
<1>4. CASE IoInterrupt
  BY <1>4, TermIoInterrupt
<1>5. CASE Boot \/ Spawn
  BY <1>5, TermRound
<1> QED
  BY <1>1, <1>2, <1>3, <1>4, <1>5 DEF Next

(* A process halts exactly at the wrap its image asks for, and terminate's *)
(* test for equality never finds the count beyond it.                      *)
THEOREM TermCountInRangeAlways == Spec => []TermCountInRange
<1>1. Init => TermInv
  BY DEF Init, TermInv, TermCountInRange, Created
<1>2. IInv /\ TermInv /\ [Next]_vars => TermInv'
  BY TermStep
<1>3. TermInv => TermCountInRange
  BY DEF TermInv
<1> QED
  BY <1>1, <1>2, <1>3, Invariant, PTL DEF Spec
=============================================================================
