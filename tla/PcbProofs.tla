------------------------------ MODULE PcbProofs ------------------------------
(***************************************************************************)
(* What PCB_create guarantees about max_pc and about the search for traps  *)
(* for every value of the bounds, whatever the memory of a new PCB and the *)
(* words behind it held, and however many of those there are.              *)
(***************************************************************************)
EXTENDS Pcb, FiniteSetTheorems, SequenceTheorems, TLAPS

(* Both ways makeMaxPC can go stay in range: a lifted PC is at most        *)
(* 3 * SMALLEST_PC_POSSIBLE - 2.                                           *)
LEMMA MaxPCInRange == MaxPC \subseteq SMALLEST_PC_POSSIBLE .. LARGEST_PC_POSSIBLE - 1
<1> DEFINE S == SMALLEST_PC_POSSIBLE
           L == LARGEST_PC_POSSIBLE
<1>1. S \in Nat \ {0} /\ L \in Nat /\ 3 * S - 1 <= L
  BY PcbAssumption
<1> SUFFICES ASSUME NEW m \in MaxPC PROVE m \in S .. L - 1
  OBVIOUS
<1>2. CASE m \in S .. L - 1
  BY <1>2
<1>3. CASE \E r, s \in 0 .. S - 1 : m = r + s + S
  <2>1. PICK r \in 0 .. S - 1, s \in 0 .. S - 1 : m = r + s + S
    BY <1>3
  <2>2. r \in Int /\ s \in Int /\ 0 <= r /\ r <= S - 1 /\ 0 <= s /\ s <= S - 1
    BY <1>1
  <2> QED
    BY <1>1, <2>1, <2>2
<1> QED
  BY <1>2, <1>3 DEF MaxPC

(* A process has at least SMALLEST_PC_POSSIBLE PCs and fewer than          *)
(* LARGEST_PC_POSSIBLE, so no remainder by max_pc divides by 0.            *)
THEOREM MaxPcInRangeAlways == Spec => []MaxPcInRange
<1>1. Init => MaxPcInRange
  BY PcbAssumption DEF Init, MaxPcInRange
<1>2. MaxPcInRange /\ [Next]_vars => MaxPcInRange'
  <2> SUFFICES ASSUME MaxPcInRange, [Next]_vars PROVE MaxPcInRange'
    OBVIOUS
  <2>1. CASE InitializeData
    BY <2>1, MaxPCInRange DEF InitializeData, MaxPcInRange
  <2>2. CASE Allocate \/ Draw \/ Raise \/ RunOff \/ Store \/ PCB_assign_PID \/ UNCHANGED vars
    BY <2>2 DEF Allocate, Draw, Raise, RunOff, Store, PCB_assign_PID, vars, MaxPcInRange
  <2> QED
    BY <2>1, <2>2 DEF Next
<1> QED
  BY <1>1, <1>2, PTL DEF Spec

-----------------------------------------------------------------------------
(* The search for a trap.  The fields and locals have their types.         *)
PcbTypeOK ==
  /\ at \in {"idle", "initialize", "draw", "probe", "assign", "beyond"}
  /\ io_1_traps \in [Slot -> Nat] /\ io_2_traps \in [Slot -> Nat]
  /\ behind \in [1 .. WORDS_BEHIND -> Nat]
  /\ ioTrapType \in {0, 1} /\ i \in Slot /\ newRand \in Nat

(* While a trap is searched every PC from the one drawn up to the one      *)
(* probed next is a word of the memory.                                    *)
ProbeInv ==
  /\ PcbTypeOK /\ MaxPcInRange
  /\ at = "probe" =>
       \E drawn \in 0 .. max_pc - 1 :
         drawn <= newRand /\ (drawn .. newRand - 1) \subseteq Words

(* The memory of the model ends, so its different words are finitely many. *)
LEMMA WordsFinite ==
  ASSUME PcbTypeOK
  PROVE  IsFiniteSet(Words) /\ Cardinality(Words) \in Nat
<1> DEFINE arrays == io_1_traps \o io_2_traps
           All == {Memory[k] : k \in 1 .. Len(Memory)}
<1>1. /\ io_1_traps \in Seq(Int) /\ io_2_traps \in Seq(Int)
      /\ << -1 >> \in Seq(Int) /\ behind \in Seq(Int)
  BY PcbAssumption DEF PcbTypeOK, Slot
<1>2. Memory \in Seq(Int)
  BY <1>1, ConcatProperties DEF Memory
<1>3. Len(Memory) \in Nat
  BY <1>2, LenProperties
<1>4. IsFiniteSet(1 .. Len(Memory))
  BY <1>3, FS_Interval
<1>5. IsFiniteSet(All)
  <2> DEFINE f == [k \in 1 .. Len(Memory) |-> Memory[k]]
  <2>1. f \in Surjection(1 .. Len(Memory), All)
    BY DEF Surjection
  <2> HIDE DEF f, All
  <2> QED
    BY <1>4, <2>1, FS_Surjection
<1>6. Words \subseteq All
  BY DEF Words
<1> HIDE DEF All
<1>7. IsFiniteSet(Words)
  BY <1>5, <1>6, FS_Subset
<1> QED
  BY <1>7, FS_CardinalityType

(* A PC that a scan reports is one of the words.                           *)
LEMMA FoundIsWord ==
  ASSUME NEW w \in Nat, Contained(w)
  PROVE  w \in Words
<1>1. PICK first \in {1, TRAP_COUNT + 1} : ioTrapContains(w, first)
  BY DEF Contained
<1>2. PICK k \in first .. Len(Memory) : Memory[k] = w
  BY <1>1 DEF ioTrapContains
<1>3. w # 0 /\ w # -1
  BY <1>1 DEF ioTrapContains
<1>4. k \in 1 .. Len(Memory)
  BY PcbAssumption, <1>2
<1> QED
  BY <1>2, <1>3, <1>4 DEF Words

(* Every step keeps the invariant: a raise has found one more PC among the *)
(* words, which only a new PCB or the end of a search changes.             *)
LEMMA ProbeInvStep == ProbeInv /\ [Next]_vars => ProbeInv'
<1> SUFFICES ASSUME ProbeInv, [Next]_vars PROVE ProbeInv'
  OBVIOUS
<1>1. /\ TRAP_COUNT \in Nat \ {0} /\ Slot = 1 .. TRAP_COUNT /\ StaleWord \subseteq Nat
      /\ SMALLEST_PC_POSSIBLE \in Nat \ {0} /\ LARGEST_PC_POSSIBLE \in Nat
  BY PcbAssumption DEF Slot
<1>2. PcbTypeOK /\ max_pc \in Nat \ {0} /\ newRand \in Nat
  BY <1>1 DEF ProbeInv, PcbTypeOK, MaxPcInRange
<1>3. CASE Allocate
  <2>1. /\ [Slot -> StaleWord] \subseteq [Slot -> Nat]
        /\ [1 .. WORDS_BEHIND -> StaleWord] \subseteq [1 .. WORDS_BEHIND -> Nat]
    BY <1>1
  <2> QED
    BY <1>1, <1>3, <2>1 DEF Allocate, ProbeInv, PcbTypeOK, MaxPcInRange
<1>4. CASE InitializeData
  BY <1>1, <1>2, <1>4, MaxPCInRange DEF InitializeData, ProbeInv, PcbTypeOK, MaxPcInRange
<1>5. CASE Draw
  <2>1. newRand' \in 0 .. max_pc - 1 /\ newRand' \in Nat /\ max_pc' = max_pc
    BY <1>2, <1>5 DEF Draw
  <2>2. PcbTypeOK' /\ MaxPcInRange'
    BY <1>1, <1>2, <1>5, <2>1 DEF Draw, ProbeInv, PcbTypeOK, MaxPcInRange
  <2>3. newRand' <= newRand' /\ (newRand' .. newRand' - 1) = {}
    <3>1. \A n \in Nat : n <= n /\ (n .. n - 1) = {}
      OBVIOUS
    <3> QED
      BY <2>1, <3>1
  <2> QED
    BY <2>1, <2>2, <2>3 DEF ProbeInv
<1>6. CASE Raise
  <2>1. /\ newRand' = newRand + 1 /\ max_pc' = max_pc /\ at = "probe" /\ at' = at
        /\ io_1_traps' = io_1_traps /\ io_2_traps' = io_2_traps /\ behind' = behind
        /\ ioTrapType' = ioTrapType /\ i' = i
        /\ Contained(newRand)
    BY <1>6 DEF Raise
  <2>2. PICK drawn \in 0 .. max_pc - 1 :
          drawn <= newRand /\ (drawn .. newRand - 1) \subseteq Words
    BY <2>1 DEF ProbeInv
  <2>3. newRand \in Words
    BY <1>2, <2>1, FoundIsWord
  <2>4. /\ drawn <= newRand + 1
        /\ \A w \in drawn .. (newRand + 1) - 1 : w \in drawn .. newRand - 1 \/ w = newRand
    BY <1>2, <2>2
  <2>5. (drawn .. (newRand + 1) - 1) \subseteq Words
    BY <2>2, <2>3, <2>4
  <2>6. Words' = Words
    BY <2>1 DEF Words, Memory
  <2>7. PcbTypeOK' /\ MaxPcInRange'
    BY <1>2, <2>1 DEF PcbTypeOK, MaxPcInRange, ProbeInv
  <2> QED
    BY <2>1, <2>2, <2>4, <2>5, <2>6, <2>7 DEF ProbeInv
<1>7. CASE RunOff
  BY <1>1, <1>7 DEF RunOff, ProbeInv, PcbTypeOK, MaxPcInRange
<1>8. CASE Store
  <2>1. /\ i + 1 \in Nat /\ (i # TRAP_COUNT => i + 1 \in Slot) /\ 1 \in Slot
        /\ 1 - ioTrapType \in {0, 1}
    BY <1>1, <1>2 DEF PcbTypeOK
  <2>2. PcbTypeOK'
    BY <1>1, <1>2, <1>8, <2>1 DEF Store, PcbTypeOK
  <2> QED
    BY <1>1, <1>8, <2>2 DEF Store, ProbeInv, MaxPcInRange
<1>9. CASE PCB_assign_PID
  BY <1>1, <1>9 DEF PCB_assign_PID, ProbeInv, PcbTypeOK, MaxPcInRange
<1>10. CASE UNCHANGED vars
  <2>1. PcbTypeOK' /\ MaxPcInRange' /\ max_pc' = max_pc /\ newRand' = newRand /\ at' = at
    BY <1>10 DEF vars, ProbeInv, PcbTypeOK, MaxPcInRange
  <2>2. Words' = Words
    BY <1>10 DEF vars, Words, Memory
  <2> QED
    BY <2>1, <2>2 DEF ProbeInv
<1> QED
  BY <1>3, <1>4, <1>5, <1>6, <1>7, <1>8, <1>9, <1>10 DEF Next

(* The PCs passed over are different words, so there are no more of them   *)
(* than there are words.                                                   *)
LEMMA ProbeInvBounds == ProbeInv => ProbeBounded
<1> SUFFICES ASSUME ProbeInv, at = "probe"
             PROVE  newRand < max_pc + Cardinality(Words)
  BY DEF ProbeBounded
<1>1. max_pc \in Nat /\ newRand \in Nat
  BY PcbAssumption DEF ProbeInv, PcbTypeOK, MaxPcInRange
<1>2. PICK drawn \in 0 .. max_pc - 1 :
        drawn <= newRand /\ (drawn .. newRand - 1) \subseteq Words
  BY DEF ProbeInv
<1>3. IsFiniteSet(Words) /\ Cardinality(Words) \in Nat
  BY WordsFinite DEF ProbeInv
<1>4. Cardinality(drawn .. newRand - 1) <= Cardinality(Words)
  BY <1>2, <1>3, FS_Subset
<1>5. Cardinality(drawn .. newRand - 1) = newRand - drawn
  <2>1. Cardinality(drawn .. newRand - 1) =
          IF drawn > newRand - 1 THEN 0 ELSE (newRand - 1) - drawn + 1
    BY <1>1, <1>2, FS_Interval
  <2> QED
    BY <1>1, <1>2, <2>1
<1> QED
  BY <1>1, <1>2, <1>3, <1>4, <1>5

(* The search of populateIOTraps for a free PC raises it at most once for  *)
(* each different word it can meet, however many words lie behind the PCB  *)
(* and whatever they hold.                                                 *)
THEOREM ProbeBoundedAlways == Spec => []ProbeBounded
<1>1. Init => ProbeInv
  <2>1. /\ SMALLEST_PC_POSSIBLE \in Nat \ {0} /\ TRAP_COUNT \in Nat \ {0}
        /\ 1 \in 1 .. TRAP_COUNT
    BY PcbAssumption
  <2> QED
    BY <2>1, PcbAssumption DEF Init, ProbeInv, PcbTypeOK, MaxPcInRange, Slot
<1>2. ProbeInv /\ [Next]_vars => ProbeInv'
  BY ProbeInvStep
<1>3. ProbeInv => ProbeBounded
  BY ProbeInvBounds
<1> QED
  BY <1>1, <1>2, <1>3, PTL DEF Spec
=============================================================================
