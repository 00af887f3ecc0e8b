--------------------------------- MODULE Pcb ---------------------------------
(***************************************************************************)
(* PCB_create of pcb.c with initialize_data, makeMaxPC, populateIOTraps    *)
(* and PCB_assign_PID: how a process gets the data that module Scheduler   *)
(* takes as its image.  The two trap arrays come from malloc and hold what *)
(* was in that memory; ioTrapContains reads from the first word of an      *)
(* array up to a word that is 0, wherever that is.  The model has some of  *)
(* the words behind the PCB; a scan that finds no 0 there either is        *)
(* undefined behaviour, and the model ends (at = "beyond").                *)
(***************************************************************************)
EXTENDS Integers, Sequences, FiniteSets

CONSTANTS
  LARGEST_PC_POSSIBLE,   \* pcb.h: bound of the first draw of makeMaxPC
  SMALLEST_PC_POSSIBLE,  \* pcb.h: smallest max_pc
  TRAP_COUNT,            \* pcb.h: length of a trap array
  MaxPID,                \* PCBs created, to bound the model
  StaleWord,             \* what memory nobody has written to can hold
  WORDS_BEHIND           \* bound: words behind blocked_timer in the model

ASSUME PcbAssumption ==
  /\ LARGEST_PC_POSSIBLE \in Nat /\ SMALLEST_PC_POSSIBLE \in Nat \ {0}
  /\ 3 * SMALLEST_PC_POSSIBLE - 1 <= LARGEST_PC_POSSIBLE
  /\ TRAP_COUNT \in Nat \ {0}
  /\ MaxPID \in Nat
  /\ StaleWord \subseteq Nat /\ StaleWord # {}
  /\ WORDS_BEHIND \in Nat

Slot == 1 .. TRAP_COUNT

VARIABLES
  at,                      \* "idle", "beyond", or the point PCB_create is at
  global_largest_PID,
  max_pc,                  \* \
  io_1_traps, io_2_traps,  \*  > fields of the PCB being made
  behind,                  \* the words of memory behind blocked_timer
  ioTrapType, i, newRand   \* locals of populateIOTraps

vars == << at, global_largest_PID, max_pc, io_1_traps, io_2_traps, behind,
           ioTrapType, i, newRand >>

-----------------------------------------------------------------------------
(* The words from io_1_traps on.  Behind the arrays lies blocked_timer,    *)
(* which initialize_data has set to -1, the largest unsigned number.  Of   *)
(* the words of the context pointer, and of those behind the PCB, nothing  *)
(* is assumed.                                                             *)
Memory == io_1_traps \o io_2_traps \o << -1 >> \o behind

(* A scan for w from word first finds w before any 0.                      *)
ioTrapContains(w, first) ==
  /\ w # 0
  /\ \E k \in first .. Len(Memory) :
       Memory[k] = w /\ \A j \in first .. k - 1 : Memory[j] # 0

Contained(w) == ioTrapContains(w, 1) \/ ioTrapContains(w, TRAP_COUNT + 1)

(* A scan for w, the second if the first did not find it, meets no 0.      *)
ScanRunsOff(w) ==
  /\ ~Contained(w)
  /\ \A k \in TRAP_COUNT + 1 .. Len(Memory) : Memory[k] # 0

(* The second draw could forget to lift a small PC.                        *)
MutantMaxPC ==
  SMALLEST_PC_POSSIBLE .. LARGEST_PC_POSSIBLE - 1
    \cup {r + s : r, s \in 0 .. SMALLEST_PC_POSSIBLE - 1}

(* A PC below SMALLEST_PC_POSSIBLE is lifted by a second draw.             *)
MaxPC ==
  SMALLEST_PC_POSSIBLE .. LARGEST_PC_POSSIBLE - 1
    \cup {r + s + SMALLEST_PC_POSSIBLE : r, s \in 0 .. SMALLEST_PC_POSSIBLE - 1}

-----------------------------------------------------------------------------
Init ==
  /\ at = "idle"
  /\ global_largest_PID = 0
  /\ max_pc = SMALLEST_PC_POSSIBLE
  /\ io_1_traps = [s \in Slot |-> 0] /\ io_2_traps = [s \in Slot |-> 0]
  /\ behind = [s \in 1 .. WORDS_BEHIND |-> 0]
  /\ ioTrapType = 0 /\ i = 1 /\ newRand = 0

(* PCB_create returns null if either allocation fails and has then changed *)
(* nothing: such a call is a stuttering step.  Else the new PCB holds what *)
(* was in its memory.                                                      *)
Allocate ==
  /\ at = "idle"
  /\ global_largest_PID < MaxPID
  /\ at' = "initialize"
  /\ io_1_traps' \in [Slot -> StaleWord]
  /\ io_2_traps' \in [Slot -> StaleWord]
  /\ behind' \in [1 .. WORDS_BEHIND -> StaleWord]
  /\ UNCHANGED << global_largest_PID, max_pc, ioTrapType, i, newRand >>

(* initialize_data up to the traps: the fields Scheduler's Init gives, and *)
(* max_pc.                                                                 *)
InitializeData ==
  /\ at = "initialize"
  /\ max_pc' \in MaxPC
  /\ ioTrapType' = 0
  /\ i' = 1
  /\ newRand' = 0
  /\ at' = "draw"
  /\ UNCHANGED << global_largest_PID, io_1_traps, io_2_traps, behind >>

(* populateIOTraps draws a PC and raises it while it is found.             *)
MutantDraw ==
  /\ at = "draw"
  /\ newRand' \in 0 .. LARGEST_PC_POSSIBLE - 1
  /\ at' = "probe"
  /\ UNCHANGED << global_largest_PID, max_pc, io_1_traps, io_2_traps, behind,
                  ioTrapType, i >>

Draw ==
  /\ at = "draw"
  /\ newRand' \in 0 .. max_pc - 1
  /\ at' = "probe"
  /\ UNCHANGED << global_largest_PID, max_pc, io_1_traps, io_2_traps, behind,
                  ioTrapType, i >>

(* The same PC could be probed again and again.                            *)
MutantRaise ==
  /\ at = "probe"
  /\ Contained(newRand)
  /\ UNCHANGED vars

Raise ==
  /\ at = "probe"
  /\ Contained(newRand)
  /\ newRand' = newRand + 1
  /\ UNCHANGED << at, global_largest_PID, max_pc, io_1_traps, io_2_traps,
                  behind, ioTrapType, i >>

(* A scan leaves the memory of the model: what it finds is undefined.      *)
RunOff ==
  /\ at = "probe"
  /\ ScanRunsOff(newRand)
  /\ at' = "beyond"
  /\ UNCHANGED << global_largest_PID, max_pc, io_1_traps, io_2_traps,
                  behind, ioTrapType, i, newRand >>

Store ==
  /\ at = "probe"
  /\ ~Contained(newRand) /\ ~ScanRunsOff(newRand)
  /\ \/ /\ ioTrapType = 0
        /\ io_1_traps' = [io_1_traps EXCEPT ![i] = newRand]
        /\ UNCHANGED io_2_traps
     \/ /\ ioTrapType = 1
        /\ io_2_traps' = [io_2_traps EXCEPT ![i] = newRand]
        /\ UNCHANGED io_1_traps
  /\ i' = IF i = TRAP_COUNT THEN 1 ELSE i + 1
  /\ ioTrapType' = IF i = TRAP_COUNT THEN 1 - ioTrapType ELSE ioTrapType
  /\ at' = IF i = TRAP_COUNT /\ ioTrapType = 1 THEN "assign" ELSE "draw"
  /\ UNCHANGED << global_largest_PID, max_pc, behind, newRand >>

PCB_assign_PID ==
  /\ at = "assign"
  /\ global_largest_PID' = global_largest_PID + 1
  /\ at' = "idle"
  /\ UNCHANGED << max_pc, io_1_traps, io_2_traps, behind, ioTrapType, i, newRand >>

Next == Allocate \/ InitializeData \/ Draw \/ Raise \/ RunOff \/ Store \/ PCB_assign_PID

Spec == Init /\ [][Next]_vars

(* One thread, which waits for nothing; whether another PCB is asked for   *)
(* is up to the caller.                                                    *)
LiveSpec == Spec /\ WF_vars(InitializeData \/ Draw \/ Raise \/ RunOff \/ Store \/ PCB_assign_PID)

-----------------------------------------------------------------------------
(* makeMaxPC never gives a process fewer PCs than SMALLEST_PC_POSSIBLE,    *)
(* nor more than LARGEST_PC_POSSIBLE: populateIOTraps takes a remainder by *)
(* max_pc, which would divide by 0.                                        *)
MaxPcInRange == max_pc \in SMALLEST_PC_POSSIBLE .. LARGEST_PC_POSSIBLE - 1

(* The different words of the memory that a PC can be raised for.          *)
Words == {Memory[k] : k \in 1 .. Len(Memory)} \ {-1, 0}

(* populateIOTraps keeps no PC it raises below max_pc, but the search does *)
(* not run away: each different word in the memory, stale traps and words  *)
(* behind the PCB included, raises the PC once, in whatever order and from *)
(* whichever array the scans meet it.                                      *)
ProbeBounded == at = "probe" => newRand < max_pc + Cardinality(Words)

(* The search ends: PCB_create returns, unless a scan meets no 0 in the    *)
(* memory.                                                                 *)
CreateReturns == []<>(at \in {"idle", "beyond"})

(* populateIOTraps' comment (pcb.c:54-55): a new trap is "not within the   *)
(* two lists".  ioTrapContains never finds a trap 0, nor the traps behind  *)
(* a 0.                                                                    *)
TrapsDistinct ==
  at = "assign" =>
    \A j, k \in 1 .. 2 * TRAP_COUNT : Memory[j] = Memory[k] => j = k
=============================================================================
