----------------------------- MODULE MLFQProofs -----------------------------
(***************************************************************************)
(* Lemmas about the queues of MLFQ.tla: what appending, taking the head    *)
(* and concatenating do to the set of PCBs on a queue and to the absence   *)
(* of duplicates, and what pq_enqueue and pq_dequeue do to the MLFQ.       *)
(***************************************************************************)
EXTENDS MLFQ, SequenceTheorems, FiniteSetTheorems, WellFoundedInduction, TLAPS

(* A non-empty set of levels has a least element: the scans of             *)
(* priority_queue.c stop.  Among the sets of the levels of T up to a level *)
(* of T, which are finite, one is minimal for inclusion.                   *)
LEMMA LeastLevel ==
  ASSUME NEW T \in SUBSET Level, T # {}
  PROVE  \E m \in T : \A j \in T : m <= j
<1> DEFINE UpTo(m) == {j \in T : j <= m}
           F == {UpTo(m) : m \in T}
<1>1. NUM_PRIORITIES - 1 \in Int
  BY MLFQAssumption
<1>2. IsFiniteSet(T)
  <2>1. IsFiniteSet(Level)
    BY <1>1, FS_Interval DEF Level
  <2> QED
    BY <2>1, FS_Subset
<1>3. F \subseteq FiniteSubsetsOf(T)
  BY <1>2, FS_FiniteSubsetsOfFinite
<1>4. F # {}
  OBVIOUS
<1>5. PICK X \in F : \A Y \in F : ~ (<<Y, X>> \in StrictSubsetOrdering(T))
  <2> HIDE DEF F
  <2> QED
    BY <1>3, <1>4, FS_StrictSubsetOrderingWellFounded, WFMin
<1>6. PICK m \in T : X = UpTo(m)
  OBVIOUS
<1>7. ASSUME NEW j \in T PROVE m <= j
  <2>1. T \subseteq Int
    BY <1>1 DEF Level
  <2>2. SUFFICES ASSUME j < m PROVE FALSE
    BY <2>1
  <2>3. /\ \A i \in UpTo(j) : i \in UpTo(m)
        /\ m \in UpTo(m)
        /\ m \notin UpTo(j)
    BY <2>1, <2>2
  <2>4. <<UpTo(j), UpTo(m)>> \in StrictSubsetOrdering(T)
    BY <2>3 DEF StrictSubsetOrdering
  <2> QED
    BY <2>4, <1>5, <1>6
<1> QED
  BY <1>7

(* pq_peek, pq_dequeue and getNextQuantumSize stop at the most urgent      *)
(* level that is not empty.                                                *)
LEMMA TopLevelIsFirst ==
  ASSUME NEW q, ~ pq_is_empty(q)
  PROVE  /\ TopLevel(q) \in Level
         /\ q[TopLevel(q)] # << >>
         /\ \A j \in Level : j < TopLevel(q) => q[j] = << >>
<1> DEFINE T == {i \in Level : q[i] # << >>}
<1>1. T # {} /\ T \in SUBSET Level
  BY DEF pq_is_empty
<1>2. PICK m \in T : \A j \in T : m <= j
  <2> HIDE DEF T
  <2> QED
    BY <1>1, LeastLevel
<1>3. \A j \in Level : j < m => q[j] = << >>
  BY <1>2, MLFQAssumption DEF Level
<1>4. \E i \in Level : q[i] # << >> /\ \A j \in Level : j < i => q[j] = << >>
  BY <1>3
<1> QED
  BY <1>4 DEF TopLevel

-----------------------------------------------------------------------------
(* A sequence that gets a new last element holds that element besides.     *)
LEMMA AppendRange ==
  ASSUME NEW S, NEW s \in Seq(S), NEW x \in S
  PROVE  /\ Append(s, x) \in Seq(S)
         /\ Range(Append(s, x)) = Range(s) \cup {x}
         /\ IsInjective(s) /\ x \notin Range(s) => IsInjective(Append(s, x))
<1>1. /\ Append(s, x) \in Seq(S)
      /\ Len(Append(s, x)) = Len(s) + 1
      /\ \A i \in 1 .. Len(s) : Append(s, x)[i] = s[i]
      /\ Append(s, x)[Len(s) + 1] = x
      /\ DOMAIN Append(s, x) = 1 .. Len(s) + 1
      /\ DOMAIN s = 1 .. Len(s)
      /\ Len(s) \in Nat
  BY AppendProperties, LenProperties
<1>2. Range(Append(s, x)) = Range(s) \cup {x}
  BY <1>1 DEF Range
<1>3. ASSUME IsInjective(s), x \notin Range(s) PROVE IsInjective(Append(s, x))
  BY <1>1, <1>3 DEF Range, IsInjective
<1> QED
  BY <1>1, <1>2, <1>3

(* Taking the head off a queue without duplicates removes just that PCB.   *)
LEMMA TailRange ==
  ASSUME NEW S, NEW s \in Seq(S), s # << >>
  PROVE  /\ Tail(s) \in Seq(S)
         /\ Head(s) \in Range(s)
         /\ Range(Tail(s)) \subseteq Range(s)
         /\ IsInjective(s) => /\ IsInjective(Tail(s))
                              /\ Range(Tail(s)) = Range(s) \ {Head(s)}
<1>1. /\ Tail(s) \in Seq(S)
      /\ Len(Tail(s)) = Len(s) - 1
      /\ \A i \in 1 .. Len(s) - 1 : Tail(s)[i] = s[i + 1]
      /\ Head(s) = s[1]
      /\ DOMAIN Tail(s) = 1 .. Len(s) - 1
      /\ DOMAIN s = 1 .. Len(s)
      /\ Len(s) \in Nat \ {0}
  BY HeadTailProperties, LenProperties, EmptySeq
<1>2. Head(s) \in Range(s) /\ Range(Tail(s)) \subseteq Range(s)
  BY <1>1 DEF Range
<1>3. ASSUME IsInjective(s)
      PROVE  IsInjective(Tail(s)) /\ Range(Tail(s)) = Range(s) \ {Head(s)}
  <2>1. IsInjective(Tail(s))
    BY <1>1, <1>3 DEF IsInjective
  <2>2. Head(s) \notin Range(Tail(s))
    BY <1>1, <1>3 DEF IsInjective, Range
  <2>3. ASSUME NEW x \in Range(s), x # Head(s) PROVE x \in Range(Tail(s))
    <3>1. PICK i \in 1 .. Len(s) : x = s[i]
      BY <1>1 DEF Range
    <3>2. i - 1 \in 1 .. Len(s) - 1 /\ Tail(s)[i - 1] = x
      BY <3>1, <2>3, <1>1
    <3> QED
      BY <3>2, <1>1 DEF Range
  <2> QED
    BY <1>2, <2>1, <2>2, <2>3
<1> QED
  BY <1>1, <1>2, <1>3

(* Two queues put one after the other hold what both held.                 *)
LEMMA ConcatRange ==
  ASSUME NEW S, NEW s \in Seq(S), NEW t \in Seq(S)
  PROVE  /\ s \o t \in Seq(S)
         /\ Range(s \o t) = Range(s) \cup Range(t)
         /\ /\ IsInjective(s) /\ IsInjective(t)
            /\ Range(s) \cap Range(t) = {}
            => IsInjective(s \o t)
<1>1. /\ s \o t \in Seq(S)
      /\ Len(s \o t) = Len(s) + Len(t)
      /\ \A i \in 1 .. Len(s \o t) :
           (s \o t)[i] = IF i <= Len(s) THEN s[i] ELSE t[i - Len(s)]
      /\ DOMAIN (s \o t) = 1 .. Len(s) + Len(t)
      /\ DOMAIN s = 1 .. Len(s)
      /\ DOMAIN t = 1 .. Len(t)
      /\ Len(s) \in Nat
      /\ Len(t) \in Nat
  BY ConcatProperties, LenProperties
<1> DEFINE c == s \o t
<1>2. Range(c) \subseteq Range(s) \cup Range(t)
  BY <1>1 DEF Range
<1>3. Range(s) \subseteq Range(c)
  BY <1>1 DEF Range
<1>4. ASSUME NEW x \in Range(t) PROVE x \in Range(c)
  <2>1. PICK i \in 1 .. Len(t) : x = t[i]
    BY <1>1 DEF Range
  <2>2. /\ Len(s) + i \in 1 .. Len(s) + Len(t)
        /\ c[Len(s) + i] = x
    BY <2>1, <1>1
  <2> QED
    BY <2>2, <1>1 DEF Range
<1>5. ASSUME IsInjective(s), IsInjective(t), Range(s) \cap Range(t) = {}
      PROVE  IsInjective(c)
  <2> SUFFICES ASSUME NEW i \in DOMAIN c, NEW j \in DOMAIN c, c[i] = c[j], i < j
               PROVE  FALSE
    BY <1>1 DEF IsInjective
  <2>1. CASE j <= Len(s)
    BY <2>1, <1>1, <1>5 DEF IsInjective
  <2>2. CASE i <= Len(s) /\ j > Len(s)
    <3>1. c[i] \in Range(s)
      BY <2>2, <1>1 DEF Range
    <3>2. j - Len(s) \in 1 .. Len(t) /\ c[j] = t[j - Len(s)]
      BY <2>2, <1>1
    <3>3. c[j] \in Range(t)
      BY <3>2, <1>1 DEF Range
    <3> QED
      BY <3>1, <3>3, <1>5
  <2>3. CASE i > Len(s)
    <3>1. /\ i - Len(s) \in 1 .. Len(t) /\ c[i] = t[i - Len(s)]
          /\ j - Len(s) \in 1 .. Len(t) /\ c[j] = t[j - Len(s)]
      BY <2>3, <1>1
    <3>2. i - Len(s) = j - Len(s)
      BY <3>1, <1>1, <1>5 DEF IsInjective
    <3> QED
      BY <3>2, <1>1
  <2> QED
    BY <2>1, <2>2, <2>3, <1>1
<1> QED
  BY <1>1, <1>2, <1>3, <1>4, <1>5

-----------------------------------------------------------------------------
(* An MLFQ of PCBs of S, none of which is on it twice.                     *)
Sound(q, S) ==
  /\ q \in [Level -> Seq(S)]
  /\ \A l \in Level : IsInjective(q[l])
  /\ \A l, m \in Level : l # m => Range(q[l]) \cap Range(q[m]) = {}

(* A PCB is on the MLFQ exactly when it is on one of its levels.           *)
LEMMA InMembers ==
  ASSUME NEW q
  PROVE  \A x : x \in Members(q) <=> \E l \in Level : x \in Range(q[l])
BY DEF Members

(* The empty MLFQ is sound.                                                *)
LEMMA CreateSound ==
  ASSUME NEW S
  PROVE  Sound(pq_create, S) /\ Members(pq_create) = {}
<1>1. Range(<< >>) = {} /\ IsInjective(<< >>) /\ << >> \in Seq(S)
  BY EmptySeq DEF Range, IsInjective
<1> QED
  BY <1>1 DEF Sound, Members, pq_create

(* The PCBs on a sound MLFQ are PCBs of S, and an MLFQ with a member is    *)
(* not empty.                                                              *)
LEMMA MembersSubset ==
  ASSUME NEW S, NEW q, Sound(q, S)
  PROVE  /\ Members(q) \subseteq S
         /\ Members(q) # {} => ~ pq_is_empty(q)
<1>1. ASSUME NEW l \in Level PROVE Range(q[l]) \subseteq S
  BY LenProperties DEF Sound, Range
<1>2. Range(<< >>) = {}
  BY DEF Range
<1> QED
  BY <1>1, <1>2 DEF Members, pq_is_empty

(* pq_enqueue adds the PCB to its level and changes nothing else.          *)
LEMMA EnqueueSound ==
  ASSUME NEW S, NEW q, Sound(q, S), NEW l \in Level, NEW p \in S, p \notin Members(q)
  PROVE  /\ Sound(pq_enqueue(q, l, p), S)
         /\ Members(pq_enqueue(q, l, p)) = Members(q) \cup {p}
         /\ ~ pq_is_empty(pq_enqueue(q, l, p))
         /\ \A m \in Level : Range(pq_enqueue(q, l, p)[m]) =
                              IF m = l THEN Range(q[m]) \cup {p} ELSE Range(q[m])
<1> DEFINE r == pq_enqueue(q, l, p)
<1>1. /\ q[l] \in Seq(S)
      /\ p \notin Range(q[l])
      /\ IsInjective(q[l])
  BY DEF Sound, Members
<1>2. /\ r[l] \in Seq(S)
      /\ Range(r[l]) = Range(q[l]) \cup {p}
      /\ IsInjective(r[l])
  BY <1>1, AppendRange DEF pq_enqueue, q_enqueue, Sound
<1>3. \A m \in Level : m # l => r[m] = q[m]
  BY DEF pq_enqueue, q_enqueue, Sound
<1>4. r \in [Level -> Seq(S)]
  BY <1>2, <1>3 DEF pq_enqueue, q_enqueue, Sound
<1> HIDE DEF r
<1>5. \A m \in Level : Range(r[m]) = IF m = l THEN Range(q[m]) \cup {p} ELSE Range(q[m])
  BY <1>2, <1>3
<1>6. Members(r) = Members(q) \cup {p}
  BY <1>5, InMembers
<1>7. Sound(r, S)
  <2>1. \A m \in Level : IsInjective(r[m])
    BY <1>2, <1>3 DEF Sound
  <2>2. \A m \in Level : p \notin Range(q[m])
    BY InMembers
  <2>3. \A m, n \in Level : m # n => Range(r[m]) \cap Range(r[n]) = {}
    BY <1>5, <2>2 DEF Sound
  <2> QED
    BY <1>4, <2>1, <2>3 DEF Sound
<1> QED
  BY <1>5, <1>6, <1>7, MembersSubset DEF r

(* pq_peek names, and pq_dequeue removes, a PCB of the top level.          *)
LEMMA DequeueSound ==
  ASSUME NEW S, NEW q, Sound(q, S), ~ pq_is_empty(q)
  PROVE  /\ pq_peek(q) \in Members(q)
         /\ TopLevel(q) \in Level
         /\ pq_peek(q) \in Range(q[TopLevel(q)])
         /\ Sound(pq_dequeue(q), S)
         /\ Members(pq_dequeue(q)) = Members(q) \ {pq_peek(q)}
         /\ \A m \in Level : Range(pq_dequeue(q)[m]) = Range(q[m]) \ {pq_peek(q)}
<1> DEFINE t == TopLevel(q)
           h == pq_peek(q)
           r == pq_dequeue(q)
<1>1. t \in Level /\ q[t] # << >>
  BY TopLevelIsFirst
<1> HIDE DEF t
<1>2. h = Head(q[t]) /\ r = [q EXCEPT ![t] = Tail(q[t])]
  BY DEF pq_peek, pq_dequeue, t
<1>3. q[t] \in Seq(S) /\ IsInjective(q[t])
  BY <1>1 DEF Sound
<1>4. /\ h \in Range(q[t])
      /\ r[t] \in Seq(S)
      /\ IsInjective(r[t])
      /\ Range(r[t]) = Range(q[t]) \ {h}
  BY <1>1, <1>2, <1>3, TailRange DEF Sound
<1>5. \A m \in Level : m # t => r[m] = q[m]
  BY <1>2 DEF Sound
<1>6. r \in [Level -> Seq(S)]
  BY <1>1, <1>2, <1>4 DEF Sound
<1> HIDE DEF r, h
<1>7. \A m \in Level : m # t => h \notin Range(q[m])
  BY <1>1, <1>4 DEF Sound
<1>8. \A m \in Level : Range(r[m]) = Range(q[m]) \ {h}
  BY <1>4, <1>5, <1>7
<1>9. Sound(r, S)
  <2>1. \A m \in Level : IsInjective(r[m])
    BY <1>4, <1>5 DEF Sound
  <2>2. \A m, n \in Level : m # n => Range(r[m]) \cap Range(r[n]) = {}
    BY <1>8 DEF Sound
  <2> QED
    BY <1>6, <2>1, <2>2 DEF Sound
<1>10. h \in Members(q) /\ Members(r) = Members(q) \ {h}
  <2>1. \A x : x \in Members(r) <=> \E m \in Level : x \in Range(r[m])
    BY InMembers
  <2>2. \A x : x \in Members(q) <=> \E m \in Level : x \in Range(q[m])
    BY InMembers
  <2>3. h \in Members(q)
    BY <2>2, <1>1, <1>4
  <2>4. \A x : x \in Members(r) <=> x \in Members(q) /\ x # h
    BY <2>1, <2>2, <1>8
  <2> QED
    BY <2>3, <2>4
<1> QED
  BY <1>1, <1>4, <1>8, <1>9, <1>10 DEF t, r, h

(* The MLFQ q with the PCBs s behind those of level 0.                     *)
WithRound(q, s) == [q EXCEPT ![0] = @ \o s]

(* A sequence of PCBs that are not on the MLFQ can be put behind those of  *)
(* level 0, as makePCBList does.                                           *)
LEMMA AppendRoundSound ==
  ASSUME NEW S, NEW q, Sound(q, S),
         NEW s \in Seq(S), IsInjective(s), Range(s) \cap Members(q) = {}
  PROVE  Sound(WithRound(q, s), S) /\ Members(WithRound(q, s)) = Members(q) \cup Range(s)
<1> DEFINE l == 0
           r == WithRound(q, s)
<1>0. /\ l \in Level
      /\ r \in [Level -> Seq(S)]
      /\ r[l] = q[l] \o s
      /\ \A m \in Level \ {l} : r[m] = q[m]
  <2>1. 0 \in Level
    BY MLFQAssumption DEF Level
  <2>2. q \in [Level -> Seq(S)] /\ q[0] \in Seq(S)
    BY <2>1 DEF Sound
  <2>3. q[0] \o s \in Seq(S)
    BY <2>2, ConcatProperties
  <2>4. r = [q EXCEPT ![0] = q[0] \o s]
    BY DEF WithRound
  <2> HIDE DEF r
  <2>5. r \in [Level -> Seq(S)]
    BY <2>2, <2>3, <2>4
  <2>6. r[0] = q[0] \o s
    BY <2>1, <2>2, <2>4
  <2>7. \A m \in Level \ {0} : r[m] = q[m]
    BY <2>2, <2>4
  <2> QED
    BY <2>1, <2>5, <2>6, <2>7
<1> HIDE DEF l, r
<1>1. \A m \in Level : Range(q[m]) \cap Range(s) = {}
  BY <1>0, InMembers
<1>2. /\ Range(r[l]) = Range(q[l]) \cup Range(s)
      /\ IsInjective(r[l])
  <2>1. q[l] \in Seq(S) /\ IsInjective(q[l]) /\ Range(q[l]) \cap Range(s) = {}
    BY <1>0, <1>1 DEF Sound
  <2> QED
    BY <1>0, <2>1, ConcatRange
<1>3. \A m \in Level : Range(r[m]) = IF m = l THEN Range(q[m]) \cup Range(s) ELSE Range(q[m])
  BY <1>0, <1>2
<1>4. Members(r) = Members(q) \cup Range(s)
  <2>1. \A x : x \in Members(r) <=> \E m \in Level : x \in Range(r[m])
    BY InMembers
  <2>2. \A x : x \in Members(q) <=> \E m \in Level : x \in Range(q[m])
    BY InMembers
  <2>3. \A x : x \in Members(r) <=> x \in Members(q) \/ x \in Range(s)
    BY <1>0, <2>1, <2>2, <1>3
  <2> QED
    BY <2>3
<1>5. \A m \in Level : IsInjective(r[m])
  BY <1>0, <1>2 DEF Sound
<1>6. \A m, n \in Level : m # n => Range(r[m]) \cap Range(r[n]) = {}
  BY <1>1, <1>3 DEF Sound
<1>7. Sound(r, S)
  BY <1>0, <1>5, <1>6 DEF Sound
<1> QED
  BY <1>4, <1>7 DEF r

(* The PIDs t, t + 1, ... that makePCBList gives to n new PCBs, in order.  *)
LEMMA PidsInOrder ==
  ASSUME NEW S, NEW t \in Nat, NEW n \in Nat, t .. t + n - 1 \subseteq S
  PROVE  /\ [i \in 1 .. n |-> t + i - 1] \in Seq(S)
         /\ IsInjective([i \in 1 .. n |-> t + i - 1])
         /\ Range([i \in 1 .. n |-> t + i - 1]) = t .. t + n - 1
<1> DEFINE s == [i \in 1 .. n |-> t + i - 1]
<1>1. \A i \in 1 .. n : t + i - 1 \in t .. t + n - 1
  OBVIOUS
<1>2. s \in Seq(S) /\ DOMAIN s = 1 .. n
  BY <1>1
<1>3. IsInjective(s)
  BY DEF IsInjective
<1>4. Range(s) = t .. t + n - 1
  <2>1. Range(s) \subseteq t .. t + n - 1
    BY <1>1 DEF Range
  <2>2. ASSUME NEW p \in t .. t + n - 1 PROVE p \in Range(s)
    <3>1. p - t + 1 \in 1 .. n /\ s[p - t + 1] = p
      OBVIOUS
    <3> QED
      BY <3>1 DEF Range
  <2> QED
    BY <2>1, <2>2
<1> QED
  BY <1>2, <1>3, <1>4

(* One round of resetMLFQ moves the PCBs of a level to level 0.            *)
LEMMA MoveLevelSound ==
  ASSUME NEW S, NEW q, Sound(q, S), NEW l \in Level, l # 0
  PROVE  LET r == [q EXCEPT ![0] = @ \o q[l], ![l] = << >>] IN
         /\ Sound(r, S)
         /\ Members(r) = Members(q)
         /\ \A m \in Level : Range(r[m]) = IF m = 0 THEN Range(q[0]) \cup Range(q[l])
                                           ELSE IF m = l THEN {} ELSE Range(q[m])
<1> DEFINE r == [q EXCEPT ![0] = q[0] \o q[l], ![l] = << >>]
<1>0. 0 \in Level
  BY MLFQAssumption DEF Level
<1>1. /\ q[0] \in Seq(S) /\ IsInjective(q[0])
      /\ q[l] \in Seq(S) /\ IsInjective(q[l])
      /\ Range(q[0]) \cap Range(q[l]) = {}
  BY <1>0 DEF Sound
<1>2. /\ r[0] \in Seq(S)
      /\ Range(r[0]) = Range(q[0]) \cup Range(q[l])
      /\ IsInjective(r[0])
  <2>1. r[0] = q[0] \o q[l]
    BY <1>0 DEF Sound
  <2> HIDE DEF r
  <2> QED
    BY <2>1, <1>1, ConcatRange
<1>3. r[l] \in Seq(S) /\ Range(r[l]) = {} /\ IsInjective(r[l])
  BY EmptySeq DEF Sound, Range, IsInjective
<1>4. \A m \in Level : m # l /\ m # 0 => r[m] = q[m]
  BY DEF Sound
<1>5. r \in [Level -> Seq(S)]
  BY <1>2, <1>3, <1>4 DEF Sound
<1> HIDE DEF r
<1>6. \A m \in Level : Range(r[m]) = IF m = 0 THEN Range(q[0]) \cup Range(q[l])
                                     ELSE IF m = l THEN {} ELSE Range(q[m])
  BY <1>2, <1>3, <1>4
<1>7. Members(r) = Members(q)
  BY <1>0, <1>6, InMembers
<1>8. \A m \in Level : IsInjective(r[m])
  BY <1>2, <1>3, <1>4 DEF Sound
<1>9. \A m, n \in Level : m # n => Range(r[m]) \cap Range(r[n]) = {}
  <2> SUFFICES ASSUME NEW m \in Level, NEW n \in Level, m # n
               PROVE  Range(r[m]) \cap Range(r[n]) = {}
    OBVIOUS
  <2>1. \A i, j \in Level : i # j => Range(q[i]) \cap Range(q[j]) = {}
    BY DEF Sound
  <2> QED
    BY <2>1, <1>0, <1>6
<1> QED
  BY <1>5, <1>6, <1>7, <1>8, <1>9 DEF Sound, r
=============================================================================
