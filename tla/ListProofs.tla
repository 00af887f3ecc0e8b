----------------------------- MODULE ListProofs -----------------------------
(***************************************************************************)
(* The linked lists of fifo_queue.c and priority_queue.c hold what they    *)
(* should, for any number of nodes, processes and levels, whether malloc   *)
(* fails or not.  The module comes in four parts:                          *)
(*   - sequences, walks and chains: Chain and Contents are what a function *)
(*     c from queues to their sequences of nodes says (Wired, Linked);     *)
(*   - the operations: q_enqueue, q_dequeue, the splice of resetMLFQ and   *)
(*     the loop that empties the killed queue keep the lists sound (Sound) *)
(*     and do to their contents what MLFQ and AbstractQueues say;          *)
(*   - the system: ListInv is inductive, and each handler is the step of   *)
(*     AbstractQueues of the same name (ListsAlways, ListsImplement);      *)
(*   - the teardown: TeardownInv is inductive; schedulerDeconstructor      *)
(*     releases all there is, and nothing twice.                           *)
(***************************************************************************)
EXTENDS Teardown, SequenceTheorems, FiniteSetTheorems, WellFoundedInduction, TLAPS

(* The lemmas about sequences, with the constants of the lists.            *)
MLFQ == INSTANCE MLFQProofs

-----------------------------------------------------------------------------
(* Induction over the numbers up to n, and over the levels, is induction   *)
(* over sets here: a set that has 0 and is closed under the successor has  *)
(* all of them.                                                            *)

(* A non-empty set of numbers up to n has a least element.                 *)
LEMMA LeastOf ==
  ASSUME NEW n \in Nat, NEW T \in SUBSET (0 .. n), T # {}
  PROVE  \E least \in T : \A j \in T : least <= j
<1> DEFINE UpTo(k) == {j \in T : j <= k}
           F == {UpTo(k) : k \in T}
<1>1. IsFiniteSet(T)
  <2>1. IsFiniteSet(0 .. n)
    BY FS_Interval
  <2> QED
    BY <2>1, FS_Subset
<1>2. F \subseteq FiniteSubsetsOf(T) /\ F # {}
  <2>1. F \subseteq SUBSET T
    OBVIOUS
  <2>2. F # {}
    OBVIOUS
  <2> QED
    BY <1>1, <2>1, <2>2, FS_FiniteSubsetsOfFinite
<1>3. PICK X \in F : \A Y \in F : ~ (<<Y, X>> \in StrictSubsetOrdering(T))
  <2> HIDE DEF F
  <2> QED
    BY <1>2, FS_StrictSubsetOrderingWellFounded, WFMin
<1>4. PICK least \in T : X = UpTo(least)
  OBVIOUS
<1>5. ASSUME NEW j \in T PROVE least <= j
  <2>1. SUFFICES ASSUME j < least PROVE FALSE
    OBVIOUS
  <2>2. <<UpTo(j), UpTo(least)>> \in StrictSubsetOrdering(T)
    <3>1. /\ \A i \in UpTo(j) : i \in UpTo(least)
          /\ least \in UpTo(least)
          /\ least \notin UpTo(j)
      BY <2>1
    <3> QED
      BY <3>1 DEF StrictSubsetOrdering
  <2> QED
    BY <2>2, <1>3, <1>4
<1> QED
  BY <1>5

(* A set with 0 and the successor of each of its numbers below n has all   *)
(* numbers up to n.                                                        *)
LEMMA Reaches ==
  ASSUME NEW n \in Nat, NEW S, 0 \in S, \A k \in 0 .. n - 1 : k \in S => k + 1 \in S
  PROVE  \A k \in 0 .. n : k \in S
<1> DEFINE T == {k \in 0 .. n : k \notin S}
<1>1. SUFFICES ASSUME T # {} PROVE FALSE
  OBVIOUS
<1>2. PICK least \in T : \A j \in T : least <= j
  <2>1. T \in SUBSET (0 .. n)
    OBVIOUS
  <2> HIDE DEF T
  <2> QED
    BY <1>1, <2>1, LeastOf
<1>3. least - 1 \in 0 .. n - 1 /\ least - 1 \notin T
  BY <1>2
<1> QED
  BY <1>2, <1>3

-----------------------------------------------------------------------------
(* The memory of the lists, as TypeOK has it.                              *)
Memory ==
  [ first_node : [Queue -> Node \cup {NULL}],
    last_node : [Queue -> Node \cup {NULL}],
    size : [Queue -> Nat],
    quantum_size : [Queue -> Nat],
    next : [Node -> Node \cup {NULL}],
    pcb : [Node -> PCB \cup {NULL}],
    allocated : SUBSET Node ]

(* The list of q runs through the nodes of s, in their order.              *)
Follows(m, q, s) ==
  /\ m.size[q] = Len(s)
  /\ s = << >> => m.first_node[q] = NULL /\ m.last_node[q] = NULL
  /\ s # << >> => /\ m.first_node[q] = s[1]
                  /\ m.last_node[q] = s[Len(s)]
                  /\ m.next[s[Len(s)]] = NULL
  /\ \A i \in 1 .. Len(s) - 1 : m.next[s[i]] = s[i + 1]

(* The nodes of the queues, when c has the nodes of each queue in order.   *)
NodesOf(c) == UNION {Range(c[q]) : q \in Queue}

(* The lists run through the nodes of c, none of which is on them twice.   *)
Wired(m, c) ==
  /\ c \in [Queue -> Seq(Node)]
  /\ \A q \in Queue : Follows(m, q, c[q]) /\ IsInjective(c[q])
  /\ \A q, r \in Queue : q # r => Range(c[q]) \cap Range(c[r]) = {}

(* Besides, the nodes on the lists are those in use.                       *)
Linked(m, c) == Wired(m, c) /\ m.allocated = NodesOf(c)

(* The function g takes k to the node k links behind a, as in Chain.       *)
Walk(g, n, a, nx) ==
  g = [k \in 0 .. n |-> IF k = 0 THEN a
                        ELSE IF g[k - 1] = NULL THEN NULL ELSE nx[g[k - 1]]]

(* A walk is determined by where it starts and where each step leads.      *)
LEMMA WalkUnique ==
  ASSUME NEW n \in Nat, NEW a, NEW nx, NEW T, NEW w \in [0 .. n -> T],
         w[0] = a,
         \A k \in 0 .. n - 1 : w[k + 1] = IF w[k] = NULL THEN NULL ELSE nx[w[k]]
  PROVE  Walk(w, n, a, nx) /\ \A g : Walk(g, n, a, nx) => g = w
<1> DEFINE Step(g, k) == IF k = 0 THEN a
                         ELSE IF g[k - 1] = NULL THEN NULL ELSE nx[g[k - 1]]
<1>0. \A g : Walk(g, n, a, nx) <=> g = [k \in 0 .. n |-> Step(g, k)]
  BY DEF Walk
<1>1. Walk(w, n, a, nx)
  <2>1. ASSUME NEW k \in 0 .. n PROVE w[k] = Step(w, k)
    <3>1. CASE k = 0
      BY <3>1
    <3>2. CASE k # 0
      <4>1. k - 1 \in 0 .. n - 1 /\ (k - 1) + 1 = k
        BY <3>2
      <4> QED
        BY <4>1, <3>2
    <3> QED
      BY <3>1, <3>2
  <2> HIDE DEF Step
  <2> QED
    BY <2>1, <1>0
<1>2. ASSUME NEW g, Walk(g, n, a, nx) PROVE g = w
  <2>1. /\ g = [k \in 0 .. n |-> g[k]]
        /\ \A k \in 0 .. n : g[k] = Step(g, k)
    <3> HIDE DEF Step
    <3> QED
      BY <1>0, <1>2
  <2> DEFINE S == {k \in 0 .. n : g[k] = w[k]}
  <2>2. 0 \in S
    <3>1. 0 \in 0 .. n
      OBVIOUS
    <3>2. g[0] = a
      BY <3>1, <2>1
    <3> QED
      BY <3>1, <3>2
  <2>3. ASSUME NEW k \in 0 .. n - 1, k \in S PROVE k + 1 \in S
    <3>1. k + 1 \in 0 .. n /\ k + 1 # 0 /\ (k + 1) - 1 = k
      OBVIOUS
    <3>2. g[k + 1] = IF g[k] = NULL THEN NULL ELSE nx[g[k]]
      BY <3>1, <2>1
    <3> QED
      BY <3>1, <3>2, <2>3
  <2>4. \A k \in 0 .. n : k \in S
    <3> HIDE DEF S
    <3> QED
      BY <2>2, <2>3, Reaches
  <2>5. [k \in 0 .. n |-> g[k]] = [k \in 0 .. n |-> w[k]]
    BY <2>4
  <2> QED
    BY <2>1, <2>5
<1> QED
  BY <1>1, <1>2

(* There are no more nodes on a list than there is memory.                 *)
LEMMA NodesCounted ==
  ASSUME NEW s \in Seq(Node), IsInjective(s)
  PROVE  /\ Cardinality(Node) \in Nat /\ Len(s) \in Nat /\ Len(s) <= Cardinality(Node)
         /\ \A i \in 1 .. Len(s) : s[i] \in Node
         /\ s \in [1 .. Len(s) -> Node]
<1>1. Len(s) \in Nat /\ s \in [1 .. Len(s) -> Node] /\ DOMAIN s = 1 .. Len(s)
  BY LenProperties
<1>2. s \in Injection(1 .. Len(s), Node)
  BY <1>1 DEF Injection, IsInjective
<1>3. Cardinality(1 .. Len(s)) = Len(s)
  BY <1>1, FS_Interval
<1>4. Cardinality(1 .. Len(s)) <= Cardinality(Node)
  BY <1>2, FS_Injection, FifoQueueAssumption
<1>5. Cardinality(Node) \in Nat
  BY FS_CardinalityType, FifoQueueAssumption
<1> QED
  BY <1>1, <1>3, <1>4, <1>5

(* The walk from first_node meets the nodes of s and stops behind them.    *)
LEMMA ChainIs ==
  ASSUME NEW m \in Memory, NEW q \in Queue,
         NEW s \in Seq(Node), IsInjective(s), Follows(m, q, s)
  PROVE  Chain(m, q) = s
<1> DEFINE n == Cardinality(Node)
           a == m.first_node[q]
           nx == m.next
           node == CHOOSE g : Walk(g, n, a, nx)
           length == Cardinality({k \in DOMAIN node : node[k] # NULL})
           w == [k \in 0 .. n |-> IF k < Len(s) THEN s[k + 1] ELSE NULL]
<1>1. Chain(m, q) = [k \in 1 .. length |-> node[k - 1]]
  BY DEF Chain, Walk
<1>2. /\ n \in Nat /\ Len(s) \in Nat /\ Len(s) <= n
      /\ \A i \in 1 .. Len(s) : s[i] \in Node
      /\ s \in [1 .. Len(s) -> Node]
  BY NodesCounted
<1> HIDE DEF n, a, nx
<1>3. /\ s = << >> => a = NULL
      /\ s # << >> => Len(s) > 0 /\ a = s[1] /\ nx[s[Len(s)]] = NULL
      /\ \A i \in 1 .. Len(s) - 1 : nx[s[i]] = s[i + 1]
      /\ s = << >> => Len(s) = 0
  BY EmptySeq DEF Follows, a, nx
<1>4. w[0] = a
  BY <1>2, <1>3
<1>5. ASSUME NEW k \in 0 .. n - 1
      PROVE  w[k + 1] = IF w[k] = NULL THEN NULL ELSE nx[w[k]]
  <2>1. CASE k + 1 < Len(s)
    BY <2>1, <1>2, <1>3, FifoQueueAssumption
  <2>2. CASE k + 1 = Len(s)
    BY <2>2, <1>2, <1>3, FifoQueueAssumption
  <2>3. CASE k + 1 > Len(s)
    BY <2>3, <1>2
  <2> QED
    BY <2>1, <2>2, <2>3, <1>2
<1>6. node = w
  <2>1. w \in [0 .. n -> Node \cup {NULL}]
    BY <1>2
  <2> HIDE DEF w
  <2>2. Walk(w, n, a, nx) /\ \A g : Walk(g, n, a, nx) => g = w
    BY <2>1, <1>2, <1>4, <1>5, WalkUnique
  <2> QED
    BY <2>2
<1>7. length = Len(s)
  <2>1. {k \in DOMAIN w : w[k] # NULL} = 0 .. Len(s) - 1
    BY <1>2, FifoQueueAssumption
  <2>2. Cardinality(0 .. Len(s) - 1) = Len(s)
    <3>1. 0 \in Int /\ Len(s) - 1 \in Int
      BY <1>2
    <3>2. Cardinality(0 .. Len(s) - 1) = IF 0 > Len(s) - 1 THEN 0 ELSE (Len(s) - 1) - 0 + 1
      BY <3>1, FS_Interval
    <3> QED
      BY <3>2, <1>2
  <2> HIDE DEF node, w
  <2> QED
    BY <2>1, <2>2, <1>6
<1>8. [k \in 1 .. Len(s) |-> w[k - 1]] = [k \in 1 .. Len(s) |-> s[k]]
  BY <1>2
<1> HIDE DEF node, length, w
<1> QED
  BY <1>1, <1>2, <1>6, <1>7, <1>8

-----------------------------------------------------------------------------
(* What MLFQProofs proves of sequences, for the sequences of nodes here.   *)
LEMMA SameNotions ==
  /\ MLFQ!MLFQAssumption
  /\ \A f : MLFQ!Range(f) = Range(f)
  /\ \A f : MLFQ!IsInjective(f) = IsInjective(f)
<1>1. MLFQ!MLFQAssumption
  BY LinkedQueuesAssumption DEF MLFQ!MLFQAssumption
<1> QED
  BY <1>1 DEF MLFQ!Range, Range, MLFQ!IsInjective, IsInjective

(* A sequence that gets a new last element.                                *)
LEMMA AppendRange ==
  ASSUME NEW S, NEW s \in Seq(S), NEW x \in S
  PROVE  /\ Append(s, x) \in Seq(S)
         /\ Range(Append(s, x)) = Range(s) \cup {x}
         /\ IsInjective(s) /\ x \notin Range(s) => IsInjective(Append(s, x))
BY MLFQ!AppendRange, SameNotions

(* A sequence without duplicates that loses its head.                      *)
LEMMA TailRange ==
  ASSUME NEW S, NEW s \in Seq(S), s # << >>
  PROVE  /\ Tail(s) \in Seq(S)
         /\ Head(s) \in Range(s)
         /\ IsInjective(s) => /\ IsInjective(Tail(s))
                              /\ Range(Tail(s)) = Range(s) \ {Head(s)}
BY MLFQ!TailRange, SameNotions

(* One sequence behind another.                                            *)
LEMMA ConcatRange ==
  ASSUME NEW S, NEW s \in Seq(S), NEW t \in Seq(S)
  PROVE  /\ s \o t \in Seq(S)
         /\ Range(s \o t) = Range(s) \cup Range(t)
         /\ /\ IsInjective(s) /\ IsInjective(t)
            /\ Range(s) \cap Range(t) = {}
            => IsInjective(s \o t)
BY MLFQ!ConcatRange, SameNotions

(* A non-empty sequence of nodes, its positions and its members.           *)
LEMMA SeqFacts ==
  ASSUME NEW S, NEW s \in Seq(S)
  PROVE  /\ Len(s) \in Nat
         /\ s = << >> <=> Len(s) = 0
         /\ DOMAIN s = 1 .. Len(s)
         /\ \A i \in 1 .. Len(s) : s[i] \in S /\ s[i] \in Range(s)
         /\ \A x \in Range(s) : x \in S /\ \E i \in 1 .. Len(s) : x = s[i]
         /\ s # << >> => Head(s) = s[1]
BY LenProperties, EmptySeq DEF Range

-----------------------------------------------------------------------------
(* The queues of a well-linked memory are the sequences of its nodes.      *)
LEMMA ChainsAre ==
  ASSUME NEW m \in Memory, NEW c, Wired(m, c)
  PROVE  \A q \in Queue : Chain(m, q) = c[q]
BY ChainIs DEF Wired

(* The PCBs of the nodes of s, in their order.                             *)
PcbsOf(m, s) == [k \in DOMAIN s |-> m.pcb[s[k]]]

(* The contents of a queue are the PCBs of its nodes.                      *)
LEMMA ContentsAre ==
  ASSUME NEW m \in Memory, NEW c, Wired(m, c)
  PROVE  \A q \in Queue : Contents(m, q) = PcbsOf(m, c[q])
BY ChainsAre DEF Contents, PcbsOf

(* A queue is empty exactly when it has no node.                           *)
LEMMA EmptyIs ==
  ASSUME NEW m, NEW c, Wired(m, c), NEW q \in Queue
  PROVE  /\ q_is_empty(m, q) <=> c[q] = << >>
         /\ c[q] # << >> => /\ m.first_node[q] = c[q][1]
                            /\ m.first_node[q] = Head(c[q])
                            /\ m.first_node[q] \in Range(c[q])
                            /\ m.first_node[q] \in Node
<1>1. c[q] \in Seq(Node) /\ Follows(m, q, c[q])
  BY DEF Wired
<1> QED
  BY <1>1, SeqFacts, FifoQueueAssumption DEF Follows, q_is_empty

(* The list of a queue is well linked if the memory agrees on it with      *)
(* another one in which it is.                                             *)
LEMMA FollowsSame ==
  ASSUME NEW m, NEW r, NEW q, NEW s \in Seq(Node), Follows(m, q, s),
         r.size[q] = m.size[q], r.first_node[q] = m.first_node[q],
         r.last_node[q] = m.last_node[q], \A n \in Range(s) : r.next[n] = m.next[n]
  PROVE  Follows(r, q, s)
<1>1. /\ Len(s) \in Nat
      /\ s # << >> => Len(s) \in 1 .. Len(s)
      /\ \A i \in 1 .. Len(s) : s[i] \in Range(s)
  BY SeqFacts
<1>2. \A i \in 1 .. Len(s) : r.next[s[i]] = m.next[s[i]]
  BY <1>1
<1> QED
  BY <1>1, <1>2 DEF Follows

-----------------------------------------------------------------------------
(* What q_enqueue writes when malloc succeeds: r is m with n behind the    *)
(* last node of q.                                                         *)
EnqueueWrites(m, q, p, n, r) ==
  /\ r \in Memory
  /\ r.first_node[q] = IF m.last_node[q] = NULL THEN n ELSE m.first_node[q]
  /\ r.last_node[q] = n
  /\ r.size[q] = m.size[q] + 1
  /\ \A x \in Queue : x # q => /\ r.first_node[x] = m.first_node[x]
                               /\ r.last_node[x] = m.last_node[x]
                               /\ r.size[x] = m.size[x]
  /\ r.next[n] = NULL
  /\ m.last_node[q] \notin {n, NULL} => r.next[m.last_node[q]] = n
  /\ \A x \in Node : x \notin {n, m.last_node[q]} => r.next[x] = m.next[x]
  /\ r.quantum_size = m.quantum_size
  /\ r.pcb = [m.pcb EXCEPT ![n] = p]
  /\ r.allocated = m.allocated \cup {n}

(* q_enqueue with a node of malloc writes exactly that.                    *)
LEMMA EnqueueFields ==
  ASSUME NEW m \in Memory, NEW q \in Queue, NEW p \in PCB, NEW n \in Node
  PROVE  EnqueueWrites(m, q, p, n, q_enqueue(m, q, p, n))
<1> DEFINE last == m.last_node[q]
           linked == Link(m, q, n)
           used == [linked EXCEPT !.allocated = @ \cup {n}]
           filled == [used EXCEPT !.pcb[n] = p]
           ended == [filled EXCEPT !.next[n] = NULL]
           counted == [ended EXCEPT !.size[q] = @ + 1]
<1>1. last \in Node \cup {NULL}
  BY DEF Memory
<1>2. /\ linked \in Memory
      /\ last = NULL => linked.first_node = [m.first_node EXCEPT ![q] = n] /\ linked.next = m.next
      /\ last # NULL => linked.first_node = m.first_node /\ linked.next = [m.next EXCEPT ![last] = n]
      /\ linked.last_node = [m.last_node EXCEPT ![q] = n]
      /\ linked.size = m.size
      /\ linked.quantum_size = m.quantum_size
      /\ linked.pcb = m.pcb
      /\ linked.allocated = m.allocated
  <2>1. CASE last = NULL
    BY <2>1 DEF Link, Memory
  <2>2. CASE last # NULL
    BY <2>2, <1>1 DEF Link, Memory
  <2> QED
    BY <2>1, <2>2
<1> HIDE DEF linked, last
<1>3. used \in Memory
  BY <1>2 DEF Memory
<1>4. filled \in Memory
  <2> HIDE DEF used
  <2> QED
    BY <1>3 DEF Memory
<1>5. ended \in Memory
  <2> HIDE DEF filled
  <2> QED
    BY <1>4 DEF Memory
<1>6. counted \in Memory
  <2> HIDE DEF ended
  <2> QED
    BY <1>5 DEF Memory
<1>7. q_enqueue(m, q, p, n) = counted
  BY FifoQueueAssumption DEF q_enqueue, linked
<1>8. /\ counted.first_node = linked.first_node
      /\ counted.last_node = linked.last_node
      /\ counted.size = [linked.size EXCEPT ![q] = @ + 1]
      /\ counted.quantum_size = linked.quantum_size
      /\ counted.next = [linked.next EXCEPT ![n] = NULL]
      /\ counted.pcb = [linked.pcb EXCEPT ![n] = p]
      /\ counted.allocated = linked.allocated \cup {n}
  BY <1>2 DEF Memory
<1> HIDE DEF counted
<1>9. /\ m.next \in [Node -> Node \cup {NULL}]
      /\ m.first_node \in [Queue -> Node \cup {NULL}]
      /\ m.last_node \in [Queue -> Node \cup {NULL}]
      /\ m.size \in [Queue -> Nat]
  BY DEF Memory
<1>10. EnqueueWrites(m, q, p, n, counted)
  <2>1. CASE last = NULL
    BY <2>1, <1>2, <1>6, <1>8, <1>9 DEF last, EnqueueWrites
  <2>2. CASE last # NULL
    BY <2>2, <1>1, <1>2, <1>6, <1>8, <1>9 DEF last, EnqueueWrites
  <2> QED
    BY <2>1, <2>2
<1> QED
  BY <1>7, <1>10

(* What q_dequeue writes when there is a node: r is m without the first    *)
(* node of q.                                                              *)
DequeueWrites(m, q, r) ==
  /\ r \in Memory
  /\ r.first_node[q] = m.next[m.first_node[q]]
  /\ r.last_node[q] = IF m.next[m.first_node[q]] = NULL THEN NULL ELSE m.last_node[q]
  /\ r.size[q] = m.size[q] - 1
  /\ \A x \in Queue : x # q => /\ r.first_node[x] = m.first_node[x]
                               /\ r.last_node[x] = m.last_node[x]
                               /\ r.size[x] = m.size[x]
  /\ r.quantum_size = m.quantum_size
  /\ r.next = m.next
  /\ r.pcb = m.pcb
  /\ r.allocated = m.allocated \ {m.first_node[q]}

(* q_dequeue of a queue that has a node writes exactly that.               *)
LEMMA DequeueFields ==
  ASSUME NEW m \in Memory, NEW q \in Queue, m.first_node[q] # NULL, m.size[q] > 0
  PROVE  DequeueWrites(m, q, q_dequeue(m, q))
<1> DEFINE first == m.first_node[q]
           moved == [m EXCEPT !.first_node[q] = m.next[first]]
           counted == [moved EXCEPT !.size[q] = @ - 1]
           tailed == [counted EXCEPT !.last_node[q] = IF m.next[first] = NULL THEN NULL ELSE @]
           freed == [tailed EXCEPT !.allocated = @ \ {first}]
<1>1. first \in Node /\ m.size[q] - 1 \in Nat
  BY DEF Memory
<1>2. moved \in Memory /\ moved.size = m.size
  BY <1>1 DEF Memory
<1>3. counted \in Memory
  <2> HIDE DEF moved
  <2> QED
    BY <1>1, <1>2 DEF Memory
<1>4. tailed \in Memory
  <2> HIDE DEF counted
  <2> QED
    BY <1>3 DEF Memory
<1>5. freed \in Memory
  <2> HIDE DEF tailed
  <2> QED
    BY <1>4 DEF Memory
<1>6. q_dequeue(m, q) = freed
  BY DEF q_dequeue
<1>7. /\ freed.first_node = [m.first_node EXCEPT ![q] = m.next[first]]
      /\ freed.last_node = [m.last_node EXCEPT ![q] = IF m.next[first] = NULL THEN NULL ELSE @]
      /\ freed.size = [m.size EXCEPT ![q] = @ - 1]
      /\ freed.quantum_size = m.quantum_size
      /\ freed.next = m.next
      /\ freed.pcb = m.pcb
      /\ freed.allocated = m.allocated \ {first}
  BY DEF Memory
<1>8. /\ m.first_node \in [Queue -> Node \cup {NULL}]
      /\ m.last_node \in [Queue -> Node \cup {NULL}]
      /\ m.size \in [Queue -> Nat]
  BY DEF Memory
<1> HIDE DEF freed
<1> QED
  BY <1>5, <1>6, <1>7, <1>8 DEF DequeueWrites

-----------------------------------------------------------------------------
(* The nodes of c, seen from one of its queues.                            *)
LEMMA InNodesOf ==
  ASSUME NEW c
  PROVE  \A n : n \in NodesOf(c) <=> \E q \in Queue : n \in Range(c[q])
BY DEF NodesOf

(* q_enqueue puts the new node behind those of the queue and leaves the    *)
(* other lists alone.                                                      *)
LEMMA EnqueueLinked ==
  ASSUME NEW m \in Memory, NEW c, Linked(m, c), NEW q \in Queue, NEW p \in PCB,
         NEW n \in Node \ m.allocated
  PROVE  /\ q_enqueue(m, q, p, n) \in Memory
         /\ Linked(q_enqueue(m, q, p, n), [c EXCEPT ![q] = Append(@, n)])
         /\ q_enqueue(m, q, p, n).allocated = m.allocated \cup {n}
         /\ q_enqueue(m, q, p, n).pcb = [m.pcb EXCEPT ![n] = p]
         /\ q_enqueue(m, q, p, n).quantum_size = m.quantum_size
<1> DEFINE s == c[q]
           t == Append(s, n)
           d == [c EXCEPT ![q] = t]
           r == q_enqueue(m, q, p, n)
           last == m.last_node[q]
<1>1. EnqueueWrites(m, q, p, n, r)
  BY EnqueueFields
<1>2. /\ c \in [Queue -> Seq(Node)]
      /\ s \in Seq(Node)
      /\ \A x \in Queue : /\ Follows(m, x, c[x])
                           /\ IsInjective(c[x])
                           /\ n \notin Range(c[x])
                           /\ c[x] \in Seq(Node)
      /\ \A x, y \in Queue : x # y => Range(c[x]) \cap Range(c[y]) = {}
  BY InNodesOf DEF Linked, Wired
<1>3. /\ t \in Seq(Node)
      /\ Range(t) = Range(s) \cup {n}
      /\ IsInjective(t)
      /\ t # << >>
      /\ Len(t) = Len(s) + 1
      /\ \A i \in 1 .. Len(s) : t[i] = s[i]
      /\ t[Len(s) + 1] = n
  BY <1>2, AppendRange, AppendProperties
<1>4. /\ Len(s) \in Nat
      /\ s = << >> <=> Len(s) = 0
      /\ \A i \in 1 .. Len(s) : s[i] \in Node /\ s[i] \in Range(s)
      /\ IsInjective(s)
      /\ DOMAIN s = 1 .. Len(s)
  BY <1>2, SeqFacts
<1> HIDE DEF r, t
<1>6. Follows(r, q, t)
  <2>1. CASE s = << >>
    <3>1. last = NULL /\ m.size[q] = 0
      BY <2>1, <1>2, <1>4 DEF Follows
    <3> QED
      BY <2>1, <3>1, <1>1, <1>3, <1>4 DEF Follows, EnqueueWrites
  <2>2. CASE s # << >>
    <3>1. /\ Len(s) > 0
          /\ last = s[Len(s)] /\ last \in Node /\ last # n /\ last # NULL
          /\ m.first_node[q] = s[1]
          /\ m.size[q] = Len(s)
          /\ \A i \in 1 .. Len(s) - 1 : m.next[s[i]] = s[i + 1]
      BY <2>2, <1>2, <1>4, FifoQueueAssumption DEF Follows
    <3>2. /\ r.next[n] = NULL
          /\ r.next[last] = n
          /\ \A x \in Node : x # n /\ x # last => r.next[x] = m.next[x]
      BY <3>1, <1>1 DEF EnqueueWrites
    <3>3. ASSUME NEW i \in 1 .. Len(t) - 1 PROVE r.next[t[i]] = t[i + 1]
      <4>1. CASE i = Len(s)
        BY <4>1, <3>1, <3>2, <1>3, <1>4
      <4>2. CASE i < Len(s)
        <5>1. /\ i \in 1 .. Len(s) - 1 /\ t[i] = s[i] /\ t[i + 1] = s[i + 1]
          BY <4>2, <1>3, <1>4
        <5>2. s[i] # last /\ s[i] # n
          BY <5>1, <3>1, <1>2, <1>4 DEF IsInjective
        <5> QED
          BY <5>1, <5>2, <3>1, <3>2, <1>4
      <4> QED
        BY <4>1, <4>2, <1>3, <1>4
    <3>4. /\ r.size[q] = Len(t)
          /\ r.first_node[q] = t[1]
          /\ r.last_node[q] = t[Len(t)]
          /\ r.next[t[Len(t)]] = NULL
      BY <3>1, <3>2, <1>1, <1>3, <1>4 DEF EnqueueWrites
    <3> QED
      BY <3>3, <3>4, <1>3 DEF Follows
  <2> QED
    BY <2>1, <2>2
<1>7. ASSUME NEW x \in Queue, x # q PROVE Follows(r, x, c[x])
  <2>1. /\ r.size[x] = m.size[x]
        /\ r.last_node[x] = m.last_node[x]
        /\ r.first_node[x] = m.first_node[x]
    BY <1>1, <1>7 DEF EnqueueWrites
  <2>2. last # NULL => last \in Range(s) /\ last \in Node
    <3>1. s # << >> => last = s[Len(s)] /\ Len(s) \in 1 .. Len(s)
      BY <1>2, <1>4 DEF Follows
    <3>2. s = << >> => last = NULL
      BY <1>2 DEF Follows
    <3> QED
      BY <3>1, <3>2, <1>4
  <2>3. ASSUME NEW y \in Range(c[x]) PROVE r.next[y] = m.next[y]
    <3>1. y \in Node /\ y # n
      BY <1>2, SeqFacts
    <3>2. last # NULL => y # last
      BY <2>2, <1>2, <1>7
    <3> QED
      BY <3>1, <3>2, <1>1, FifoQueueAssumption DEF EnqueueWrites
  <2> QED
    BY <2>1, <2>3, <1>2, FollowsSame
<1>8. /\ d \in [Queue -> Seq(Node)]
      /\ d[q] = t
      /\ \A x \in Queue : x # q => d[x] = c[x]
  BY <1>2, <1>3
<1> HIDE DEF d
<1>9. NodesOf(d) = m.allocated \cup {n}
  <2>1. \A x : x \in NodesOf(d) <=> \E y \in Queue : x \in Range(d[y])
    BY InNodesOf
  <2>2. \A x : x \in NodesOf(c) <=> \E y \in Queue : x \in Range(c[y])
    BY InNodesOf
  <2>3. \A x : x \in NodesOf(d) <=> x \in NodesOf(c) \/ x = n
    BY <2>1, <2>2, <1>3, <1>8
  <2> QED
    BY <2>3 DEF Linked
<1>10. Wired(r, d)
  <2>1. \A x \in Queue : Follows(r, x, d[x]) /\ IsInjective(d[x])
    BY <1>2, <1>3, <1>6, <1>7, <1>8
  <2>2. \A x, y \in Queue : x # y => Range(d[x]) \cap Range(d[y]) = {}
    BY <1>2, <1>3, <1>8
  <2> QED
    BY <2>1, <2>2, <1>8 DEF Wired
<1> QED
  BY <1>1, <1>9, <1>10 DEF Linked, EnqueueWrites, d, t, r

(* q_dequeue takes the first node off its list and gives it back.          *)
LEMMA DequeueLinked ==
  ASSUME NEW m \in Memory, NEW c, Linked(m, c), NEW q \in Queue, c[q] # << >>
  PROVE  /\ q_dequeue(m, q) \in Memory
         /\ Linked(q_dequeue(m, q), [c EXCEPT ![q] = Tail(@)])
         /\ q_dequeue(m, q).allocated = m.allocated \ {Head(c[q])}
         /\ q_dequeue(m, q).pcb = m.pcb
         /\ q_dequeue(m, q).quantum_size = m.quantum_size
         /\ Head(c[q]) \in m.allocated
         /\ q_peek(m, q) = m.pcb[Head(c[q])]
<1> DEFINE s == c[q]
           t == Tail(s)
           d == [c EXCEPT ![q] = t]
           r == q_dequeue(m, q)
           first == Head(s)
<1>1. /\ c \in [Queue -> Seq(Node)]
      /\ s \in Seq(Node)
      /\ \A x \in Queue : /\ Follows(m, x, c[x])
                           /\ IsInjective(c[x])
                           /\ c[x] \in Seq(Node)
      /\ \A x, y \in Queue : x # y => Range(c[x]) \cap Range(c[y]) = {}
      /\ m.allocated = NodesOf(c)
  BY DEF Linked, Wired
<1>2. /\ Len(s) \in Nat /\ Len(s) > 0
      /\ \A i \in 1 .. Len(s) : s[i] \in Node /\ s[i] \in Range(s)
      /\ first = s[1] /\ first \in Range(s) /\ first \in Node
  BY <1>1, SeqFacts
<1>3. /\ t \in Seq(Node)
      /\ Range(t) = Range(s) \ {first}
      /\ IsInjective(t)
      /\ Len(t) = Len(s) - 1
      /\ \A i \in 1 .. Len(t) : t[i] = s[i + 1]
      /\ t = << >> <=> Len(t) = 0
  <2>1. t \in Seq(Node) /\ Range(t) = Range(s) \ {first} /\ IsInjective(t)
    BY <1>1, TailRange
  <2>2. /\ Len(t) = Len(s) - 1
        /\ \A i \in 1 .. Len(t) : t[i] = s[i + 1]
    BY <1>1, HeadTailProperties
  <2>3. t = << >> <=> Len(t) = 0
    BY <2>1, SeqFacts
  <2> QED
    BY <2>1, <2>2, <2>3
<1>4. /\ m.first_node[q] = first /\ first # NULL
      /\ m.size[q] = Len(s)
      /\ m.last_node[q] = s[Len(s)] /\ m.next[s[Len(s)]] = NULL
      /\ \A i \in 1 .. Len(s) - 1 : m.next[s[i]] = s[i + 1]
  BY <1>1, <1>2, FifoQueueAssumption DEF Follows
<1>5. DequeueWrites(m, q, r)
  BY <1>2, <1>4, DequeueFields
<1>6. m.next[first] \in Node \cup {NULL}
  BY <1>2 DEF Memory
<1>7. /\ d \in [Queue -> Seq(Node)]
      /\ d[q] = t
      /\ \A x \in Queue : x # q => d[x] = c[x]
  BY <1>1, <1>3
<1> HIDE DEF r, t, d, s, first
<1>8. Follows(r, q, t)
  <2>1. CASE Len(s) = 1
    BY <2>1, <1>2, <1>3, <1>4, <1>5 DEF Follows, DequeueWrites
  <2>2. CASE Len(s) > 1
    <3>1. /\ m.next[first] = t[1] /\ t[1] \in Node /\ t[1] # NULL
          /\ t[Len(t)] = s[Len(s)]
      BY <2>2, <1>2, <1>3, <1>4, FifoQueueAssumption
    <3>2. ASSUME NEW i \in 1 .. Len(t) - 1 PROVE r.next[t[i]] = t[i + 1]
      <4>1. /\ i \in 1 .. Len(t) /\ i + 1 \in 1 .. Len(t)
            /\ i + 1 \in 1 .. Len(s) - 1
        BY <1>2, <1>3
      <4>2. m.next[s[i + 1]] = s[(i + 1) + 1]
        BY <4>1, <1>4
      <4> QED
        BY <4>1, <4>2, <1>3, <1>5 DEF DequeueWrites
    <3>3. /\ r.size[q] = Len(t)
          /\ r.first_node[q] = t[1]
          /\ r.last_node[q] = t[Len(t)]
          /\ r.next[t[Len(t)]] = NULL
      BY <3>1, <1>2, <1>3, <1>4, <1>5 DEF DequeueWrites
    <3> QED
      BY <2>2, <3>2, <3>3, <1>3 DEF Follows
  <2>3. Len(s) = 1 \/ Len(s) > 1
    <3>1. \A k \in Nat : k > 0 => k = 1 \/ k > 1
      OBVIOUS
    <3> QED
      BY <3>1, <1>2
  <2> QED
    BY <2>1, <2>2, <2>3
<1>9. ASSUME NEW x \in Queue, x # q PROVE Follows(r, x, c[x])
  BY <1>1, <1>5, <1>9, FollowsSame DEF DequeueWrites
<1>10. NodesOf(d) = m.allocated \ {first}
  <2>1. \A x : x \in NodesOf(d) <=> \E y \in Queue : x \in Range(d[y])
    BY InNodesOf
  <2>2. \A x : x \in NodesOf(c) <=> \E y \in Queue : x \in Range(c[y])
    BY InNodesOf
  <2>3. \A x \in Queue : x # q => first \notin Range(c[x])
    BY <1>1, <1>2 DEF s
  <2>4. \A x : x \in NodesOf(d) <=> x \in NodesOf(c) /\ x # first
    BY <2>1, <2>2, <2>3, <1>3, <1>7 DEF s
  <2> QED
    BY <2>4, <1>1
<1>11. Wired(r, d)
  <2>1. \A x \in Queue : Follows(r, x, d[x]) /\ IsInjective(d[x])
    BY <1>1, <1>3, <1>7, <1>8, <1>9
  <2>2. \A x, y \in Queue : x # y => Range(d[x]) \cap Range(d[y]) = {}
    BY <1>1, <1>3, <1>7 DEF s
  <2> QED
    BY <2>1, <2>2, <1>7 DEF Wired
<1>12. first \in m.allocated
  BY <1>1, <1>2, InNodesOf DEF s
<1>13. q_peek(m, q) = m.pcb[first]
  BY <1>4 DEF q_peek, q_is_empty
<1> QED
  BY <1>4, <1>5, <1>10, <1>11, <1>12, <1>13 DEF Linked, DequeueWrites, d, t, r, s, first

-----------------------------------------------------------------------------
(* The PCBs of a sequence of nodes, one by one.                            *)
LEMMA PcbsAre ==
  ASSUME NEW m \in Memory, NEW s \in Seq(Node)
  PROVE  /\ PcbsOf(m, s) \in Seq(PCB \cup {NULL})
         /\ Len(PcbsOf(m, s)) = Len(s)
         /\ \A k \in 1 .. Len(s) : PcbsOf(m, s)[k] = m.pcb[s[k]]
         /\ PcbsOf(m, s) = << >> <=> s = << >>
         /\ Range(PcbsOf(m, s)) = {m.pcb[n] : n \in Range(s)}
<1> DEFINE t == PcbsOf(m, s)
<1>1. /\ Len(s) \in Nat
      /\ s = << >> <=> Len(s) = 0
      /\ DOMAIN s = 1 .. Len(s)
      /\ \A i \in 1 .. Len(s) : s[i] \in Node /\ s[i] \in Range(s)
      /\ \A x \in Range(s) : \E i \in 1 .. Len(s) : x = s[i]
  BY SeqFacts
<1>2. t = [k \in 1 .. Len(s) |-> m.pcb[s[k]]]
  BY <1>1 DEF PcbsOf
<1>3. \A k \in 1 .. Len(s) : m.pcb[s[k]] \in PCB \cup {NULL}
  BY <1>1 DEF Memory
<1>4. t \in Seq(PCB \cup {NULL}) /\ Len(t) = Len(s)
  BY <1>1, <1>2, <1>3
<1>5. \A k \in 1 .. Len(s) : t[k] = m.pcb[s[k]]
  BY <1>2
<1> HIDE DEF t
<1>6. t = << >> <=> s = << >>
  BY <1>1, <1>4, SeqFacts
<1>7. /\ DOMAIN t = 1 .. Len(s)
      /\ \A x \in Range(t) : \E i \in 1 .. Len(s) : x = t[i]
      /\ \A i \in 1 .. Len(s) : t[i] \in Range(t)
  BY <1>4, SeqFacts
<1>8. Range(t) = {m.pcb[n] : n \in Range(s)}
  <2>1. \A x \in Range(t) : \E n \in Range(s) : x = m.pcb[n]
    BY <1>1, <1>5, <1>7
  <2>2. \A n \in Range(s) : m.pcb[n] \in Range(t)
    BY <1>1, <1>5, <1>7
  <2> QED
    BY <2>1, <2>2
<1> QED
  BY <1>4, <1>5, <1>6, <1>8 DEF t

(* Where two memories have the same PCBs in the nodes of s, so has s.      *)
LEMMA PcbsSame ==
  ASSUME NEW m \in Memory, NEW r \in Memory, NEW s \in Seq(Node),
         \A n \in Range(s) : r.pcb[n] = m.pcb[n]
  PROVE  PcbsOf(r, s) = PcbsOf(m, s)
BY SeqFacts DEF PcbsOf

(* The PCBs of the nodes of s and of one more node behind them.            *)
LEMMA PcbsAppend ==
  ASSUME NEW m \in Memory, NEW s \in Seq(Node), NEW n \in Node
  PROVE  PcbsOf(m, Append(s, n)) = Append(PcbsOf(m, s), m.pcb[n])
<1>1. /\ Append(s, n) \in Seq(Node)
      /\ Len(Append(s, n)) = Len(s) + 1
      /\ \A i \in 1 .. Len(s) : Append(s, n)[i] = s[i]
      /\ Append(s, n)[Len(s) + 1] = n
      /\ Len(s) \in Nat
  BY AppendProperties, LenProperties
<1>2. m.pcb[n] \in PCB \cup {NULL}
  BY DEF Memory
<1>3. /\ PcbsOf(m, s) \in Seq(PCB \cup {NULL})
      /\ Len(PcbsOf(m, s)) = Len(s)
      /\ \A k \in 1 .. Len(s) : PcbsOf(m, s)[k] = m.pcb[s[k]]
  BY PcbsAre
<1>4. /\ Append(PcbsOf(m, s), m.pcb[n]) \in Seq(PCB \cup {NULL})
      /\ Len(Append(PcbsOf(m, s), m.pcb[n])) = Len(s) + 1
      /\ \A k \in 1 .. Len(s) : Append(PcbsOf(m, s), m.pcb[n])[k] = m.pcb[s[k]]
      /\ Append(PcbsOf(m, s), m.pcb[n])[Len(s) + 1] = m.pcb[n]
  BY <1>2, <1>3, AppendProperties
<1>5. /\ PcbsOf(m, Append(s, n)) \in Seq(PCB \cup {NULL})
      /\ Len(PcbsOf(m, Append(s, n))) = Len(s) + 1
      /\ \A k \in 1 .. Len(s) + 1 : PcbsOf(m, Append(s, n))[k] = m.pcb[Append(s, n)[k]]
  BY <1>1, PcbsAre
<1>6. \A k \in 1 .. Len(s) + 1 :
        PcbsOf(m, Append(s, n))[k] = Append(PcbsOf(m, s), m.pcb[n])[k]
  BY <1>1, <1>4, <1>5
<1> QED
  BY <1>4, <1>5, <1>6, SeqEqual

(* The PCBs behind the first node, and the PCB of the first node.          *)
LEMMA PcbsTail ==
  ASSUME NEW m \in Memory, NEW s \in Seq(Node), s # << >>
  PROVE  /\ PcbsOf(m, Tail(s)) = Tail(PcbsOf(m, s))
         /\ Head(PcbsOf(m, s)) = m.pcb[Head(s)]
<1>1. /\ Tail(s) \in Seq(Node)
      /\ Len(Tail(s)) = Len(s) - 1
      /\ \A i \in 1 .. Len(Tail(s)) : Tail(s)[i] = s[i + 1]
      /\ Len(s) \in Nat \ {0}
      /\ Head(s) = s[1]
  BY HeadTailProperties, EmptySeq
<1> DEFINE t == PcbsOf(m, s)
<1>2. /\ t \in Seq(PCB \cup {NULL})
      /\ Len(t) = Len(s)
      /\ \A k \in 1 .. Len(s) : t[k] = m.pcb[s[k]]
      /\ t # << >>
  BY PcbsAre
<1>3. /\ PcbsOf(m, Tail(s)) \in Seq(PCB \cup {NULL})
      /\ Len(PcbsOf(m, Tail(s))) = Len(s) - 1
      /\ \A k \in 1 .. Len(s) - 1 : PcbsOf(m, Tail(s))[k] = m.pcb[Tail(s)[k]]
  BY <1>1, PcbsAre
<1> HIDE DEF t
<1>4. /\ Tail(t) \in Seq(PCB \cup {NULL})
      /\ Len(Tail(t)) = Len(s) - 1
      /\ \A i \in 1 .. Len(s) - 1 : Tail(t)[i] = t[i + 1]
      /\ Head(t) = t[1]
  <2>1. /\ Tail(t) \in Seq(PCB \cup {NULL})
        /\ Len(Tail(t)) = Len(t) - 1
        /\ \A i \in 1 .. Len(Tail(t)) : Tail(t)[i] = t[i + 1]
    BY <1>2, HeadTailProperties
  <2>2. Head(t) = t[1]
    BY <1>2, SeqFacts
  <2> QED
    BY <2>1, <2>2, <1>2
<1>5. \A i \in 1 .. Len(s) - 1 : Tail(t)[i] = PcbsOf(m, Tail(s))[i]
  BY <1>1, <1>2, <1>3, <1>4
<1>6. Tail(t) = PcbsOf(m, Tail(s))
  BY <1>3, <1>4, <1>5, SeqEqual
<1> QED
  BY <1>1, <1>2, <1>4, <1>6 DEF t

(* The elements of two sequences put one behind the other.                 *)
LEMMA ConcatFacts ==
  ASSUME NEW S, NEW s \in Seq(S), NEW t \in Seq(S)
  PROVE  /\ s \o t \in Seq(S)
         /\ Len(s \o t) = Len(s) + Len(t)
         /\ \A i \in 1 .. Len(s) : (s \o t)[i] = s[i]
         /\ \A i \in 1 .. Len(t) : (s \o t)[Len(s) + i] = t[i]
<1> DEFINE c == s \o t
<1>1. /\ c \in Seq(S)
      /\ Len(c) = Len(s) + Len(t)
      /\ \A i \in 1 .. Len(s) + Len(t) :
           c[i] = IF i <= Len(s) THEN s[i] ELSE t[i - Len(s)]
      /\ Len(s) \in Nat
      /\ Len(t) \in Nat
  BY ConcatProperties, LenProperties
<1> HIDE DEF c
<1>2. ASSUME NEW i \in 1 .. Len(s) PROVE c[i] = s[i]
  <2>1. i \in 1 .. Len(s) + Len(t) /\ i <= Len(s)
    BY <1>1
  <2> QED
    BY <1>1, <2>1
<1>3. ASSUME NEW i \in 1 .. Len(t) PROVE c[Len(s) + i] = t[i]
  <2>1. /\ Len(s) + i \in 1 .. Len(s) + Len(t)
        /\ ~ (Len(s) + i <= Len(s))
        /\ (Len(s) + i) - Len(s) = i
    BY <1>1
  <2> QED
    BY <1>1, <2>1
<1> QED
  BY <1>1, <1>2, <1>3 DEF c

(* The PCBs of one sequence of nodes behind another.                       *)
LEMMA PcbsConcat ==
  ASSUME NEW m \in Memory, NEW s \in Seq(Node), NEW t \in Seq(Node)
  PROVE  PcbsOf(m, s \o t) = PcbsOf(m, s) \o PcbsOf(m, t)
<1> DEFINE u == PcbsOf(m, s)
           v == PcbsOf(m, t)
           st == s \o t
           uv == u \o v
           w == PcbsOf(m, st)
<1>1. /\ st \in Seq(Node)
      /\ Len(st) = Len(s) + Len(t)
      /\ \A i \in 1 .. Len(s) : st[i] = s[i]
      /\ \A i \in 1 .. Len(t) : st[Len(s) + i] = t[i]
      /\ Len(s) \in Nat /\ Len(t) \in Nat
  BY ConcatFacts, LenProperties
<1>2. /\ u \in Seq(PCB \cup {NULL})
      /\ Len(u) = Len(s)
      /\ \A k \in 1 .. Len(s) : u[k] = m.pcb[s[k]]
      /\ v \in Seq(PCB \cup {NULL})
      /\ Len(v) = Len(t)
      /\ \A k \in 1 .. Len(t) : v[k] = m.pcb[t[k]]
  BY PcbsAre
<1> HIDE DEF u, v, st
<1>3. /\ w \in Seq(PCB \cup {NULL})
      /\ Len(w) = Len(st)
      /\ \A k \in 1 .. Len(st) : w[k] = m.pcb[st[k]]
  BY <1>1, PcbsAre
<1>4. /\ uv \in Seq(PCB \cup {NULL})
      /\ Len(uv) = Len(u) + Len(v)
      /\ \A i \in 1 .. Len(u) : uv[i] = u[i]
      /\ \A i \in 1 .. Len(v) : uv[Len(u) + i] = v[i]
  <2>1. u \in Seq(PCB \cup {NULL}) /\ v \in Seq(PCB \cup {NULL})
    BY <1>2
  <2> QED
    BY <2>1, ConcatFacts
<1> HIDE DEF w, uv
<1>5. ASSUME NEW i \in 1 .. Len(s) + Len(t) PROVE w[i] = uv[i]
  <2>1. CASE i \in 1 .. Len(s)
    <3>1. i \in 1 .. Len(st) /\ i \in 1 .. Len(u)
      BY <2>1, <1>1, <1>2
    <3>2. w[i] = m.pcb[st[i]] /\ st[i] = s[i]
      BY <2>1, <3>1, <1>1, <1>3
    <3>3. uv[i] = u[i] /\ u[i] = m.pcb[s[i]]
      BY <2>1, <3>1, <1>2, <1>4
    <3> QED
      BY <3>2, <3>3
  <2>2. CASE i \notin 1 .. Len(s)
    <3>1. i - Len(s) \in 1 .. Len(t) /\ Len(s) + (i - Len(s)) = i
      BY <2>2, <1>1
    <3>2. st[i] = t[i - Len(s)]
      BY <3>1, <1>1
    <3>3. uv[i] = v[i - Len(s)]
      BY <3>1, <1>2, <1>4
    <3>4. i \in 1 .. Len(st)
      BY <1>1
    <3> QED
      BY <3>1, <3>2, <3>3, <3>4, <1>2, <1>3
  <2> QED
    BY <2>1, <2>2
<1>6. w = uv
  <2>1. Len(w) = Len(s) + Len(t) /\ Len(uv) = Len(s) + Len(t)
    BY <1>1, <1>2, <1>3, <1>4
  <2> QED
    BY <1>3, <1>4, <1>5, <2>1, SeqEqual
<1> QED
  BY <1>6 DEF u, v, w, uv, st

-----------------------------------------------------------------------------
(* Every node in use has a PCB of S, and no two have the same.             *)
Held(m, S) ==
  /\ \A n \in m.allocated : m.pcb[n] \in S
  /\ \A n, o \in m.allocated : m.pcb[n] = m.pcb[o] => n = o

(* The lists of m are in order and hold PCBs of S, none of them twice.     *)
Sound(m, S) ==
  /\ S \subseteq PCB
  /\ m \in Memory
  /\ m.quantum_size = [q \in Queue |-> QuantumSize(q)]
  /\ \E c : Linked(m, c)
  /\ Held(m, S)

(* What is sound with some PCBs is sound with more.                        *)
LEMMA SoundGrows ==
  ASSUME NEW m, NEW S, Sound(m, S), NEW T, S \subseteq T, T \subseteq PCB
  PROVE  Sound(m, T)
BY DEF Sound, Held

(* The queues of a sound memory are sequences of PCBs; no PCB is on two of *)
(* them or on one of them twice.                                           *)
LEMMA ContentsFacts ==
  ASSUME NEW m, NEW S, Sound(m, S)
  PROVE  /\ \A q \in Queue : /\ Contents(m, q) \in Seq(S)
                             /\ IsInjective(Contents(m, q))
                             /\ q_is_empty(m, q) <=> Contents(m, q) = << >>
                             /\ m.size[q] = Len(Contents(m, q))
                             /\ Contents(m, q) = << >> => q_peek(m, q) = NULL
                             /\ Contents(m, q) # << >> =>
                                  q_peek(m, q) = Head(Contents(m, q))
         /\ \A q, r \in Queue : q # r => Range(Contents(m, q)) \cap Range(Contents(m, r)) = {}
<1>1. m \in Memory /\ S \subseteq PCB /\ Held(m, S)
  BY DEF Sound
<1>2. PICK c : Linked(m, c)
  BY DEF Sound
<1>3. /\ Wired(m, c)
      /\ m.allocated = NodesOf(c)
      /\ c \in [Queue -> Seq(Node)]
      /\ \A q \in Queue : /\ c[q] \in Seq(Node)
                           /\ IsInjective(c[q])
                           /\ Follows(m, q, c[q])
      /\ \A q, r \in Queue : q # r => Range(c[q]) \cap Range(c[r]) = {}
  BY <1>2 DEF Linked, Wired
<1>4. \A q \in Queue : Contents(m, q) = PcbsOf(m, c[q])
  BY <1>1, <1>3, ContentsAre
<1>5. \A q \in Queue : \A n \in Range(c[q]) : n \in m.allocated
  BY <1>3, InNodesOf
<1>6. ASSUME NEW q \in Queue
      PROVE  /\ Contents(m, q) \in Seq(S)
             /\ IsInjective(Contents(m, q))
             /\ q_is_empty(m, q) <=> Contents(m, q) = << >>
             /\ m.size[q] = Len(Contents(m, q))
             /\ Contents(m, q) = << >> => q_peek(m, q) = NULL
             /\ Contents(m, q) # << >> => q_peek(m, q) = Head(Contents(m, q))
  <2> DEFINE s == c[q]
             t == Contents(m, q)
  <2>1. s \in Seq(Node) /\ IsInjective(s) /\ Follows(m, q, s)
    BY <1>3
  <2>2. /\ Len(s) \in Nat
        /\ DOMAIN s = 1 .. Len(s)
        /\ \A i \in 1 .. Len(s) : s[i] \in Range(s)
    BY <2>1, SeqFacts
  <2>3. t = PcbsOf(m, s)
    BY <1>4
  <2> HIDE DEF s, t
  <2>4. /\ t \in Seq(PCB \cup {NULL})
        /\ Len(t) = Len(s)
        /\ \A k \in 1 .. Len(s) : t[k] = m.pcb[s[k]]
        /\ t = << >> <=> s = << >>
    BY <1>1, <2>1, <2>3, PcbsAre
  <2>5. \A i \in 1 .. Len(s) : s[i] \in m.allocated
    BY <2>2, <1>5 DEF s
  <2>6. \A i \in 1 .. Len(t) : t[i] \in S
    BY <2>4, <2>5, <1>1 DEF Held
  <2>7. t \in Seq(S)
    BY <2>4, <2>6
  <2>8. IsInjective(t)
    <3>1. DOMAIN t = 1 .. Len(s)
      BY <2>4, LenProperties
    <3>2. ASSUME NEW i \in 1 .. Len(s), NEW j \in 1 .. Len(s), t[i] = t[j] PROVE i = j
      <4>1. s[i] = s[j]
        BY <3>2, <2>4, <2>5, <1>1 DEF Held
      <4> QED
        BY <4>1, <2>1, <2>2 DEF IsInjective
    <3> QED
      BY <3>1, <3>2 DEF IsInjective
  <2>9. q_is_empty(m, q) <=> t = << >>
    BY <1>3, <2>4, EmptyIs DEF s
  <2>10. t = << >> => q_peek(m, q) = NULL
    BY <2>9 DEF q_peek
  <2>11. t # << >> => q_peek(m, q) = Head(t)
    <3>1. SUFFICES ASSUME t # << >> PROVE q_peek(m, q) = Head(t)
      OBVIOUS
    <3>2. s # << >>
      BY <3>1, <2>4
    <3>3. Head(t) = m.pcb[Head(s)]
      BY <3>2, <1>1, <2>1, <2>3, PcbsTail
    <3>4. m.first_node[q] = Head(s)
      BY <3>2, <1>3, EmptyIs DEF s
    <3> QED
      BY <3>1, <3>3, <3>4, <2>9 DEF q_peek
  <2>12. m.size[q] = Len(t)
    BY <2>1, <2>4 DEF Follows
  <2> QED
    BY <2>7, <2>8, <2>9, <2>10, <2>11, <2>12 DEF t
<1>7. ASSUME NEW q \in Queue, NEW r \in Queue, q # r
      PROVE  Range(Contents(m, q)) \cap Range(Contents(m, r)) = {}
  <2>1. ASSUME NEW x \in Range(Contents(m, q)), x \in Range(Contents(m, r)) PROVE FALSE
    <3>1. /\ Range(Contents(m, q)) = {m.pcb[n] : n \in Range(c[q])}
          /\ Range(Contents(m, r)) = {m.pcb[n] : n \in Range(c[r])}
      BY <1>1, <1>3, <1>4, PcbsAre
    <3>2. PICK n \in Range(c[q]) : x = m.pcb[n]
      BY <3>1
    <3>3. PICK o \in Range(c[r]) : x = m.pcb[o]
      BY <2>1, <3>1
    <3>4. n = o
      BY <3>2, <3>3, <1>1, <1>5 DEF Held
    <3> QED
      BY <3>4, <1>3, <1>7
  <2> QED
    BY <2>1
<1> QED
  BY <1>6, <1>7

(* Lists that run through the nodes of c are well linked.                  *)
LEMMA WiredLists ==
  ASSUME memory \in Memory, NEW c, Wired(memory, c)
  PROVE  WellLinked
<1>1. \A q \in Queue : Chain(memory, q) = c[q] /\ Follows(memory, q, c[q])
  BY ChainsAre DEF Wired
<1>2. ASSUME NEW q \in Queue
      PROVE  LET chain == Chain(memory, q) IN
             /\ memory.size[q] = Len(chain)
             /\ IF chain = << >> THEN memory.last_node[q] = NULL
                ELSE /\ memory.last_node[q] = chain[Len(chain)]
                     /\ memory.next[memory.last_node[q]] = NULL
  BY <1>1 DEF Follows
<1> QED
  BY <1>2 DEF WellLinked

(* If those are the nodes in use, the nodes are accounted for.             *)
LEMMA LinkedLists ==
  ASSUME memory \in Memory, NEW c, Linked(memory, c)
  PROVE  NodesAccounted
<1>1. /\ memory.allocated = NodesOf(c)
      /\ \A q \in Queue : IsInjective(c[q])
      /\ \A q, r \in Queue : q # r => Range(c[q]) \cap Range(c[r]) = {}
      /\ Wired(memory, c)
  BY DEF Linked, Wired
<1>2. \A q \in Queue : Chain(memory, q) = c[q]
  BY <1>1, ChainsAre
<1>3. UNION {Range(Chain(memory, q)) : q \in Queue} = memory.allocated
  BY <1>1, <1>2 DEF NodesOf
<1>4. ASSUME NEW q \in Queue, NEW r \in Queue, NEW i \in DOMAIN Chain(memory, q),
             NEW j \in DOMAIN Chain(memory, r), Chain(memory, q)[i] = Chain(memory, r)[j]
      PROVE  q = r /\ i = j
  <2>1. c[q][i] \in Range(c[q]) /\ c[r][j] \in Range(c[r])
    BY <1>2 DEF Range
  <2>2. q = r
    BY <2>1, <1>1, <1>2, <1>4
  <2> QED
    BY <2>2, <1>1, <1>2, <1>4 DEF IsInjective
<1> QED
  BY <1>3, <1>4 DEF NodesAccounted

-----------------------------------------------------------------------------
(* What q_enqueue does to the contents of the queues, n being what malloc  *)
(* returned and r the memory it leaves.                                    *)
Enqueues(m, q, p, n, r) ==
  /\ n = NULL => r = m
  /\ n # NULL => Contents(r, q) = Append(Contents(m, q), p)
  /\ \A x \in Queue : x # q => Contents(r, x) = Contents(m, x)

(* q_enqueue puts the PCB behind those of the queue, or, if malloc failed, *)
(* changes nothing.                                                        *)
LEMMA EnqueueSound ==
  ASSUME NEW m, NEW S, Sound(m, S), NEW q \in Queue, NEW p \in PCB \ S,
         NEW n \in malloc(m)
  PROVE  /\ Sound(q_enqueue(m, q, p, n), S \cup {p})
         /\ Enqueues(m, q, p, n, q_enqueue(m, q, p, n))
<1>1. CASE n = NULL
  <2>1. q_enqueue(m, q, p, n) = m
    BY <1>1 DEF q_enqueue
  <2>2. S \cup {p} \subseteq PCB
    BY DEF Sound
  <2>3. Sound(m, S \cup {p})
    BY <2>2, SoundGrows
  <2> QED
    BY <1>1, <2>1, <2>3 DEF Enqueues
<1>2. CASE n # NULL
  <2> DEFINE r == q_enqueue(m, q, p, n)
  <2>1. m \in Memory /\ S \subseteq PCB /\ Held(m, S) /\ n \in Node \ m.allocated
    BY <1>2 DEF Sound, malloc
  <2>2. PICK c : Linked(m, c)
    BY DEF Sound
  <2> DEFINE d == [c EXCEPT ![q] = Append(@, n)]
  <2>3. /\ r \in Memory
        /\ Linked(r, d)
        /\ r.allocated = m.allocated \cup {n}
        /\ r.pcb = [m.pcb EXCEPT ![n] = p]
        /\ r.quantum_size = m.quantum_size
    BY <2>1, <2>2, EnqueueLinked
  <2> HIDE DEF r
  <2>4. /\ r.pcb[n] = p
        /\ \A o \in m.allocated : r.pcb[o] = m.pcb[o]
        /\ m.allocated \subseteq Node
    <3>1. m.pcb \in [Node -> PCB \cup {NULL}] /\ m.allocated \subseteq Node
      BY <2>1 DEF Memory
    <3> QED
      BY <3>1, <2>1, <2>3
  <2>5. Held(r, S \cup {p})
    <3>1. \A o \in m.allocated : m.pcb[o] \in S /\ m.pcb[o] # p
      BY <2>1 DEF Held
    <3> QED
      BY <3>1, <2>1, <2>3, <2>4 DEF Held
  <2>6. Sound(r, S \cup {p})
    BY <2>1, <2>3, <2>5 DEF Sound
  <2>7. /\ c \in [Queue -> Seq(Node)]
        /\ Wired(m, c) /\ Wired(r, d)
        /\ \A x \in Queue : \A o \in Range(c[x]) : o \in m.allocated
    <3>1. Wired(m, c) /\ Wired(r, d) /\ m.allocated = NodesOf(c)
      BY <2>2, <2>3 DEF Linked
    <3>2. c \in [Queue -> Seq(Node)]
      BY <3>1 DEF Wired
    <3> QED
      BY <3>1, <3>2, InNodesOf
  <2>8. \A x \in Queue : PcbsOf(r, c[x]) = PcbsOf(m, c[x])
    BY <2>1, <2>3, <2>4, <2>7, PcbsSame
  <2>9. d[q] = Append(c[q], n) /\ \A x \in Queue : x # q => d[x] = c[x]
    BY <2>7
  <2> HIDE DEF d
  <2>10. \A x \in Queue : Contents(m, x) = PcbsOf(m, c[x]) /\ Contents(r, x) = PcbsOf(r, d[x])
    BY <2>1, <2>3, <2>7, ContentsAre
  <2>11. Contents(r, q) = Append(Contents(m, q), p)
    <3>1. PcbsOf(r, Append(c[q], n)) = Append(PcbsOf(r, c[q]), r.pcb[n])
      BY <2>1, <2>3, <2>7, PcbsAppend
    <3> QED
      BY <3>1, <2>4, <2>8, <2>9, <2>10
  <2>12. \A x \in Queue : x # q => Contents(r, x) = Contents(m, x)
    BY <2>8, <2>9, <2>10
  <2> QED
    BY <1>2, <2>6, <2>11, <2>12 DEF r, Enqueues
<1> QED
  BY <1>1, <1>2

(* q_dequeue takes the first PCB off the queue, if there is one.           *)
LEMMA DequeueSound ==
  ASSUME NEW m, NEW S, Sound(m, S), NEW q \in Queue
  PROVE  /\ Contents(m, q) = << >> => q_dequeue(m, q) = m
         /\ Contents(m, q) # << >> =>
              /\ Head(Contents(m, q)) \in S
              /\ Sound(q_dequeue(m, q), S \ {Head(Contents(m, q))})
              /\ Contents(q_dequeue(m, q), q) = Tail(Contents(m, q))
              /\ \A x \in Queue : x # q =>
                   Contents(q_dequeue(m, q), x) = Contents(m, x)
<1>0. q_is_empty(m, q) <=> Contents(m, q) = << >>
  BY ContentsFacts
<1>1. Contents(m, q) = << >> => q_dequeue(m, q) = m
  BY <1>0 DEF q_dequeue, q_is_empty
<1>2. ASSUME Contents(m, q) # << >>
      PROVE  /\ Head(Contents(m, q)) \in S
             /\ Sound(q_dequeue(m, q), S \ {Head(Contents(m, q))})
             /\ Contents(q_dequeue(m, q), q) = Tail(Contents(m, q))
             /\ \A x \in Queue : x # q => Contents(q_dequeue(m, q), x) = Contents(m, x)
  <2> DEFINE r == q_dequeue(m, q)
             h == Head(Contents(m, q))
  <2>1. m \in Memory /\ S \subseteq PCB /\ Held(m, S)
    BY DEF Sound
  <2>2. PICK c : Linked(m, c)
    BY DEF Sound
  <2> DEFINE d == [c EXCEPT ![q] = Tail(@)]
  <2>3. /\ c \in [Queue -> Seq(Node)]
        /\ Wired(m, c)
        /\ c[q] \in Seq(Node)
    BY <2>2 DEF Linked, Wired
  <2>4. \A x \in Queue : Contents(m, x) = PcbsOf(m, c[x])
    BY <2>1, <2>3, ContentsAre
  <2>5. c[q] # << >>
    BY <1>2, <2>1, <2>3, <2>4, PcbsAre
  <2>6. /\ r \in Memory
        /\ Linked(r, d)
        /\ r.allocated = m.allocated \ {Head(c[q])}
        /\ r.pcb = m.pcb
        /\ r.quantum_size = m.quantum_size
        /\ Head(c[q]) \in m.allocated
    BY <2>1, <2>2, <2>5, DequeueLinked
  <2>7. h = m.pcb[Head(c[q])] /\ Tail(Contents(m, q)) = PcbsOf(m, Tail(c[q]))
    BY <2>1, <2>3, <2>4, <2>5, PcbsTail
  <2>8. d[q] = Tail(c[q]) /\ \A x \in Queue : x # q => d[x] = c[x]
    BY <2>3
  <2> HIDE DEF r, d, h
  <2>9. h \in S
    BY <2>1, <2>6, <2>7 DEF Held
  <2>10. Held(r, S \ {h})
    BY <2>1, <2>6, <2>7 DEF Held
  <2>11. Sound(r, S \ {h})
    BY <2>1, <2>6, <2>10 DEF Sound
  <2>12. \A x \in Queue : Contents(r, x) = PcbsOf(r, d[x]) /\ d[x] \in Seq(Node)
    BY <2>6, ContentsAre DEF Linked, Wired
  <2>13. \A x \in Queue : PcbsOf(r, d[x]) = PcbsOf(m, d[x])
    BY <2>6 DEF PcbsOf
  <2> QED
    BY <2>4, <2>7, <2>8, <2>9, <2>11, <2>12, <2>13 DEF r, h
<1> QED
  BY <1>1, <1>2

(* q_peek finds that PCB.                                                  *)
LEMMA PeekSound ==
  ASSUME NEW m, NEW S, Sound(m, S), NEW q \in Queue, ~ q_is_empty(m, q)
  PROVE  q_peek(m, q) \in S
<1>1. /\ Contents(m, q) \in Seq(S) /\ Contents(m, q) # << >>
      /\ q_peek(m, q) = Head(Contents(m, q))
  BY ContentsFacts
<1>2. Head(Contents(m, q)) \in S
  BY <1>1, SeqFacts, TailRange
<1> QED
  BY <1>1, <1>2

-----------------------------------------------------------------------------
(* The levels are queues; the other three queues are no levels.            *)
LEMMA QueueFacts ==
  /\ Level \subseteq Queue /\ Level \subseteq Nat
  /\ 0 \in Level /\ NUM_PRIORITIES - 1 \in Level
  /\ created \in Queue \ Level /\ blocked \in Queue \ Level /\ killed \in Queue \ Level
  /\ created # blocked /\ created # killed /\ blocked # killed
  /\ \A q \in Queue : q \in Level \/ q \in {created, blocked, killed}
BY LinkedQueuesAssumption DEF Queue, Level, created, blocked, killed

(* The scans from level 0 stop at the first level that holds a PCB.        *)
LEMMA FirstLevelIs ==
  ASSUME NEW m, NEW S, Sound(m, S)
  PROVE  /\ pq_is_empty(m) <=> \A l \in Level : Contents(m, l) = << >>
         /\ ~ pq_is_empty(m) =>
              /\ FirstLevel(m) \in Level
              /\ Contents(m, FirstLevel(m)) # << >>
              /\ \A k \in Level : k < FirstLevel(m) => Contents(m, k) = << >>
<1>1. \A l \in Level : q_is_empty(m, l) <=> Contents(m, l) = << >>
  BY ContentsFacts, QueueFacts
<1>2. pq_is_empty(m) <=> \A l \in Level : Contents(m, l) = << >>
  BY <1>1 DEF pq_is_empty
<1>3. ASSUME ~ pq_is_empty(m)
      PROVE  \E l \in Level : ~q_is_empty(m, l) /\ \A k \in 0 .. l - 1 : q_is_empty(m, k)
  <2> DEFINE T == {l \in Level : ~ q_is_empty(m, l)}
  <2>1. T \in SUBSET (0 .. NUM_PRIORITIES - 1) /\ T # {}
    BY <1>3 DEF pq_is_empty, Level
  <2>2. NUM_PRIORITIES - 1 \in Nat
    BY LinkedQueuesAssumption
  <2>3. PICK l \in T : \A j \in T : l <= j
    <3> HIDE DEF T
    <3> QED
      BY <2>1, <2>2, LeastOf
  <2>4. ASSUME NEW k \in 0 .. l - 1 PROVE q_is_empty(m, k)
    <3>1. k \in Level /\ ~ (l <= k)
      BY <2>2 DEF Level
    <3> QED
      BY <3>1, <2>3
  <2> QED
    BY <2>4
<1>4. ASSUME ~ pq_is_empty(m)
      PROVE  /\ FirstLevel(m) \in Level
             /\ ~q_is_empty(m, FirstLevel(m))
             /\ \A k \in 0 .. FirstLevel(m) - 1 : q_is_empty(m, k)
  BY <1>3, <1>4 DEF FirstLevel
<1>5. ASSUME ~ pq_is_empty(m), NEW k \in Level, k < FirstLevel(m)
      PROVE  Contents(m, k) = << >>
  <2>1. k \in 0 .. FirstLevel(m) - 1
    <3>1. \A a, b \in Nat : a < b => a \in 0 .. b - 1
      OBVIOUS
    <3>2. FirstLevel(m) \in Nat /\ k \in Nat
      BY <1>4, <1>5, QueueFacts
    <3> QED
      BY <3>1, <3>2, <1>5
  <2> QED
    BY <2>1, <1>1, <1>4, <1>5
<1> QED
  BY <1>1, <1>2, <1>4, <1>5

(* pq_peek and pq_dequeue take the first PCB of that level.                *)
LEMMA PqDequeueSound ==
  ASSUME NEW m, NEW S, Sound(m, S)
  PROVE  /\ pq_is_empty(m) => pq_peek(m) = NULL /\ pq_dequeue(m) = m
         /\ ~ pq_is_empty(m) =>
              /\ pq_peek(m) = Head(Contents(m, FirstLevel(m)))
              /\ pq_peek(m) \in S
              /\ Contents(pq_dequeue(m), FirstLevel(m)) = Tail(Contents(m, FirstLevel(m)))
              /\ \A x \in Queue : x # FirstLevel(m) =>
                   Contents(pq_dequeue(m), x) = Contents(m, x)
              /\ getNextQuantumSize(m) = QuantumSize(FirstLevel(m))
         /\ Sound(pq_dequeue(m), S \ {pq_peek(m)})
<1>1. CASE pq_is_empty(m)
  <2>1. pq_peek(m) = NULL /\ pq_dequeue(m) = m
    BY <1>1 DEF pq_peek, pq_dequeue
  <2>2. S \ {NULL} = S
    BY LinkedQueuesAssumption DEF Sound
  <2> QED
    BY <1>1, <2>1, <2>2
<1>2. CASE ~ pq_is_empty(m)
  <2> DEFINE f == FirstLevel(m)
  <2>1. f \in Level /\ f \in Queue /\ Contents(m, f) # << >>
    BY <1>2, FirstLevelIs, QueueFacts
  <2>2. /\ pq_peek(m) = q_peek(m, f)
        /\ pq_dequeue(m) = q_dequeue(m, f)
        /\ getNextQuantumSize(m) = m.quantum_size[f]
    BY <1>2 DEF pq_peek, pq_dequeue, getNextQuantumSize
  <2>3. q_peek(m, f) = Head(Contents(m, f))
    BY <2>1, ContentsFacts
  <2>4. m.quantum_size[f] = QuantumSize(f)
    BY <2>1 DEF Sound
  <2> HIDE DEF f
  <2>5. /\ Head(Contents(m, f)) \in S
        /\ Sound(q_dequeue(m, f), S \ {Head(Contents(m, f))})
        /\ Contents(q_dequeue(m, f), f) = Tail(Contents(m, f))
        /\ \A x \in Queue : x # f => Contents(q_dequeue(m, f), x) = Contents(m, x)
    BY <2>1, DequeueSound
  <2> QED
    BY <1>2, <2>2, <2>3, <2>4, <2>5 DEF f
<1> QED
  BY <1>1, <1>2

-----------------------------------------------------------------------------
(* What hanging level l behind level 0 and cutting it off writes.          *)
SpliceWrites(m, l, r) ==
  /\ r \in Memory
  /\ r.first_node[0] = IF q_is_empty(m, 0) THEN m.first_node[l] ELSE m.first_node[0]
  /\ r.last_node[0] = m.last_node[l]
  /\ r.size[0] = IF q_is_empty(m, 0) THEN m.size[l] ELSE m.size[0] + m.size[l]
  /\ \A x \in Queue : x # 0 => /\ r.first_node[x] = m.first_node[x]
                               /\ r.last_node[x] = m.last_node[x]
                               /\ r.size[x] = m.size[x]
  /\ ~ q_is_empty(m, 0) => r.next[m.last_node[0]] = m.first_node[l]
  /\ \A x \in Node : q_is_empty(m, 0) \/ x # m.last_node[0] => r.next[x] = m.next[x]
  /\ r.quantum_size = m.quantum_size
  /\ r.pcb = m.pcb
  /\ r.allocated = m.allocated

(* The splice of resetMLFQ writes exactly that.                            *)
LEMMA SpliceFields ==
  ASSUME NEW m \in Memory, NEW l \in Level, l # 0,
         ~ q_is_empty(m, 0) => m.last_node[0] \in Node
  PROVE  SpliceWrites(m, l, Splice(m, l))
<1>0. 0 \in Queue /\ l \in Queue
  BY QueueFacts
<1>1. /\ m.next \in [Node -> Node \cup {NULL}]
      /\ m.first_node \in [Queue -> Node \cup {NULL}]
      /\ m.last_node \in [Queue -> Node \cup {NULL}]
      /\ m.size \in [Queue -> Nat]
  BY DEF Memory
<1>2. CASE q_is_empty(m, 0)
  <2> DEFINE a == [m EXCEPT !.first_node[0] = m.first_node[l]]
             b == [a EXCEPT !.last_node[0] = m.last_node[l]]
             r == [b EXCEPT !.size[0] = m.size[l]]
  <2>1. a \in Memory
    BY <1>0, <1>1 DEF Memory
  <2>2. b \in Memory
    <3> HIDE DEF a
    <3> QED
      BY <1>0, <1>1, <2>1 DEF Memory
  <2>3. r \in Memory
    <3> HIDE DEF b
    <3> QED
      BY <1>0, <1>1, <2>2 DEF Memory
  <2>4. Splice(m, l) = r
    BY <1>2 DEF Splice
  <2>5. /\ r.first_node = [m.first_node EXCEPT ![0] = m.first_node[l]]
        /\ r.last_node = [m.last_node EXCEPT ![0] = m.last_node[l]]
        /\ r.size = [m.size EXCEPT ![0] = m.size[l]]
        /\ r.next = m.next
        /\ r.quantum_size = m.quantum_size
        /\ r.pcb = m.pcb
        /\ r.allocated = m.allocated
    BY DEF Memory
  <2> HIDE DEF r
  <2> QED
    BY <1>0, <1>1, <1>2, <2>3, <2>4, <2>5 DEF SpliceWrites
<1>3. CASE ~ q_is_empty(m, 0)
  <2> DEFINE last == m.last_node[0]
             a == [m EXCEPT !.next[last] = m.first_node[l]]
             b == [a EXCEPT !.last_node[0] = m.last_node[l]]
             r == [b EXCEPT !.size[0] = @ + m.size[l]]
  <2>0. last \in Node
    BY <1>3
  <2>1. a \in Memory
    <3> HIDE DEF last
    <3> QED
      BY <1>0, <1>1, <2>0 DEF Memory
  <2>2. b \in Memory
    <3> HIDE DEF a
    <3> QED
      BY <1>0, <1>1, <2>1 DEF Memory
  <2>3. r \in Memory
    <3> HIDE DEF b
    <3> QED
      BY <1>0, <1>1, <2>2 DEF Memory
  <2>4. Splice(m, l) = r
    BY <1>3 DEF Splice
  <2>5. /\ r.first_node = m.first_node
        /\ r.last_node = [m.last_node EXCEPT ![0] = m.last_node[l]]
        /\ r.size = [m.size EXCEPT ![0] = @ + m.size[l]]
        /\ r.next = [m.next EXCEPT ![last] = m.first_node[l]]
        /\ r.quantum_size = m.quantum_size
        /\ r.pcb = m.pcb
        /\ r.allocated = m.allocated
    BY DEF Memory
  <2> HIDE DEF r
  <2> QED
    BY <1>0, <1>1, <1>3, <2>0, <2>3, <2>4, <2>5 DEF SpliceWrites
<1> QED
  BY <1>2, <1>3

(* What cutting off level l writes.                                        *)
EmptiedWrites(m, l, r) ==
  /\ r \in Memory
  /\ r.first_node[l] = NULL /\ r.last_node[l] = NULL /\ r.size[l] = 0
  /\ \A x \in Queue : x # l => /\ r.first_node[x] = m.first_node[x]
                               /\ r.last_node[x] = m.last_node[x]
                               /\ r.size[x] = m.size[x]
  /\ r.next = m.next
  /\ r.quantum_size = m.quantum_size
  /\ r.pcb = m.pcb
  /\ r.allocated = m.allocated

(* Emptied writes exactly that.                                            *)
LEMMA EmptiedFields ==
  ASSUME NEW m \in Memory, NEW l \in Queue
  PROVE  EmptiedWrites(m, l, Emptied(m, l))
<1>1. /\ m.first_node \in [Queue -> Node \cup {NULL}]
      /\ m.last_node \in [Queue -> Node \cup {NULL}]
      /\ m.size \in [Queue -> Nat]
  BY DEF Memory
<1> DEFINE a == [m EXCEPT !.first_node[l] = NULL]
           b == [a EXCEPT !.last_node[l] = NULL]
           r == [b EXCEPT !.size[l] = 0]
<1>2. a \in Memory
  BY DEF Memory
<1>3. b \in Memory
  <2> HIDE DEF a
  <2> QED
    BY <1>2 DEF Memory
<1>4. r \in Memory
  <2> HIDE DEF b
  <2> QED
    BY <1>3 DEF Memory
<1>5. Emptied(m, l) = r
  BY DEF Emptied
<1>6. /\ r.first_node = [m.first_node EXCEPT ![l] = NULL]
      /\ r.last_node = [m.last_node EXCEPT ![l] = NULL]
      /\ r.size = [m.size EXCEPT ![l] = 0]
      /\ r.next = m.next
      /\ r.quantum_size = m.quantum_size
      /\ r.pcb = m.pcb
      /\ r.allocated = m.allocated
  BY DEF Memory
<1> HIDE DEF r
<1> QED
  BY <1>1, <1>4, <1>5, <1>6 DEF EmptiedWrites
(* The splice hangs the nodes of level l behind those of level 0; the      *)
(* lists of the other queues, and of level l, stay what they were.         *)
LEMMA SpliceFollows ==
  ASSUME NEW m \in Memory, NEW c, Linked(m, c), NEW l \in Level, l # 0, c[l] # << >>,
         NEW r, SpliceWrites(m, l, r)
  PROVE  /\ Follows(r, 0, c[0] \o c[l])
         /\ \A x \in Queue : x # 0 => Follows(r, x, c[x])
<1>1. l \in Queue /\ 0 \in Queue
  BY QueueFacts
<1>2. Wired(m, c)
  BY DEF Linked
<1>3. c[0] \in Seq(Node) /\ c[l] \in Seq(Node)
  BY <1>1, <1>2 DEF Wired
<1>4. Follows(m, 0, c[0]) /\ Follows(m, l, c[l]) /\ IsInjective(c[0])
  BY <1>1, <1>2 DEF Wired
<1>5. \A x \in Queue : x # 0 => c[x] \in Seq(Node) /\ Range(c[x]) \cap Range(c[0]) = {}
  BY <1>1, <1>2 DEF Wired
<1>6. \A x \in Range(c[0]) : x \in Node
  BY <1>3, SeqFacts
<1>7. q_is_empty(m, 0) <=> c[0] = << >>
  BY <1>1, <1>2, EmptyIs
<1>8. c[0] # << >> => /\ m.last_node[0] = c[0][Len(c[0])]
                      /\ m.last_node[0] \in Range(c[0])
  <2>1. ASSUME c[0] # << >> PROVE Len(c[0]) \in 1 .. Len(c[0])
    BY <1>3, <2>1, SeqFacts
  <2> QED
    BY <2>1, <1>3, <1>4, SeqFacts DEF Follows
<1>9. ASSUME NEW x \in Queue, x # 0 PROVE Follows(r, x, c[x])
  <2>1. \A n \in Range(c[x]) : n \in Node
    BY <1>5, <1>9, SeqFacts
  <2>2. \A n \in Range(c[x]) : r.next[n] = m.next[n]
    BY <2>1, <1>5, <1>7, <1>8, <1>9 DEF SpliceWrites
  <2>3. Follows(m, x, c[x])
    BY <1>2 DEF Wired
  <2>4. /\ r.size[x] = m.size[x] /\ r.first_node[x] = m.first_node[x]
        /\ r.last_node[x] = m.last_node[x]
    BY <1>9 DEF SpliceWrites
  <2>5. c[x] \in Seq(Node)
    BY <1>5, <1>9
  <2> QED
    BY <2>2, <2>3, <2>4, <2>5, FollowsSame
<1>10. Follows(r, 0, c[0] \o c[l])
  <2>1. CASE c[0] = << >>
    <3>1. c[0] \o c[l] = c[l]
      BY <2>1, <1>3, ConcatEmptySeq
    <3>2. Follows(r, l, c[l])
      BY <1>1, <1>9
    <3>3. q_is_empty(m, 0)
      BY <2>1, <1>7
    <3>4. /\ r.first_node[0] = m.first_node[l] /\ r.last_node[0] = m.last_node[l]
          /\ r.size[0] = m.size[l]
      BY <3>3 DEF SpliceWrites
    <3>5. /\ r.first_node[l] = m.first_node[l] /\ r.last_node[l] = m.last_node[l]
          /\ r.size[l] = m.size[l]
      BY <1>1 DEF SpliceWrites
    <3>6. Follows(r, 0, c[l])
      BY <3>2, <3>4, <3>5 DEF Follows
    <3> QED
      BY <3>1, <3>6
  <2>2. CASE c[0] # << >>
    <3> DEFINE s == c[0]
               t == c[l]
               u == s \o t
    <3>1. s \in Seq(Node) /\ t \in Seq(Node) /\ s # << >> /\ t # << >>
      BY <1>3, <2>2
    <3>2. /\ u \in Seq(Node) /\ Len(u) = Len(s) + Len(t)
          /\ \A i \in 1 .. Len(s) : u[i] = s[i]
          /\ \A i \in 1 .. Len(t) : u[Len(s) + i] = t[i]
      <4> HIDE DEF s, t
      <4> QED
        BY <3>1, ConcatFacts
    <3>3. /\ Len(s) \in Nat /\ Len(t) \in Nat /\ Len(s) # 0 /\ Len(t) # 0
          /\ \A i \in 1 .. Len(s) : s[i] \in Range(s)
          /\ \A i \in 1 .. Len(t) : t[i] \in Range(t)
      BY <3>1, SeqFacts
    <3>4. /\ m.size[0] = Len(s) /\ m.first_node[0] = s[1]
          /\ \A i \in 1 .. Len(s) - 1 : m.next[s[i]] = s[i + 1]
      BY <1>4, <2>2 DEF Follows
    <3>5. /\ m.size[l] = Len(t) /\ m.first_node[l] = t[1] /\ m.last_node[l] = t[Len(t)]
      BY <1>4 DEF Follows
    <3>6. Follows(r, l, t)
      BY <1>1, <1>9
    <3>7. /\ r.next[t[Len(t)]] = NULL
          /\ \A i \in 1 .. Len(t) - 1 : r.next[t[i]] = t[i + 1]
      BY <3>1, <3>6 DEF Follows
    <3>8. /\ r.first_node[0] = s[1] /\ r.last_node[0] = t[Len(t)]
          /\ r.size[0] = Len(s) + Len(t)
          /\ r.next[s[Len(s)]] = t[1]
      BY <2>2, <1>7, <1>8, <3>4, <3>5 DEF SpliceWrites
    <3>9. \A i \in 1 .. Len(s) - 1 : r.next[s[i]] = s[i + 1]
      <4> SUFFICES ASSUME NEW i \in 1 .. Len(s) - 1 PROVE r.next[s[i]] = s[i + 1]
        OBVIOUS
      <4>1. i \in 1 .. Len(s) /\ Len(s) \in 1 .. Len(s) /\ i # Len(s)
        BY <3>3
      <4>2. s[i] # s[Len(s)]
        <5>1. DOMAIN s = 1 .. Len(s)
          BY <3>1, SeqFacts
        <5> QED
          BY <4>1, <5>1, <1>4 DEF IsInjective
      <4>3. s[i] \in Node /\ s[i] # m.last_node[0]
        BY <4>1, <4>2, <1>6, <1>8, <2>2, <3>3
      <4>4. r.next[s[i]] = m.next[s[i]]
        BY <4>3 DEF SpliceWrites
      <4> QED
        BY <4>4, <3>4
    <3> HIDE DEF u, s, t
    <3>10. u # << >> /\ u[1] = s[1] /\ u[Len(u)] = t[Len(t)]
      <4>1. 1 \in 1 .. Len(s) /\ Len(t) \in 1 .. Len(t) /\ Len(u) # 0
        BY <3>2, <3>3
      <4> QED
        BY <4>1, <3>2, EmptySeq
    <3>11. \A i \in 1 .. Len(u) - 1 : r.next[u[i]] = u[i + 1]
      <4> SUFFICES ASSUME NEW i \in 1 .. Len(u) - 1 PROVE r.next[u[i]] = u[i + 1]
        OBVIOUS
      <4>1. CASE i < Len(s)
        <5>1. i \in 1 .. Len(s) - 1 /\ i \in 1 .. Len(s) /\ i + 1 \in 1 .. Len(s)
          BY <4>1, <3>3
        <5> QED
          BY <5>1, <3>2, <3>9
      <4>2. CASE i = Len(s)
        <5>1. i \in 1 .. Len(s) /\ 1 \in 1 .. Len(t)
          BY <4>2, <3>3
        <5>2. u[i] = s[Len(s)] /\ u[i + 1] = t[1]
          BY <5>1, <4>2, <3>2
        <5> QED
          BY <5>2, <3>8
      <4>3. CASE i > Len(s)
        <5>1. PICK j \in Int : j = i - Len(s)
          <6>1. i - Len(s) \in Int
            BY <3>2, <3>3
          <6> QED
            BY <6>1
        <5>2. j \in 1 .. Len(t) - 1 /\ j \in 1 .. Len(t) /\ j + 1 \in 1 .. Len(t)
          BY <5>1, <4>3, <3>2, <3>3
        <5>3. u[Len(s) + j] = t[j] /\ u[Len(s) + (j + 1)] = t[j + 1]
          BY <5>2, <3>2
        <5>4. i = Len(s) + j /\ i + 1 = Len(s) + (j + 1)
          BY <5>1, <3>3
        <5>5. r.next[t[j]] = t[j + 1]
          BY <5>2, <3>7
        <5> QED
          BY <5>3, <5>4, <5>5
      <4> QED
        BY <4>1, <4>2, <4>3, <3>3
    <3>12. Follows(r, 0, u)
      BY <3>2, <3>7, <3>8, <3>10, <3>11 DEF Follows
    <3> QED
      BY <3>12 DEF u, s, t
  <2> QED
    BY <2>1, <2>2
<1> QED
  BY <1>9, <1>10

(* A level that has PCBs, once merged, has them behind those of level 0;   *)
(* the walk of resetReadyQueue meets exactly them, since the splice did    *)
(* not touch their nodes.                                                  *)
LEMMA MergeSound ==
  ASSUME NEW m, NEW S, Sound(m, S), NEW l \in Level, l # 0, Contents(m, l) # << >>
  PROVE  /\ Contents(Splice(m, l), l) = Contents(m, l)
         /\ Sound(Emptied(Splice(m, l), l), S)
         /\ Contents(Emptied(Splice(m, l), l), 0) = Contents(m, 0) \o Contents(m, l)
         /\ Contents(Emptied(Splice(m, l), l), l) = << >>
         /\ \A x \in Queue : x \notin {0, l} =>
              Contents(Emptied(Splice(m, l), l), x) = Contents(m, x)
<1>1. m \in Memory /\ l \in Queue /\ 0 \in Queue
  BY QueueFacts DEF Sound
<1>2. PICK c : Linked(m, c)
  BY DEF Sound
<1>3. Wired(m, c) /\ m.allocated = NodesOf(c)
  BY <1>2 DEF Linked
<1>4. c \in [Queue -> Seq(Node)]
  BY <1>3 DEF Wired
<1>5. \A x \in Queue : /\ c[x] \in Seq(Node) /\ Follows(m, x, c[x]) /\ IsInjective(c[x])
                       /\ \A y \in Queue : x # y => Range(c[x]) \cap Range(c[y]) = {}
  BY <1>3 DEF Wired
<1>6. \A x \in Queue : Contents(m, x) = PcbsOf(m, c[x])
  BY <1>1, <1>3, ContentsAre
<1>7. c[l] # << >>
  <2>1. c[l] \in Seq(Node)
    BY <1>1, <1>5
  <2> QED
    BY <2>1, <1>1, <1>6, PcbsAre
<1>8. ~ q_is_empty(m, 0) => m.last_node[0] \in Node
  <2>1. ASSUME c[0] # << >> PROVE m.last_node[0] \in Node
    <3>1. c[0] \in Seq(Node) /\ Follows(m, 0, c[0])
      BY <1>1, <1>5
    <3>2. Len(c[0]) \in 1 .. Len(c[0])
      BY <3>1, <2>1, SeqFacts
    <3>3. c[0][Len(c[0])] \in Node
      BY <3>1, <3>2, SeqFacts
    <3> QED
      BY <2>1, <3>1, <3>3 DEF Follows
  <2> QED
    BY <2>1, <1>1, <1>3, EmptyIs
<1> DEFINE r == Splice(m, l)
           e == Emptied(r, l)
           d == [c EXCEPT ![0] = c[0] \o c[l], ![l] = << >>]
<1>9. SpliceWrites(m, l, r)
  BY <1>1, <1>8, SpliceFields
<1> HIDE DEF r
<1>10. r \in Memory
  BY <1>9 DEF SpliceWrites
<1>11. EmptiedWrites(r, l, e)
  BY <1>1, <1>10, EmptiedFields
<1> HIDE DEF e
<1>12. e \in Memory /\ e.pcb = m.pcb /\ e.allocated = m.allocated
       /\ e.quantum_size = m.quantum_size
  BY <1>9, <1>11 DEF SpliceWrites, EmptiedWrites
<1>13. /\ Follows(r, 0, c[0] \o c[l])
       /\ \A x \in Queue : x # 0 => Follows(r, x, c[x])
  BY <1>1, <1>2, <1>7, <1>9, SpliceFollows
<1>14. /\ c[0] \in Seq(Node) /\ c[l] \in Seq(Node)
       /\ IsInjective(c[0]) /\ IsInjective(c[l])
       /\ Range(c[0]) \cap Range(c[l]) = {}
  BY <1>1, <1>5
<1>15. /\ c[0] \o c[l] \in Seq(Node)
       /\ Range(c[0] \o c[l]) = Range(c[0]) \cup Range(c[l])
       /\ IsInjective(c[0] \o c[l])
  BY <1>14, ConcatRange
<1>16. << >> \in Seq(Node) /\ IsInjective(<< >>) /\ Range(<< >>) = {}
  BY DEF IsInjective, Range
<1>17. /\ d \in [Queue -> Seq(Node)]
       /\ d[0] = c[0] \o c[l] /\ d[l] = << >>
       /\ \A x \in Queue : x \notin {0, l} => d[x] = c[x]
  BY <1>1, <1>4, <1>15, <1>16
<1> HIDE DEF d
<1>18. ASSUME NEW x \in Queue PROVE Follows(e, x, d[x]) /\ IsInjective(d[x])
  <2>1. CASE x = 0
    <3>1. e.size[0] = r.size[0] /\ e.first_node[0] = r.first_node[0]
          /\ e.last_node[0] = r.last_node[0] /\ e.next = r.next
      BY <1>1, <1>11 DEF EmptiedWrites
    <3>2. Follows(e, 0, c[0] \o c[l])
      BY <3>1, <1>13, <1>15, FollowsSame
    <3> QED
      BY <2>1, <3>2, <1>15, <1>17
  <2>2. CASE x = l
    <3>1. e.size[l] = 0 /\ e.first_node[l] = NULL /\ e.last_node[l] = NULL
      BY <1>11 DEF EmptiedWrites
    <3>2. Follows(e, l, << >>)
      BY <3>1 DEF Follows
    <3> QED
      BY <2>2, <3>2, <1>16, <1>17
  <2>3. CASE x \notin {0, l}
    <3>1. e.size[x] = r.size[x] /\ e.first_node[x] = r.first_node[x]
          /\ e.last_node[x] = r.last_node[x] /\ e.next = r.next
      BY <2>3, <1>11 DEF EmptiedWrites
    <3>2. Follows(r, x, c[x]) /\ c[x] \in Seq(Node) /\ IsInjective(c[x])
      BY <2>3, <1>5, <1>13
    <3>3. Follows(e, x, c[x])
      BY <3>1, <3>2, FollowsSame
    <3> QED
      BY <2>3, <3>2, <3>3, <1>17
  <2> QED
    BY <2>1, <2>2, <2>3
<1>19. ASSUME NEW x \in Queue, NEW y \in Queue, x # y
       PROVE  Range(d[x]) \cap Range(d[y]) = {}
  <2>1. /\ Range(d[0]) = Range(c[0]) \cup Range(c[l])
        /\ Range(d[l]) = {}
        /\ \A z \in Queue : z \notin {0, l} =>
             /\ Range(d[z]) = Range(c[z])
             /\ Range(d[z]) \cap (Range(c[0]) \cup Range(c[l])) = {}
    BY <1>1, <1>5, <1>15, <1>16, <1>17
  <2> QED
    BY <2>1, <1>5, <1>19
<1>20. NodesOf(d) = NodesOf(c)
  <2>1. /\ Range(d[0]) = Range(c[0]) \cup Range(c[l])
        /\ Range(d[l]) = {}
        /\ \A z \in Queue : z \notin {0, l} => Range(d[z]) = Range(c[z])
    BY <1>15, <1>16, <1>17
  <2>2. \A n : (\E x \in Queue : n \in Range(d[x])) <=> (\E x \in Queue : n \in Range(c[x]))
    BY <2>1, <1>1
  <2>3. \A n : n \in NodesOf(d) <=> n \in NodesOf(c)
    BY <2>2, InNodesOf
  <2> QED
    BY <2>3 DEF NodesOf
<1>21. Wired(e, d)
  BY <1>17, <1>18, <1>19 DEF Wired
<1>22. Linked(e, d)
  BY <1>3, <1>12, <1>20, <1>21 DEF Linked
<1>23. Sound(e, S)
  BY <1>12, <1>22 DEF Sound, Held
<1>24. \A s \in Seq(Node) : PcbsOf(e, s) = PcbsOf(m, s)
  BY <1>1, <1>12, PcbsSame
<1>25. \A x \in Queue : Contents(e, x) = PcbsOf(m, d[x])
  <2>1. \A x \in Queue : Contents(e, x) = PcbsOf(e, d[x]) /\ d[x] \in Seq(Node)
    BY <1>12, <1>17, <1>21, ContentsAre
  <2> QED
    BY <2>1, <1>24
<1>26. Contents(r, l) = Contents(m, l)
  <2>1. Chain(r, l) = c[l]
    BY <1>1, <1>10, <1>13, <1>14, ChainIs
  <2>2. Contents(r, l) = PcbsOf(r, c[l])
    BY <2>1 DEF Contents, PcbsOf
  <2>3. PcbsOf(r, c[l]) = PcbsOf(m, c[l])
    BY <1>1, <1>9, <1>10, <1>14, PcbsSame DEF SpliceWrites
  <2> QED
    BY <2>2, <2>3, <1>1, <1>6
<1>27. Contents(e, 0) = Contents(m, 0) \o Contents(m, l)
  BY <1>1, <1>6, <1>14, <1>17, <1>25, PcbsConcat
<1>28. Contents(e, l) = << >>
  BY <1>1, <1>16, <1>17, <1>25, PcbsAre
<1>29. \A x \in Queue : x \notin {0, l} => Contents(e, x) = Contents(m, x)
  BY <1>6, <1>17, <1>25
<1> QED
  BY <1>23, <1>26, <1>27, <1>28, <1>29 DEF e, r

-----------------------------------------------------------------------------
(* What resetMLFQ has done to m and prio when it has come to level k.      *)
MergedUpTo(acc, m, prio, S, k) ==
  /\ Sound(acc.memory, S)
  /\ \A x \in Queue : x \notin 0 .. k => Contents(acc.memory, x) = Contents(m, x)
  /\ \A x \in 1 .. k : Contents(acc.memory, x) = << >>
  /\ Contents(acc.memory, 0) = << >> <=> \A j \in 0 .. k : Contents(m, j) = << >>
  /\ acc.priority = [p \in PCB |-> IF \E j \in 1 .. k : p \in Range(Contents(m, j))
                                   THEN 0 ELSE prio[p]]
  /\ acc.allEmpty \in BOOLEAN
  /\ acc.allEmpty <=> \A i, j \in 0 .. k :
                        Contents(m, i) # << >> /\ Contents(m, j) # << >> => i = j

(* It starts with level 0 as it is.                                        *)
LEMMA MergeBegins ==
  ASSUME NEW m, NEW S, Sound(m, S), NEW prio, prio \in [PCB -> Level], NEW acc,
         acc = [memory |-> m, priority |-> prio, allEmpty |-> TRUE]
  PROVE  MergedUpTo(acc, m, prio, S, 0)
<1>1. acc.memory = m /\ acc.priority = prio /\ acc.allEmpty = TRUE
  OBVIOUS
<1>2. 0 .. 0 = {0} /\ 1 .. 0 = {}
  OBVIOUS
<1>3. prio = [p \in PCB |-> IF \E j \in 1 .. 0 : p \in Range(Contents(m, j))
                            THEN 0 ELSE prio[p]]
  BY <1>2
<1> QED
  BY <1>1, <1>2, <1>3 DEF MergedUpTo

(* Merging one more level.                                                 *)
LEMMA MergeStep ==
  ASSUME NEW m, NEW S, Sound(m, S), NEW prio, NEW acc, NEW k \in Nat,
         k + 1 \in Level, MergedUpTo(acc, m, prio, S, k)
  PROVE  /\ MergedUpTo(MergeLevel(acc, k + 1), m, prio, S, k + 1)
         /\ Contents(MergeLevel(acc, k + 1).memory, 0)
              = Contents(acc.memory, 0) \o Contents(m, k + 1)
<1> DEFINE l == k + 1
           a == acc.memory
<1>1. l \in Level /\ l \in Queue /\ l # 0 /\ 0 \in Queue /\ l \in Nat
  BY QueueFacts
<1>2. /\ \A x : x \in 0 .. l <=> x \in 0 .. k \/ x = l
      /\ \A x : x \in 1 .. l <=> x \in 1 .. k \/ x = l
      /\ l \notin 0 .. k /\ l \notin 1 .. k /\ 0 \in 0 .. k /\ 0 \notin 1 .. k
      /\ 1 .. k \subseteq Queue
  <2>1. \A x \in 1 .. k : x \in Level
    BY <1>1, LinkedQueuesAssumption DEF Level
  <2> QED
    BY <2>1, QueueFacts
<1> HIDE DEF l, a
<1>3. /\ Sound(a, S)
      /\ \A x \in Queue : x \notin 0 .. k => Contents(a, x) = Contents(m, x)
      /\ \A x \in 1 .. k : Contents(a, x) = << >>
      /\ Contents(a, 0) = << >> <=> \A j \in 0 .. k : Contents(m, j) = << >>
      /\ acc.priority = [p \in PCB |-> IF \E j \in 1 .. k : p \in Range(Contents(m, j))
                                       THEN 0 ELSE prio[p]]
      /\ acc.allEmpty \in BOOLEAN
      /\ acc.allEmpty <=> \A i, j \in 0 .. k :
                            Contents(m, i) # << >> /\ Contents(m, j) # << >> => i = j
  BY DEF MergedUpTo, a
<1>4. Contents(a, l) = Contents(m, l)
  BY <1>1, <1>2, <1>3
<1>5. q_is_empty(a, l) <=> Contents(m, l) = << >>
  BY <1>1, <1>3, <1>4, ContentsFacts
<1>6. q_is_empty(a, 0) <=> Contents(a, 0) = << >>
  BY <1>1, <1>3, ContentsFacts
<1>7. Contents(a, 0) \in Seq(S)
  BY <1>1, <1>3, ContentsFacts
<1>8. CASE Contents(m, l) = << >>
  <2>1. MergeLevel(acc, l) = acc
    BY <1>5, <1>8 DEF MergeLevel, a
  <2>2. Range(Contents(m, l)) = {}
    BY <1>8 DEF Range
  <2>3. Contents(a, 0) \o Contents(m, l) = Contents(a, 0)
    BY <1>7, <1>8, ConcatEmptySeq
  <2>4. \A x \in Queue : x \notin 0 .. l => Contents(a, x) = Contents(m, x)
    BY <1>2, <1>3
  <2>5. \A x \in 1 .. l : Contents(a, x) = << >>
    BY <1>2, <1>3, <1>4, <1>8
  <2>6. Contents(a, 0) = << >> <=> \A j \in 0 .. l : Contents(m, j) = << >>
    BY <1>2, <1>3, <1>8
  <2>7. \A p : (\E j \in 1 .. l : p \in Range(Contents(m, j)))
                 <=> (\E j \in 1 .. k : p \in Range(Contents(m, j)))
    BY <1>2, <2>2
  <2>8. acc.priority = [p \in PCB |-> IF \E j \in 1 .. l : p \in Range(Contents(m, j))
                                      THEN 0 ELSE prio[p]]
    BY <1>3, <2>7
  <2>9. acc.allEmpty <=> \A i, j \in 0 .. l :
                           Contents(m, i) # << >> /\ Contents(m, j) # << >> => i = j
    BY <1>2, <1>3, <1>8
  <2>10. MergedUpTo(acc, m, prio, S, l)
    BY <1>3, <2>4, <2>5, <2>6, <2>8, <2>9 DEF MergedUpTo, a
  <2> QED
    BY <2>1, <2>3, <2>10 DEF l, a
<1>9. CASE Contents(m, l) # << >>
  <2> DEFINE r == Splice(a, l)
             e == Emptied(r, l)
  <2>1. /\ Contents(r, l) = Contents(a, l)
        /\ Sound(e, S)
        /\ Contents(e, 0) = Contents(a, 0) \o Contents(a, l)
        /\ Contents(e, l) = << >>
        /\ \A x \in Queue : x \notin {0, l} => Contents(e, x) = Contents(a, x)
    BY <1>1, <1>3, <1>4, <1>9, MergeSound
  <2> DEFINE new == MergeLevel(acc, l)
  <2>2. ~ q_is_empty(acc.memory, l)
    BY <1>5, <1>9 DEF a
  <2>3. new = [ memory   |-> e,
                priority |-> [p \in PCB |-> IF p \in Range(Contents(r, l))
                                            THEN 0 ELSE acc.priority[p]],
                allEmpty |-> acc.allEmpty /\ q_is_empty(a, 0) ]
    BY <2>2 DEF MergeLevel, a
  <2> HIDE DEF new, e, r
  <2>4. /\ new.memory = e
        /\ new.priority = [p \in PCB |-> IF p \in Range(Contents(m, l))
                                         THEN 0 ELSE acc.priority[p]]
        /\ new.allEmpty = (acc.allEmpty /\ q_is_empty(a, 0))
    BY <2>1, <2>3, <1>4
  <2>5. \A x \in Queue : x \notin 0 .. l => Contents(e, x) = Contents(m, x)
    BY <1>2, <1>3, <2>1
  <2>6. \A x \in 1 .. l : Contents(e, x) = << >>
    BY <1>2, <1>3, <2>1
  <2>7. Contents(e, 0) # << >>
    <3>1. Contents(m, l) \in Seq(S)
      BY <1>1, ContentsFacts
    <3>2. /\ Len(Contents(a, 0) \o Contents(m, l))
               = Len(Contents(a, 0)) + Len(Contents(m, l))
      BY <1>7, <3>1, ConcatFacts
    <3>3. Len(Contents(a, 0)) \in Nat /\ Len(Contents(m, l)) \in Nat
          /\ Len(Contents(m, l)) # 0
      BY <1>7, <1>9, <3>1, SeqFacts
    <3>4. Len(Contents(e, 0)) # 0
      BY <2>1, <1>4, <3>2, <3>3
    <3>5. Len(<< >>) = 0
      OBVIOUS
    <3> QED
      BY <3>4, <3>5
  <2>8. Contents(e, 0) = << >> <=> \A j \in 0 .. l : Contents(m, j) = << >>
    BY <2>7, <1>2, <1>9
  <2>9. new.priority = [p \in PCB |-> IF \E j \in 1 .. l : p \in Range(Contents(m, j))
                                      THEN 0 ELSE prio[p]]
    <3>1. \A p : (\E j \in 1 .. l : p \in Range(Contents(m, j)))
                   <=> \/ p \in Range(Contents(m, l))
                       \/ \E j \in 1 .. k : p \in Range(Contents(m, j))
      BY <1>2
    <3>2. \A p \in PCB : (IF p \in Range(Contents(m, l)) THEN 0 ELSE acc.priority[p])
                           = IF \E j \in 1 .. l : p \in Range(Contents(m, j))
                             THEN 0 ELSE prio[p]
      BY <3>1, <1>3
    <3> QED
      BY <3>2, <2>4
  <2>10. new.allEmpty <=> \A j \in 0 .. k : Contents(m, j) = << >>
    BY <1>3, <1>6, <2>4
  <2>11. new.allEmpty <=> \A i, j \in 0 .. l :
                            Contents(m, i) # << >> /\ Contents(m, j) # << >> => i = j
    BY <1>2, <1>9, <2>10
  <2>12. new.allEmpty \in BOOLEAN
    BY <2>4
  <2>13. MergedUpTo(new, m, prio, S, l)
    BY <2>1, <2>4, <2>5, <2>6, <2>8, <2>9, <2>11, <2>12 DEF MergedUpTo
  <2>14. Contents(new.memory, 0) = Contents(a, 0) \o Contents(m, l)
    BY <2>1, <2>4, <1>4
  <2> QED
    BY <2>13, <2>14 DEF new, l, a
<1> QED
  BY <1>8, <1>9

(* The recursion of resetMLFQ, up to level n.                              *)
MergesTo(g, n, m, prio) ==
  g = [l \in 0 .. n |->
         IF l = 0 THEN [memory |-> m, priority |-> prio, allEmpty |-> TRUE]
         ELSE MergeLevel(g[l - 1], l)]

(* It is well defined.                                                     *)
LEMMA MergesExist ==
  ASSUME NEW m, NEW prio, NEW n \in Nat
  PROVE  \E g : MergesTo(g, n, m, prio)
<1> DEFINE first == [memory |-> m, priority |-> prio, allEmpty |-> TRUE]
           T == {k \in 0 .. n : \E g : MergesTo(g, k, m, prio)}
<1>1. 0 \in T
  <2> DEFINE g == [l \in 0 .. 0 |-> first]
  <2>1. MergesTo(g, 0, m, prio)
    BY DEF MergesTo
  <2> QED
    BY <2>1
<1>2. ASSUME NEW k \in 0 .. n - 1, k \in T PROVE k + 1 \in T
  <2>1. PICK g : MergesTo(g, k, m, prio)
    BY <1>2
  <2> DEFINE h == [l \in 0 .. k + 1 |-> IF l = k + 1 THEN MergeLevel(g[k], l) ELSE g[l]]
  <2>2. /\ k \in Nat /\ k + 1 \in 0 .. n
        /\ \A l \in 0 .. k + 1 : l = k + 1 \/ l \in 0 .. k
        /\ \A l \in 0 .. k + 1 : l # 0 => l - 1 \in 0 .. k
        /\ \A l \in 0 .. k : l \in 0 .. k + 1 /\ l # k + 1
        /\ k + 1 # 0 /\ (k + 1) - 1 = k
    OBVIOUS
  <2>3. \A l \in 0 .. k : g[l] = IF l = 0 THEN first ELSE MergeLevel(g[l - 1], l)
    BY <2>1 DEF MergesTo
  <2> HIDE DEF first
  <2>4. \A l \in 0 .. k : h[l] = g[l]
    BY <2>2
  <2>5. h[k + 1] = MergeLevel(g[k], k + 1)
    BY <2>2
  <2>6. \A l \in 0 .. k + 1 : h[l] = IF l = 0 THEN first ELSE MergeLevel(h[l - 1], l)
    BY <2>2, <2>3, <2>4, <2>5
  <2>7. h = [l \in 0 .. k + 1 |-> h[l]]
    OBVIOUS
  <2> HIDE DEF h
  <2>8. h = [l \in 0 .. k + 1 |-> IF l = 0 THEN first ELSE MergeLevel(h[l - 1], l)]
    BY <2>6, <2>7
  <2>9. MergesTo(h, k + 1, m, prio)
    BY <2>8 DEF MergesTo, first
  <2> QED
    BY <2>2, <2>9
<1>3. \A k \in 0 .. n - 1 : k \in T => k + 1 \in T
  BY <1>2
<1> HIDE DEF T
<1>4. \A k \in 0 .. n : k \in T
  BY <1>1, <1>3, Reaches
<1>5. n \in T
  BY <1>4
<1> QED
  BY <1>5 DEF T

(* The recursion of the abstract specification that puts the levels of q   *)
(* one behind the other, up to level n.                                    *)
FlattensTo(f, n, q) == f = [l \in 0 .. n |-> IF l = 0 THEN q[0] ELSE f[l - 1] \o q[l]]

(* It has one result.                                                      *)
LEMMA FlattenUnique ==
  ASSUME NEW q, NEW n \in Nat, NEW f, FlattensTo(f, n, q), NEW g, FlattensTo(g, n, q)
  PROVE  f = g
<1> DEFINE T == {k \in 0 .. n : f[k] = g[k]}
<1>1. 0 \in T
  BY DEF FlattensTo
<1>2. ASSUME NEW k \in 0 .. n - 1, k \in T PROVE k + 1 \in T
  <2>1. k + 1 \in 0 .. n /\ k + 1 # 0 /\ (k + 1) - 1 = k
    OBVIOUS
  <2>2. f[k + 1] = f[k] \o q[k + 1]
    BY <2>1 DEF FlattensTo
  <2>3. g[k + 1] = g[k] \o q[k + 1]
    BY <2>1 DEF FlattensTo
  <2> QED
    BY <2>1, <2>2, <2>3, <1>2
<1>3. \A k \in 0 .. n - 1 : k \in T => k + 1 \in T
  BY <1>2
<1> HIDE DEF T
<1>4. \A k \in 0 .. n : k \in T
  BY <1>1, <1>3, Reaches
<1>5. \A k \in 0 .. n : f[k] = g[k]
  BY <1>4 DEF T
<1>6. f = [k \in 0 .. n |-> f[k]] /\ g = [k \in 0 .. n |-> g[k]]
  BY DEF FlattensTo
<1> QED
  BY <1>5, <1>6

(* So it is what the abstract specification computes.                      *)
LEMMA FlattenedIs ==
  ASSUME NEW q, NEW f, FlattensTo(f, NUM_PRIORITIES - 1, q)
  PROVE  Abstract!Flattened(q) = f[NUM_PRIORITIES - 1]
<1> DEFINE n == NUM_PRIORITIES - 1
           y == CHOOSE g : FlattensTo(g, n, q)
<1>1. Abstract!Flattened(q) = y[n]
  BY DEF Abstract!Flattened, Abstract!Level, FlattensTo
<1>2. n \in Nat
  BY LinkedQueuesAssumption
<1>3. FlattensTo(f, n, q)
  OBVIOUS
<1> HIDE DEF n
<1>4. FlattensTo(y, n, q)
  BY <1>3
<1> HIDE DEF y
<1>5. y = f
  BY <1>2, <1>3, <1>4, FlattenUnique
<1> QED
  BY <1>1, <1>5 DEF n

(* What a reset leaves: every PCB of the levels on level 0, in level       *)
(* order, with priority 0 if it came from another level.                   *)
LEMMA ResetSound ==
  ASSUME NEW m, NEW S, Sound(m, S), NEW prio \in [PCB -> Level]
  PROVE  /\ MergedUpTo(resetMLFQ(m, prio), m, prio, S, NUM_PRIORITIES - 1)
         /\ Contents(resetMLFQ(m, prio).memory, 0)
              = Abstract!Flattened([l \in Level |-> Contents(m, l)])
<1> DEFINE n == NUM_PRIORITIES - 1
           x == CHOOSE g : MergesTo(g, n, m, prio)
<1>1. n \in Nat /\ Level = 0 .. n
  BY LinkedQueuesAssumption DEF Level
<1>2. resetMLFQ(m, prio) = x[n]
  BY DEF resetMLFQ, MergesTo, Level
<1> HIDE DEF n
<1>3. MergesTo(x, n, m, prio)
  BY <1>1, MergesExist
<1> HIDE DEF x
<1> DEFINE first == [memory |-> m, priority |-> prio, allEmpty |-> TRUE]
           T == {k \in 0 .. n : MergedUpTo(x[k], m, prio, S, k)}
<1>4. x[0] = first
  BY <1>1, <1>3 DEF MergesTo
<1>5. \A k \in 0 .. n - 1 : x[k + 1] = MergeLevel(x[k], k + 1) /\ k + 1 \in Level /\ k \in Nat
  <2> SUFFICES ASSUME NEW k \in 0 .. n - 1
               PROVE  x[k + 1] = MergeLevel(x[k], k + 1) /\ k + 1 \in Level /\ k \in Nat
    OBVIOUS
  <2>1. k + 1 \in 0 .. n /\ k + 1 # 0 /\ (k + 1) - 1 = k /\ k \in Nat
    BY <1>1
  <2> QED
    BY <2>1, <1>1, <1>3 DEF MergesTo
<1>6. 0 \in T
  BY <1>1, <1>4, MergeBegins
<1> HIDE DEF first
<1>7. \A k \in 0 .. n - 1 : k \in T => k + 1 \in T
  <2> SUFFICES ASSUME NEW k \in 0 .. n - 1, k \in T PROVE k + 1 \in T
    OBVIOUS
  <2>1. k + 1 \in 0 .. n
    BY <1>1
  <2>2. MergedUpTo(x[k], m, prio, S, k)
    OBVIOUS
  <2>3. MergedUpTo(MergeLevel(x[k], k + 1), m, prio, S, k + 1)
    BY <2>2, <1>5, MergeStep
  <2> QED
    BY <2>1, <2>3, <1>5
<1> HIDE DEF T
<1>8. \A k \in 0 .. n : k \in T
  BY <1>1, <1>6, <1>7, Reaches
<1>9. \A k \in 0 .. n : MergedUpTo(x[k], m, prio, S, k)
  BY <1>8 DEF T
<1>10. n \in 0 .. n
  BY <1>1
<1> DEFINE q == [l \in Level |-> Contents(m, l)]
           h == [k \in 0 .. n |-> Contents(x[k].memory, 0)]
<1>11. FlattensTo(h, n, q)
  <2>1. h[0] = q[0] /\ 0 \in 0 .. n
    BY <1>1, <1>4 DEF first
  <2>2. ASSUME NEW k \in 0 .. n, k # 0 PROVE h[k] = h[k - 1] \o q[k]
    <3>1. k - 1 \in 0 .. n - 1 /\ k - 1 \in 0 .. n /\ (k - 1) + 1 = k /\ k \in Level
      BY <1>1, <2>2
    <3>2. PICK j \in 0 .. n - 1 : j = k - 1
      BY <3>1
    <3>3. j + 1 = k /\ j \in 0 .. n
      BY <3>1, <3>2
    <3>4. MergedUpTo(x[j], m, prio, S, j) /\ x[j + 1] = MergeLevel(x[j], j + 1)
          /\ j + 1 \in Level /\ j \in Nat
      BY <3>3, <1>5, <1>9
    <3> DEFINE a == x[j]
    <3>5. MergedUpTo(a, m, prio, S, j) /\ j + 1 \in Level /\ j \in Nat
      BY <3>4
    <3> HIDE DEF a
    <3>6. Contents(MergeLevel(a, j + 1).memory, 0) = Contents(a.memory, 0) \o Contents(m, j + 1)
      BY <3>5, MergeStep
    <3>7. Contents(MergeLevel(x[j], j + 1).memory, 0)
            = Contents(x[j].memory, 0) \o Contents(m, j + 1)
      BY <3>6 DEF a
    <3>8. Contents(x[j + 1].memory, 0) = Contents(x[j].memory, 0) \o Contents(m, j + 1)
      BY <3>4, <3>7
    <3> QED
      BY <3>1, <3>2, <3>3, <3>8
  <2> HIDE DEF q
  <2>3. h = [k \in 0 .. n |-> h[k]]
    OBVIOUS
  <2> HIDE DEF h
  <2>4. h = [k \in 0 .. n |-> IF k = 0 THEN q[0] ELSE h[k - 1] \o q[k]]
    BY <2>1, <2>2, <2>3
  <2> QED
    BY <2>4 DEF FlattensTo
<1> HIDE DEF q
<1>12. h[n] = Contents(x[n].memory, 0)
  BY <1>10
<1> HIDE DEF h
<1>13. Abstract!Flattened(q) = h[n]
  BY <1>11, FlattenedIs DEF n
<1>14. Contents(x[n].memory, 0) = Abstract!Flattened([l \in Level |-> Contents(m, l)])
  BY <1>12, <1>13 DEF q
<1> QED
  BY <1>2, <1>9, <1>10, <1>14 DEF n

-----------------------------------------------------------------------------
(* The recursion of EmptyKilled, from first on, up to n.                   *)
ReapsTo(g, n, first) ==
  g = [k \in 0 .. n |-> IF k = 0 THEN first ELSE ReapOne(g[k - 1])]

(* It is well defined.                                                     *)
LEMMA ReapsExist ==
  ASSUME NEW first, NEW n \in Nat
  PROVE  \E g : ReapsTo(g, n, first)
<1> DEFINE T == {k \in 0 .. n : \E g : ReapsTo(g, k, first)}
<1>1. 0 \in T
  <2> DEFINE g == [l \in 0 .. 0 |-> first]
  <2>1. ReapsTo(g, 0, first)
    BY DEF ReapsTo
  <2> QED
    BY <2>1
<1>2. ASSUME NEW k \in 0 .. n - 1, k \in T PROVE k + 1 \in T
  <2>1. PICK g : ReapsTo(g, k, first)
    BY <1>2
  <2> DEFINE h == [l \in 0 .. k + 1 |-> IF l = k + 1 THEN ReapOne(g[k]) ELSE g[l]]
  <2>2. /\ k \in Nat /\ k + 1 \in 0 .. n
        /\ \A l \in 0 .. k + 1 : l = k + 1 \/ l \in 0 .. k
        /\ \A l \in 0 .. k + 1 : l # 0 => l - 1 \in 0 .. k
        /\ \A l \in 0 .. k : l \in 0 .. k + 1 /\ l # k + 1
        /\ k + 1 # 0 /\ (k + 1) - 1 = k
    OBVIOUS
  <2>3. \A l \in 0 .. k : g[l] = IF l = 0 THEN first ELSE ReapOne(g[l - 1])
    BY <2>1 DEF ReapsTo
  <2>4. \A l \in 0 .. k : h[l] = g[l]
    BY <2>2
  <2>5. h[k + 1] = ReapOne(g[k])
    BY <2>2
  <2>6. \A l \in 0 .. k + 1 : h[l] = IF l = 0 THEN first ELSE ReapOne(h[l - 1])
    BY <2>2, <2>3, <2>4, <2>5
  <2>7. h = [l \in 0 .. k + 1 |-> h[l]]
    OBVIOUS
  <2> HIDE DEF h
  <2>8. h = [l \in 0 .. k + 1 |-> IF l = 0 THEN first ELSE ReapOne(h[l - 1])]
    BY <2>6, <2>7
  <2>9. ReapsTo(h, k + 1, first)
    BY <2>8 DEF ReapsTo
  <2> QED
    BY <2>2, <2>9
<1>3. \A k \in 0 .. n - 1 : k \in T => k + 1 \in T
  BY <1>2
<1> HIDE DEF T
<1>4. \A k \in 0 .. n : k \in T
  BY <1>1, <1>3, Reaches
<1>5. n \in T
  BY <1>4
<1> QED
  BY <1>5 DEF T

(* The first j elements of a sequence, as a set.                           *)
FirstOf(K, j) == {K[i] : i \in 1 .. j}

(* What the loop has done to m when j PCBs of the killed queue K are off   *)
(* it: the last of them is toKill; released are those before it, but not   *)
(* the one that would be left alone.                                       *)
ReapedTo(acc, m, S, K, j) ==
  /\ Sound(acc.memory, S \ FirstOf(K, j))
  /\ Len(Contents(acc.memory, killed)) = Len(K) - j
  /\ \A i \in 1 .. Len(K) - j : Contents(acc.memory, killed)[i] = K[j + i]
  /\ \A x \in Queue : x # killed => Contents(acc.memory, x) = Contents(m, x)
  /\ acc.toKill = K[j]
  /\ acc.released = {K[i] : i \in {h \in 1 .. j - 1 : h <= Len(K) - 2}}

(* The dequeue the loop begins with.                                       *)
LEMMA ReapBegins ==
  ASSUME NEW m, NEW S, Sound(m, S), Contents(m, killed) # << >>, NEW acc,
         acc = [ memory   |-> q_dequeue(m, killed),
                 toKill   |-> q_peek(m, killed),
                 released |-> {} ]
  PROVE  ReapedTo(acc, m, S, Contents(m, killed), 1)
<1> DEFINE K == Contents(m, killed)
<1>1. K \in Seq(S) /\ q_peek(m, killed) = Head(K) /\ K # << >>
  BY QueueFacts, ContentsFacts
<1>2. /\ Sound(q_dequeue(m, killed), S \ {Head(K)})
      /\ Contents(q_dequeue(m, killed), killed) = Tail(K)
      /\ \A x \in Queue : x # killed => Contents(q_dequeue(m, killed), x) = Contents(m, x)
  BY QueueFacts, DequeueSound
<1>3. acc.memory = q_dequeue(m, killed) /\ acc.toKill = q_peek(m, killed) /\ acc.released = {}
  OBVIOUS
<1> HIDE DEF K
<1>4. /\ Head(K) = K[1] /\ Len(Tail(K)) = Len(K) - 1
      /\ \A i \in 1 .. Len(Tail(K)) : Tail(K)[i] = K[i + 1]
      /\ Len(K) \in Nat
  BY <1>1, HeadTailProperties, LenProperties
<1>5. FirstOf(K, 1) = {Head(K)}
  BY <1>4 DEF FirstOf
<1>6. \A i \in 1 .. Len(K) - 1 : Tail(K)[i] = K[1 + i]
  <2>1. \A i \in 1 .. Len(K) - 1 : i + 1 = 1 + i
    BY <1>4
  <2> QED
    BY <1>4, <2>1
<1>7. {K[i] : i \in {h \in 1 .. 1 - 1 : h <= Len(K) - 2}} = {}
  OBVIOUS
<1>8. ReapedTo(acc, m, S, K, 1)
  BY <1>1, <1>2, <1>3, <1>4, <1>5, <1>6, <1>7 DEF ReapedTo
<1> QED
  BY <1>8 DEF K

(* One more turn of the loop.                                              *)
LEMMA ReapStep ==
  ASSUME NEW m, NEW S, NEW K \in Seq(S), IsInjective(K), NEW acc,
         NEW j \in 1 .. Len(K), ReapedTo(acc, m, S, K, j)
  PROVE  /\ j < Len(K) => ReapedTo(ReapOne(acc), m, S, K, j + 1)
         /\ j = Len(K) => ReapOne(acc) = acc
<1> DEFINE a == acc.memory
           C == Contents(a, killed)
           U == S \ FirstOf(K, j)
<1>1. /\ Sound(a, U)
      /\ Len(C) = Len(K) - j
      /\ \A i \in 1 .. Len(K) - j : C[i] = K[j + i]
      /\ \A x \in Queue : x # killed => Contents(a, x) = Contents(m, x)
      /\ acc.toKill = K[j]
      /\ acc.released = {K[i] : i \in {h \in 1 .. j - 1 : h <= Len(K) - 2}}
  BY DEF ReapedTo
<1>2. C \in Seq(U) /\ (q_is_empty(a, killed) <=> C = << >>) /\ a.size[killed] = Len(C)
      /\ (C # << >> => q_peek(a, killed) = Head(C))
  BY <1>1, QueueFacts, ContentsFacts
<1>3. Len(K) \in Nat /\ Len(C) \in Nat
  BY <1>2, LenProperties
<1> HIDE DEF C, U
<1>4. ASSUME j = Len(K) PROVE ReapOne(acc) = acc
  <2>1. C = << >>
    BY <1>1, <1>2, <1>3, <1>4, EmptySeq
  <2> QED
    BY <2>1, <1>2 DEF ReapOne
<1>5. ASSUME j < Len(K) PROVE ReapedTo(ReapOne(acc), m, S, K, j + 1)
  <2>1. C # << >>
    <3>1. Len(C) # 0
      BY <1>1, <1>3, <1>5
    <3> QED
      BY <3>1
  <2> DEFINE e == q_dequeue(a, killed)
             new == ReapOne(acc)
  <2>2. /\ Head(C) \in U /\ Sound(e, U \ {Head(C)})
        /\ Contents(e, killed) = Tail(C)
        /\ \A x \in Queue : x # killed => Contents(e, x) = Contents(a, x)
    BY <1>1, <2>1, QueueFacts, DequeueSound DEF C
  <2>3. new = [ memory   |-> e,
                toKill   |-> q_peek(a, killed),
                released |-> IF a.size[killed] > 1
                             THEN acc.released \cup {acc.toKill} ELSE acc.released ]
    BY <1>2, <2>1 DEF ReapOne
  <2> HIDE DEF e, new
  <2>4. /\ new.memory = e /\ new.toKill = Head(C)
        /\ new.released = IF Len(C) > 1 THEN acc.released \cup {K[j]} ELSE acc.released
    BY <2>1, <2>3, <1>1, <1>2
  <2>5. /\ Head(C) = C[1] /\ Len(Tail(C)) = Len(C) - 1
        /\ \A i \in 1 .. Len(Tail(C)) : Tail(C)[i] = C[i + 1]
    BY <1>2, <2>1, HeadTailProperties
  <2>6. Head(C) = K[j + 1]
    <3>1. 1 \in 1 .. Len(K) - j
      BY <1>3, <1>5
    <3> QED
      BY <3>1, <2>5, <1>1
  <2>7. Len(Tail(C)) = Len(K) - (j + 1)
    BY <1>1, <1>3, <2>5
  <2>8. \A i \in 1 .. Len(K) - (j + 1) : Tail(C)[i] = K[(j + 1) + i]
    <3> SUFFICES ASSUME NEW i \in 1 .. Len(K) - (j + 1) PROVE Tail(C)[i] = K[(j + 1) + i]
      OBVIOUS
    <3>1. i \in 1 .. Len(Tail(C)) /\ i + 1 \in 1 .. Len(K) - j /\ j + (i + 1) = (j + 1) + i
      BY <1>3, <2>7
    <3> QED
      BY <3>1, <2>5, <1>1
  <2>9. U \ {Head(C)} = S \ FirstOf(K, j + 1)
    <3>1. \A i : i \in 1 .. j + 1 <=> i \in 1 .. j \/ i = j + 1
      OBVIOUS
    <3>2. FirstOf(K, j + 1) = FirstOf(K, j) \cup {K[j + 1]}
      BY <3>1 DEF FirstOf
    <3> QED
      BY <3>2, <2>6 DEF U
  <2>10. new.released = {K[i] : i \in {h \in 1 .. (j + 1) - 1 : h <= Len(K) - 2}}
    <3>1. CASE Len(C) > 1
      <4>1. \A h : h \in {i \in 1 .. (j + 1) - 1 : i <= Len(K) - 2}
                     <=> h \in {i \in 1 .. j - 1 : i <= Len(K) - 2} \/ h = j
        BY <3>1, <1>1, <1>3
      <4> QED
        BY <4>1, <3>1, <1>1, <2>4
    <3>2. CASE ~ (Len(C) > 1)
      <4>1. \A h : h \in {i \in 1 .. (j + 1) - 1 : i <= Len(K) - 2}
                     <=> h \in {i \in 1 .. j - 1 : i <= Len(K) - 2}
        BY <3>2, <1>1, <1>3, <1>5
      <4> QED
        BY <4>1, <3>2, <1>1, <2>4
    <3> QED
      BY <3>1, <3>2
  <2>11. ReapedTo(new, m, S, K, j + 1)
    BY <1>1, <2>2, <2>4, <2>6, <2>7, <2>8, <2>9, <2>10 DEF ReapedTo
  <2> QED
    BY <2>11 DEF new
<1> QED
  BY <1>4, <1>5

(* The killed queue is emptied, and of its PCBs all but the last two are   *)
(* released, or the only one.                                              *)
LEMMA EmptyKilledSound ==
  ASSUME NEW m, NEW S, Sound(m, S), Contents(m, killed) # << >>
  PROVE  LET K == Contents(m, killed)
             e == EmptyKilled(m)
         IN /\ Sound(e.memory, S \ Range(K))
            /\ Contents(e.memory, killed) = << >>
            /\ \A x \in Queue : x # killed => Contents(e.memory, x) = Contents(m, x)
            /\ e.released = IF Len(K) = 1 THEN Range(K) ELSE {K[i] : i \in 1 .. Len(K) - 2}
<1> DEFINE K == Contents(m, killed)
           L == Len(K)
           n == Cardinality(Node)
           first == [ memory   |-> q_dequeue(m, killed),
                      toKill   |-> q_peek(m, killed),
                      released |-> {} ]
           x == CHOOSE g : ReapsTo(g, n, first)
           e == EmptyKilled(m)
<1>1. e = IF q_is_empty(first.memory, killed)
          THEN [first EXCEPT !.released = {first.toKill}] ELSE x[n]
  BY DEF EmptyKilled, ReapsTo
<1> HIDE DEF e
<1> DEFINE done == /\ Sound(e.memory, S \ Range(K))
                   /\ Contents(e.memory, killed) = << >>
                   /\ \A q \in Queue : q # killed => Contents(e.memory, q) = Contents(m, q)
                   /\ e.released = IF L = 1 THEN Range(K) ELSE {K[i] : i \in 1 .. L - 2}
<1>2. ReapedTo(first, m, S, K, 1)
  BY ReapBegins
<1>3. K \in Seq(S) /\ IsInjective(K) /\ K # << >>
  BY QueueFacts, ContentsFacts
<1>4. L \in Nat /\ L # 0 /\ n \in Nat /\ L <= n
  <2>1. PICK c : Linked(m, c)
    BY DEF Sound
  <2>2. Wired(m, c) /\ m \in Memory
    BY <2>1 DEF Linked, Sound
  <2>3. c[killed] \in Seq(Node) /\ IsInjective(c[killed])
    BY <2>2, QueueFacts DEF Wired
  <2>4. K = PcbsOf(m, c[killed])
    BY <2>2, QueueFacts, ContentsAre
  <2>5. Len(K) = Len(c[killed])
    BY <2>2, <2>3, <2>4, PcbsAre
  <2>6. Len(c[killed]) \in Nat /\ n \in Nat /\ Len(c[killed]) <= n
    BY <2>3, NodesCounted
  <2>7. Len(K) # 0
    BY <1>3, EmptySeq
  <2> QED
    BY <2>5, <2>6, <2>7
<1> HIDE DEF K, n
<1>5. FirstOf(K, L) = Range(K)
  BY <1>3, LenProperties DEF FirstOf, Range
<1>6. ReapsTo(x, n, first)
  BY <1>4, ReapsExist
<1> HIDE DEF x
<1>7. ASSUME NEW acc, ReapedTo(acc, m, S, K, L)
      PROVE  /\ Sound(acc.memory, S \ Range(K))
             /\ Contents(acc.memory, killed) = << >>
             /\ \A q \in Queue : q # killed => Contents(acc.memory, q) = Contents(m, q)
             /\ acc.toKill = K[L]
             /\ L # 1 => acc.released = {K[i] : i \in 1 .. L - 2}
  <2>1. /\ Sound(acc.memory, S \ FirstOf(K, L))
        /\ Len(Contents(acc.memory, killed)) = L - L
        /\ \A q \in Queue : q # killed => Contents(acc.memory, q) = Contents(m, q)
        /\ acc.toKill = K[L]
        /\ acc.released = {K[i] : i \in {h \in 1 .. L - 1 : h <= L - 2}}
    BY <1>7 DEF ReapedTo
  <2>2. Contents(acc.memory, killed) = << >>
    <3>1. Contents(acc.memory, killed) \in Seq(S \ FirstOf(K, L))
      BY <2>1, QueueFacts, ContentsFacts
    <3>2. Len(Contents(acc.memory, killed)) = 0
      BY <2>1, <1>4
    <3> QED
      BY <3>1, <3>2, EmptySeq
  <2>3. {h \in 1 .. L - 1 : h <= L - 2} = 1 .. L - 2
    BY <1>4
  <2> QED
    BY <2>1, <2>2, <2>3, <1>5
<1>8. ASSUME q_is_empty(first.memory, killed) PROVE done
  <2>1. Contents(first.memory, killed) = << >>
    <3>1. Sound(first.memory, S \ FirstOf(K, 1))
      BY <1>2 DEF ReapedTo
    <3> HIDE DEF first
    <3> QED
      BY <3>1, <1>8, QueueFacts, ContentsFacts
  <2>2. L = 1
    <3>1. Len(Contents(first.memory, killed)) = L - 1
      BY <1>2 DEF ReapedTo
    <3>2. Len(<< >>) = 0
      OBVIOUS
    <3> HIDE DEF first
    <3> QED
      BY <3>1, <3>2, <2>1, <1>4
  <2>3. e.memory = first.memory /\ e.released = {first.toKill}
    BY <1>1, <1>8
  <2> HIDE DEF first
  <2>4. Range(K) = {K[1]}
    BY <2>2, <1>5 DEF FirstOf
  <2>5. e.released = Range(K)
    BY <1>2, <2>3, <2>4 DEF ReapedTo
  <2> QED
    BY <1>2, <1>7, <2>2, <2>3, <2>5
<1>9. ASSUME ~ q_is_empty(first.memory, killed) PROVE done
  <2>1. L > 1 /\ L # 1
    <3>1. Sound(first.memory, S \ FirstOf(K, 1))
          /\ Len(Contents(first.memory, killed)) = L - 1
      BY <1>2 DEF ReapedTo
    <3> HIDE DEF first
    <3>2. Contents(first.memory, killed) \in Seq(S \ FirstOf(K, 1))
          /\ Contents(first.memory, killed) # << >>
      BY <3>1, <1>9, QueueFacts, ContentsFacts
    <3>3. Len(Contents(first.memory, killed)) # 0
      BY <3>2, EmptySeq
    <3> QED
      BY <3>1, <3>3, <1>4
  <2>2. e = x[n]
    BY <1>1, <1>9
  <2> HIDE DEF first
  <2> DEFINE turn(k) == IF k + 1 <= L THEN k + 1 ELSE L
             T == {k \in 0 .. n : ReapedTo(x[k], m, S, K, turn(k))}
  <2>3. 0 \in T
    BY <1>2, <1>4, <1>6, <2>1 DEF ReapsTo
  <2>4. ASSUME NEW k \in 0 .. n - 1, k \in T PROVE k + 1 \in T
    <3>1. k + 1 \in 0 .. n /\ k + 1 # 0 /\ (k + 1) - 1 = k /\ k \in Nat
      BY <1>4
    <3>2. x[k + 1] = ReapOne(x[k])
      BY <3>1, <1>6 DEF ReapsTo
    <3>3. ReapedTo(x[k], m, S, K, turn(k))
      BY <2>4
    <3>4. turn(k) \in 1 .. L
      BY <3>1, <1>4
    <3>5. /\ turn(k) < L => turn(k + 1) = turn(k) + 1
          /\ turn(k) = L => turn(k + 1) = turn(k)
          /\ turn(k) < L \/ turn(k) = L
      BY <3>1, <1>4
    <3> HIDE DEF turn
    <3>6. /\ turn(k) < L => ReapedTo(ReapOne(x[k]), m, S, K, turn(k) + 1)
          /\ turn(k) = L => ReapOne(x[k]) = x[k]
      BY <3>3, <3>4, <1>3, ReapStep
    <3>7. ReapedTo(x[k + 1], m, S, K, turn(k + 1))
      BY <3>2, <3>3, <3>5, <3>6
    <3> QED
      BY <3>1, <3>7
  <2>5. \A k \in 0 .. n - 1 : k \in T => k + 1 \in T
    BY <2>4
  <2> HIDE DEF T
  <2>6. \A k \in 0 .. n : k \in T
    BY <1>4, <2>3, <2>5, Reaches
  <2>7. n \in 0 .. n /\ turn(n) = L
    BY <1>4
  <2> HIDE DEF turn
  <2>8. ReapedTo(x[n], m, S, K, L)
    BY <2>6, <2>7 DEF T
  <2> QED
    BY <1>7, <2>1, <2>2, <2>8
<1>10. done
  BY <1>8, <1>9
<1> QED
  BY <1>10 DEF e, K

-----------------------------------------------------------------------------
(* The MLFQ of the abstract specification that the levels of m stand for.  *)
Ready(m) == [l \in Level |-> Contents(m, l)]

(* The levels, and the quantum of each, are the same in both.              *)
LEMMA SameLevels ==
  /\ Abstract!Level = Level
  /\ \A l \in Level : Abstract!QuantumSize(l) = QuantumSize(l)
  /\ \A m : Ready(m) = [l \in Level |-> Contents(m, l)]
BY DEF Abstract!Level, Level, Abstract!QuantumSize, QuantumSize, Ready

(* priority_queue.c scans the levels for the PCB, and the quantum, that    *)
(* the abstract operators name.                                            *)
LEMMA ReadyFacts ==
  ASSUME NEW m, NEW S, Sound(m, S)
  PROVE  /\ Abstract!pq_is_empty(Ready(m)) <=> pq_is_empty(m)
         /\ Abstract!pq_peek(Ready(m)) = pq_peek(m)
         /\ Abstract!pq_dequeue(Ready(m)) = Ready(pq_dequeue(m))
         /\ Abstract!getNextQuantumSize(Ready(m)) = getNextQuantumSize(m)
<1> DEFINE R == Ready(m)
<1>1. R = [l \in Level |-> Contents(m, l)] /\ \A l \in Level : R[l] = Contents(m, l)
  BY DEF Ready
<1> HIDE DEF R
<1>2. Abstract!pq_is_empty(R) <=> pq_is_empty(m)
  BY <1>1, SameLevels, FirstLevelIs DEF Abstract!pq_is_empty
<1>3. CASE pq_is_empty(m)
  <2>1. pq_peek(m) = NULL /\ pq_dequeue(m) = m /\ getNextQuantumSize(m) = 0
    BY <1>3 DEF pq_peek, pq_dequeue, getNextQuantumSize
  <2>2. /\ Abstract!pq_peek(R) = NULL /\ Abstract!pq_dequeue(R) = R
        /\ Abstract!getNextQuantumSize(R) = 0
    BY <1>2, <1>3 DEF Abstract!pq_peek, Abstract!pq_dequeue, Abstract!getNextQuantumSize
  <2> QED
    BY <2>1, <2>2, <1>2 DEF R
<1>4. CASE ~ pq_is_empty(m)
  <2> DEFINE f == FirstLevel(m)
  <2>1. /\ f \in Level /\ Contents(m, f) # << >>
        /\ \A k \in Level : k < f => Contents(m, k) = << >>
    BY <1>4, FirstLevelIs
  <2>2. /\ pq_peek(m) = Head(Contents(m, f))
        /\ Contents(pq_dequeue(m), f) = Tail(Contents(m, f))
        /\ \A x \in Queue : x # f => Contents(pq_dequeue(m), x) = Contents(m, x)
        /\ getNextQuantumSize(m) = QuantumSize(f)
    BY <1>4, PqDequeueSound
  <2> HIDE DEF f
  <2>3. \A i, j \in Nat : ~ (i < j) /\ ~ (j < i) => i = j
    OBVIOUS
  <2>4. Abstract!TopLevel(R) = f
    <3>1. R[f] # << >> /\ \A j \in Level : j < f => R[j] = << >>
      BY <2>1, <1>1
    <3>2. \A i \in Level : R[i] # << >> /\ (\A j \in Level : j < i => R[j] = << >>) => i = f
      BY <2>1, <2>3, <3>1, QueueFacts
    <3> QED
      BY <2>1, <3>1, <3>2, SameLevels DEF Abstract!TopLevel
  <2>5. ~ Abstract!pq_is_empty(R)
    BY <1>2, <1>4
  <2>6. Abstract!pq_peek(R) = Head(R[f])
    BY <2>4, <2>5 DEF Abstract!pq_peek
  <2>7. Abstract!pq_dequeue(R) = [R EXCEPT ![f] = Tail(R[f])]
    BY <2>4, <2>5 DEF Abstract!pq_dequeue
  <2>8. Abstract!getNextQuantumSize(R) = Abstract!QuantumSize(f)
    BY <2>4, <2>5 DEF Abstract!getNextQuantumSize
  <2>9. [R EXCEPT ![f] = Tail(R[f])] = Ready(pq_dequeue(m))
    <3>1. \A l \in Level : [R EXCEPT ![f] = Tail(R[f])][l] = Contents(pq_dequeue(m), l)
      BY <1>1, <2>1, <2>2, QueueFacts
    <3> QED
      BY <1>1, <3>1 DEF Ready
  <2> QED
    BY <2>1, <2>2, <2>6, <2>7, <2>8, <2>9, <1>1, <1>2, SameLevels DEF R
<1> QED
  BY <1>3, <1>4

(* q_enqueue on a level is pq_enqueue, on another queue it leaves the MLFQ *)
(* as it was.                                                              *)
LEMMA ReadyEnqueue ==
  ASSUME NEW m, NEW S, Sound(m, S), NEW q \in Queue, NEW p \in PCB \ S, NEW n \in malloc(m)
  PROVE  /\ q \in Level => Ready(q_enqueue(m, q, p, n))
                             \in Abstract!EnqueuedByPriority(Ready(m), q, p)
         /\ q \notin Level => Ready(q_enqueue(m, q, p, n)) = Ready(m)
         /\ Contents(q_enqueue(m, q, p, n), q) \in Abstract!Enqueued(Contents(m, q), p)
         /\ \A x \in Queue : x # q => Contents(q_enqueue(m, q, p, n), x) = Contents(m, x)
<1> DEFINE r == q_enqueue(m, q, p, n)
<1>1. /\ n = NULL => r = m
      /\ n # NULL => Contents(r, q) = Append(Contents(m, q), p)
      /\ \A x \in Queue : x # q => Contents(r, x) = Contents(m, x)
  <2>1. Enqueues(m, q, p, n, r)
    BY EnqueueSound
  <2> QED
    BY <2>1 DEF Enqueues
<1> HIDE DEF r
<1>2. CASE n = NULL
  BY <1>1, <1>2 DEF Abstract!EnqueuedByPriority, Abstract!Enqueued, r
<1>3. CASE n # NULL
  <2>1. ASSUME q \in Level PROVE Ready(r) = Abstract!pq_enqueue(Ready(m), q, p)
    <3>1. Abstract!pq_enqueue(Ready(m), q, p)
            = [Ready(m) EXCEPT ![q] = Append(Ready(m)[q], p)]
      BY DEF Abstract!pq_enqueue, Abstract!q_enqueue
    <3>2. \A l \in Level : [Ready(m) EXCEPT ![q] = Append(Ready(m)[q], p)][l] = Contents(r, l)
      BY <1>1, <1>3, <2>1, QueueFacts DEF Ready
    <3> QED
      BY <3>1, <3>2 DEF Ready
  <2>2. ASSUME q \notin Level PROVE Ready(r) = Ready(m)
    BY <1>1, <1>3, <2>2, QueueFacts DEF Ready
  <2>3. Contents(r, q) = Abstract!q_enqueue(Contents(m, q), p)
    BY <1>1, <1>3 DEF Abstract!q_enqueue
  <2> QED
    BY <2>1, <2>2, <2>3, <1>1, <1>3 DEF Abstract!EnqueuedByPriority, Abstract!Enqueued, r
<1> QED
  BY <1>2, <1>3

(* scheduling and the dispatcher.                                          *)
LEMMA DispatchSound ==
  ASSUME NEW m, NEW S, Sound(m, S), Dispatch(m), currQuantumSize \in Nat
  PROVE  /\ Sound(memory', S \ {running'})
         /\ running' \in S \cup {NULL}
         /\ currQuantumSize' \in Nat
         /\ Abstract!Dispatch(Ready(m))
         /\ \A x \in Queue \ Level : Contents(memory', x) = Contents(m, x)
<1>1. /\ running' = pq_peek(m) /\ memory' = pq_dequeue(m)
      /\ currQuantumSize' = IF pq_is_empty(m) THEN currQuantumSize ELSE getNextQuantumSize(m)
  BY DEF Dispatch
<1>2. Sound(memory', S \ {running'})
  BY <1>1, PqDequeueSound
<1>3. running' \in S \cup {NULL}
  BY <1>1, PqDequeueSound
<1>4. currQuantumSize' \in Nat
  <2>1. ASSUME ~ pq_is_empty(m) PROVE getNextQuantumSize(m) \in Nat
    <3>1. getNextQuantumSize(m) = QuantumSize(FirstLevel(m)) /\ FirstLevel(m) \in Level
      BY <2>1, PqDequeueSound, FirstLevelIs
    <3>2. \A l \in Level : QuantumSize(l) \in Nat
      BY LinkedQueuesAssumption DEF QuantumSize, Level
    <3> QED
      BY <3>1, <3>2
  <2> QED
    BY <2>1, <1>1
<1>5. Ready(memory)' = Ready(pq_dequeue(m))
  BY <1>1 DEF Ready
<1>6. Abstract!Dispatch(Ready(m))
  BY <1>1, <1>5, ReadyFacts DEF Abstract!Dispatch, Ready
<1>7. ASSUME NEW x \in Queue \ Level PROVE Contents(memory', x) = Contents(m, x)
  <2>1. CASE pq_is_empty(m)
    BY <2>1, <1>1, PqDequeueSound
  <2>2. CASE ~ pq_is_empty(m)
    <3>1. FirstLevel(m) \in Level
      BY <2>2, FirstLevelIs
    <3> QED
      BY <3>1, <2>2, <1>1, PqDequeueSound
  <2> QED
    BY <2>1, <2>2
<1> QED
  BY <1>2, <1>3, <1>4, <1>6, <1>7

(* The PCB p, the first one of q, goes from there to the level l, or is    *)
(* lost for lack of memory: r is what that makes of m.                     *)
Moves(m, q, p, l, n, r) ==
  /\ p = Head(Contents(m, q))
  /\ Contents(m, q) # << >>
  /\ Contents(r, q) = Tail(Contents(m, q))
  /\ \A x \in Queue \ Level : x # q => Contents(r, x) = Contents(m, x)
  /\ Ready(r) \in Abstract!EnqueuedByPriority(Ready(m), l, p)
  /\ n # NULL => ~ pq_is_empty(r)

(* This is what AdmitPCB and IoInterrupt do.                               *)
LEMMA MoveSound ==
  ASSUME NEW m, NEW S, Sound(m, S), NEW q \in Queue \ Level, ~ q_is_empty(m, q),
         NEW l \in Level, NEW n \in malloc(q_dequeue(m, q)), NEW r,
         r = q_enqueue(q_dequeue(m, q), l, q_peek(m, q), n)
  PROVE  Sound(r, S) /\ Moves(m, q, q_peek(m, q), l, n, r)
<1> DEFINE p == q_peek(m, q)
           rest == q_dequeue(m, q)
<1>1. q \in Queue /\ l \in Queue /\ l # q /\ q \notin Level
  BY QueueFacts
<1>2. Contents(m, q) # << >> /\ p = Head(Contents(m, q))
  BY <1>1, ContentsFacts
<1>3. /\ p \in S /\ Sound(rest, S \ {p}) /\ Contents(rest, q) = Tail(Contents(m, q))
      /\ \A x \in Queue : x # q => Contents(rest, x) = Contents(m, x)
  BY <1>1, <1>2, DequeueSound
<1>4. p \in PCB \ (S \ {p}) /\ (S \ {p}) \cup {p} = S
  BY <1>3 DEF Sound
<1> HIDE DEF p, rest
<1>5. Sound(r, S) /\ Enqueues(rest, l, p, n, r)
  <2>1. Sound(q_enqueue(rest, l, p, n), (S \ {p}) \cup {p})
        /\ Enqueues(rest, l, p, n, q_enqueue(rest, l, p, n))
    BY <1>1, <1>3, <1>4, EnqueueSound DEF rest
  <2> QED
    BY <2>1, <1>4 DEF p, rest
<1>6. \A x \in Queue : x # l => Contents(r, x) = Contents(rest, x)
  BY <1>5 DEF Enqueues
<1>7. Ready(r) \in Abstract!EnqueuedByPriority(Ready(rest), l, p)
  <2>1. Ready(q_enqueue(rest, l, p, n)) \in Abstract!EnqueuedByPriority(Ready(rest), l, p)
    BY <1>1, <1>3, <1>4, ReadyEnqueue DEF rest
  <2> QED
    BY <2>1 DEF p, rest
<1>8. Ready(rest) = Ready(m)
  BY <1>1, <1>3, QueueFacts DEF Ready
<1>9. ASSUME n # NULL PROVE ~ pq_is_empty(r)
  <2>1. Contents(r, l) = Append(Contents(rest, l), p)
    BY <1>5, <1>9 DEF Enqueues
  <2>2. Contents(rest, l) \in Seq(S \ {p})
    BY <1>1, <1>3, ContentsFacts
  <2>3. Contents(r, l) # << >>
    BY <2>1, <2>2, MLFQ!AppendRange
  <2> QED
    BY <2>3, <1>5, FirstLevelIs
<1> QED
  BY <1>1, <1>2, <1>3, <1>5, <1>6, <1>7, <1>8, <1>9 DEF p, Moves

-----------------------------------------------------------------------------
(* The inductive invariant.  The lists hold processes that are alive, none *)
(* of them twice and not the one on the CPU: so a preempted process enters *)
(* a list it is not on, and a process that is released is on no list.      *)
(* While no allocation has failed the round of makePCBList finds the PCBs  *)
(* it has created.                                                         *)
ListInv ==
  /\ TypeOK
  /\ Sound(memory, alive \ {running})
  /\ running \in alive \cup {NULL}
  /\ ~ mallocFailed => /\ phase # "crashed"
                       /\ phase = "create" => Contents(memory, created) # << >>
                       /\ phase = "admit" => ~ pq_is_empty(memory)

(* The parts of TypeOK that Sound does not have already.                   *)
LEMMA TypeParts ==
  /\ TypeOK <=> /\ memory \in Memory
                /\ phase \in {"loop", "create", "admit", "crashed"}
                /\ priority \in [PCB -> Level]
                /\ running \in PCB \cup {NULL}
                /\ isNew \in BOOLEAN
                /\ currQuantumSize \in Nat
                /\ alive \subseteq PCB
                /\ mallocFailed \in BOOLEAN
  /\ NULL \notin PCB
BY LinkedQueuesAssumption DEF TypeOK, Memory

(* The variables of the abstract specification, in both states of a step.  *)
LEMMA AbstractState ==
  /\ [l \in Level |-> Contents(memory, l)] = Ready(memory)
  /\ [l \in Level |-> Contents(memory, l)]' = Ready(memory')
  /\ Contents(memory, created)' = Contents(memory', created)
  /\ Contents(memory, blocked)' = Contents(memory', blocked)
  /\ Contents(memory, killed)' = Contents(memory', killed)
  /\ pq_is_empty(memory)' = pq_is_empty(memory')
  /\ (alive \ {running})' = alive' \ {running'}
BY DEF Ready

(* A queue that got a node is not empty.                                   *)
LEMMA EnqueueFills ==
  ASSUME NEW m, NEW S, Sound(m, S), NEW q \in Queue, NEW p \in PCB \ S,
         NEW n \in malloc(m), n # NULL
  PROVE  /\ Contents(q_enqueue(m, q, p, n), q) # << >>
         /\ q \in Level => ~ pq_is_empty(q_enqueue(m, q, p, n))
<1> DEFINE r == q_enqueue(m, q, p, n)
<1>1. Sound(r, S \cup {p}) /\ Enqueues(m, q, p, n, r)
  BY EnqueueSound
<1>2. Contents(r, q) = Append(Contents(m, q), p)
  BY <1>1 DEF Enqueues
<1>3. Contents(m, q) \in Seq(S)
  BY ContentsFacts
<1> HIDE DEF r
<1>4. Contents(r, q) # << >>
  <2>1. Contents(m, q) \in Seq(S \cup {p})
    BY <1>1, <1>3
  <2>2. p \in Range(Append(Contents(m, q), p))
    BY <2>1, AppendRange
  <2>3. Range(<< >>) = {}
    BY DEF Range
  <2> QED
    BY <1>2, <2>2, <2>3
<1>5. q \in Level => ~ pq_is_empty(r)
  BY <1>1, <1>4, FirstLevelIs
<1> QED
  BY <1>4, <1>5 DEF r

(* The lists start empty.                                                  *)
LEMMA ListInit == Init => ListInv /\ Abstract!Init
<1> SUFFICES ASSUME Init PROVE ListInv /\ Abstract!Init
  OBVIOUS
<1>1. /\ phase = "loop"
      /\ memory = q_create(Queue, [q \in Queue |-> QuantumSize(q)])
      /\ priority = [p \in PCB |-> 0]
      /\ running = NULL /\ isNew = TRUE /\ currQuantumSize = 0
      /\ alive = {} /\ mallocFailed = FALSE
  BY DEF Init
<1>2. /\ memory.first_node = [q \in Queue |-> NULL]
      /\ memory.last_node = [q \in Queue |-> NULL]
      /\ memory.size = [q \in Queue |-> 0]
      /\ memory.quantum_size = [q \in Queue |-> QuantumSize(q)]
      /\ memory.next = [n \in Node |-> NULL]
      /\ memory.pcb = [n \in Node |-> NULL]
      /\ memory.allocated = {}
  BY <1>1 DEF q_create
<1>3. memory \in Memory
  <2>1. [q \in Queue |-> QuantumSize(q)] \in [Queue -> Nat]
    BY LinkedQueuesAssumption DEF QuantumSize, Level, Queue, created, blocked, killed
  <2> QED
    BY <1>1, <2>1 DEF q_create, Memory
<1> DEFINE c == [q \in Queue |-> << >>]
<1>4. Linked(memory, c)
  <2>1. c \in [Queue -> Seq(Node)] /\ \A q \in Queue : c[q] = << >>
    OBVIOUS
  <2>2. IsInjective(<< >>) /\ Range(<< >>) = {} /\ Len(<< >>) = 0 /\ 1 .. 0 - 1 = {}
    BY DEF IsInjective, Range
  <2> HIDE DEF c
  <2>3. \A q \in Queue : Follows(memory, q, c[q])
    BY <1>2, <2>1, <2>2 DEF Follows
  <2>4. Wired(memory, c)
    BY <2>1, <2>2, <2>3 DEF Wired
  <2>5. NodesOf(c) = {}
    BY <2>1, <2>2 DEF NodesOf
  <2> QED
    BY <1>2, <2>4, <2>5 DEF Linked
<1>5. Sound(memory, alive \ {running})
  BY <1>1, <1>2, <1>3, <1>4 DEF Sound, Held
<1>6. [p \in PCB |-> 0] \in [PCB -> Level]
  BY QueueFacts
<1>7. ListInv
  BY <1>1, <1>3, <1>5, <1>6, TypeParts DEF ListInv
<1>8. \A q \in Queue : Contents(memory, q) = << >>
  <2>1. Wired(memory, c)
    BY <1>4 DEF Linked
  <2>2. \A q \in Queue : Contents(memory, q) = PcbsOf(memory, << >>)
    BY <1>3, <2>1, ContentsAre
  <2>3. << >> \in Seq(Node)
    OBVIOUS
  <2>4. PcbsOf(memory, << >>) = << >>
    BY <1>3, <2>3, PcbsAre
  <2> QED
    BY <2>2, <2>4
<1>9. Abstract!pq_create = [l \in Level |-> Contents(memory, l)]
  BY <1>8, SameLevels, QueueFacts DEF Abstract!pq_create
<1>10. Abstract!Init
  BY <1>1, <1>8, <1>9, QueueFacts DEF Abstract!Init
<1> QED
  BY <1>7, <1>10

(* A new PCB enters created.                                               *)
LEMMA ListCreate ==
  ASSUME ListInv, NEW p \in PCB, CreatePCB(p)
  PROVE  ListInv' /\ Abstract!CreatePCB(p)
<1> DEFINE S == alive \ {running}
<1>1. /\ TypeOK /\ Sound(memory, S) /\ running \in alive \cup {NULL}
      /\ running \in PCB \cup {NULL} /\ alive \subseteq PCB /\ mallocFailed \in BOOLEAN
  BY TypeParts DEF ListInv
<1>2. PICK n \in malloc(memory) : /\ memory' = q_enqueue(memory, created, p, n)
                                  /\ mallocFailed' = (mallocFailed \/ n = NULL)
  BY DEF CreatePCB, NoteFailure
<1>3. /\ phase \in {"loop", "create"} /\ phase' = "create"
      /\ p \notin alive /\ alive' = alive \cup {p}
      /\ priority' = [priority EXCEPT ![p] = 0]
      /\ running' = running /\ isNew' = isNew /\ currQuantumSize' = currQuantumSize
  BY DEF CreatePCB
<1>4. p \in PCB \ S /\ S \cup {p} = alive' \ {running'}
  BY <1>1, <1>3, TypeParts
<1> HIDE DEF S
<1>5. Sound(memory', alive' \ {running'})
  BY <1>1, <1>2, <1>4, QueueFacts, EnqueueSound
<1>6. n # NULL => Contents(memory', created) # << >>
  BY <1>1, <1>2, <1>4, QueueFacts, EnqueueFills
<1>7. ListInv'
  <2>1. priority' \in [PCB -> Level]
    BY <1>1, <1>3, QueueFacts, TypeParts
  <2>2. TypeOK'
    BY <1>1, <1>2, <1>3, <1>5, <2>1, TypeParts DEF TypeOK, Sound, Memory
  <2> QED
    BY <2>2, <1>1, <1>2, <1>3, <1>5, <1>6 DEF ListInv
<1>8. /\ Ready(memory') = Ready(memory)
      /\ Contents(memory', created) \in Abstract!Enqueued(Contents(memory, created), p)
      /\ \A x \in Queue : x # created => Contents(memory', x) = Contents(memory, x)
  BY <1>1, <1>2, <1>4, QueueFacts, ReadyEnqueue
<1>9. Abstract!CreatePCB(p)
  BY <1>3, <1>8, QueueFacts, AbstractState DEF Abstract!CreatePCB
<1> QED
  BY <1>7, <1>9

(* No memory for a PCB.                                                    *)
LEMMA ListCreateFails ==
  ASSUME ListInv, CreateFails
  PROVE  ListInv' /\ Abstract!CreateFails
<1>1. /\ phase \in {"loop", "create"} /\ phase' = "crashed" /\ mallocFailed' = TRUE
      /\ memory' = memory /\ priority' = priority /\ running' = running
      /\ isNew' = isNew /\ currQuantumSize' = currQuantumSize /\ alive' = alive
  BY DEF CreateFails, NoteFailure
<1>2. ListInv'
  BY <1>1 DEF ListInv, TypeOK
<1>3. Abstract!CreateFails
  BY <1>1 DEF Abstract!CreateFails
<1> QED
  BY <1>2, <1>3

(* A new PCB goes from created to its level.                               *)
LEMMA ListAdmit ==
  ASSUME ListInv, AdmitPCB
  PROVE  ListInv' /\ Abstract!AdmitPCB
<1> DEFINE S == alive \ {running}
           p == q_peek(memory, created)
           rest == q_dequeue(memory, created)
<1>1. /\ TypeOK /\ Sound(memory, S) /\ running \in alive \cup {NULL}
      /\ priority \in [PCB -> Level] /\ mallocFailed \in BOOLEAN
  BY TypeParts DEF ListInv
<1>2. PICK n \in malloc(rest) : /\ memory' = q_enqueue(rest, priority[p], p, n)
                                /\ mallocFailed' = (mallocFailed \/ n = NULL)
  BY DEF AdmitPCB, NoteFailure
<1>3. /\ phase \in {"create", "admit"} /\ phase' = "admit" /\ ~ q_is_empty(memory, created)
      /\ priority' = priority /\ running' = running /\ isNew' = isNew
      /\ currQuantumSize' = currQuantumSize /\ alive' = alive
  BY DEF AdmitPCB
<1>4. p \in S /\ S \subseteq PCB
  <2>1. p \in S
    BY <1>1, <1>3, QueueFacts, PeekSound
  <2> QED
    BY <2>1, <1>1 DEF Sound
<1>5. priority[p] \in Level /\ created \in Queue \ Level
  BY <1>1, <1>4, QueueFacts
<1> HIDE DEF S
<1>6. Sound(memory', S) /\ Moves(memory, created, p, priority[p], n, memory')
  BY <1>1, <1>2, <1>3, <1>5, MoveSound
<1> HIDE DEF p, rest
<1>7. ListInv'
  <2>1. TypeOK'
    BY <1>1, <1>2, <1>3, <1>6, TypeParts DEF TypeOK, Sound, Memory
  <2>2. Sound(memory', alive' \ {running'})
    BY <1>3, <1>6 DEF S
  <2>3. n # NULL => ~ pq_is_empty(memory')
    BY <1>6 DEF Moves
  <2> QED
    BY <2>1, <2>2, <2>3, <1>1, <1>2, <1>3 DEF ListInv
<1>8. Abstract!AdmitPCB
  BY <1>3, <1>6, QueueFacts, AbstractState DEF Abstract!AdmitPCB, Moves
<1> QED
  BY <1>7, <1>8

(* The end of a round.                                                     *)
LEMMA ListEndRound ==
  ASSUME ListInv, EndRound
  PROVE  ListInv' /\ Abstract!EndRound
<1> DEFINE S == alive \ {running}
<1>1. /\ TypeOK /\ Sound(memory, S) /\ running \in alive \cup {NULL}
      /\ mallocFailed \in BOOLEAN
      /\ ~ mallocFailed => /\ phase = "create" => Contents(memory, created) # << >>
                           /\ phase = "admit" => ~ pq_is_empty(memory)
  BY TypeParts DEF ListInv
<1>2. /\ phase \in {"create", "admit"} /\ q_is_empty(memory, created)
      /\ priority' = priority /\ alive' = alive /\ mallocFailed' = mallocFailed
  BY DEF EndRound
<1>3. Contents(memory, created) = << >>
  BY <1>1, <1>2, QueueFacts, ContentsFacts
<1>4. CASE ~ isNew
  <2>1. /\ phase' = "loop" /\ memory' = memory /\ running' = running /\ isNew' = isNew
        /\ currQuantumSize' = currQuantumSize
    BY <1>4 DEF EndRound
  <2>2. ListInv'
    BY <1>1, <1>2, <2>1 DEF ListInv, TypeOK
  <2>3. Abstract!EndRound
    BY <1>2, <1>3, <1>4, <2>1 DEF Abstract!EndRound
  <2> QED
    BY <2>2, <2>3
<1>5. CASE isNew
  <2>1. /\ phase' = IF pq_is_empty(memory) THEN "crashed" ELSE "loop"
        /\ isNew' = FALSE /\ running' = pq_peek(memory) /\ memory' = pq_dequeue(memory)
        /\ currQuantumSize' = memory.quantum_size[0]
    BY <1>5 DEF EndRound
  <2>2. /\ Sound(memory', S \ {running'})
        /\ running' \in S \cup {NULL}
    BY <1>1, <2>1, PqDequeueSound
  <2>3. Sound(memory', alive' \ {running'})
    <3>1. S \ {running'} \subseteq alive' \ {running'} /\ alive' \ {running'} \subseteq PCB
      BY <1>1, <1>2, TypeParts
    <3> QED
      BY <2>2, <3>1, SoundGrows
  <2>4. currQuantumSize' = QuantumSize(0) /\ QuantumSize(0) \in Nat
    BY <1>1, <2>1, QueueFacts, LinkedQueuesAssumption DEF Sound, QuantumSize
  <2>5. ListInv'
    <3>1. TypeOK'
      BY <1>1, <1>2, <2>1, <2>2, <2>3, <2>4, TypeParts DEF TypeOK, Sound, Memory
    <3>2. ~ mallocFailed' => phase' = "loop"
      BY <1>1, <1>2, <1>3, <2>1
    <3> QED
      BY <3>1, <3>2, <1>2, <2>1, <2>2, <2>3 DEF ListInv
  <2>6. \A x \in Queue \ Level : Contents(memory', x) = Contents(memory, x)
    <3>1. CASE pq_is_empty(memory)
      BY <3>1, <2>1, <1>1, PqDequeueSound
    <3>2. CASE ~ pq_is_empty(memory)
      <4>1. FirstLevel(memory) \in Level
        BY <3>2, <1>1, FirstLevelIs
      <4> QED
        BY <4>1, <3>2, <2>1, <1>1, PqDequeueSound
    <3> QED
      BY <3>1, <3>2
  <2>7. /\ Abstract!pq_is_empty(Ready(memory)) <=> pq_is_empty(memory)
        /\ Abstract!pq_peek(Ready(memory)) = running'
        /\ Abstract!pq_dequeue(Ready(memory)) = Ready(memory')
    BY <1>1, <2>1, ReadyFacts
  <2>8. Abstract!QuantumSize(0) = QuantumSize(0)
    BY SameLevels, QueueFacts
  <2> HIDE DEF S
  <2>9. Abstract!EndRound
    BY <1>2, <1>3, <1>5, <2>1, <2>4, <2>6, <2>7, <2>8, QueueFacts, AbstractState
    DEF Abstract!EndRound
  <2> QED
    BY <2>5, <2>9
<1> QED
  BY <1>4, <1>5

(* The preempted process goes down a level, the most urgent one runs.      *)
LEMMA ListTimer ==
  ASSUME ListInv, TimerInterrupt
  PROVE  ListInv' /\ Abstract!TimerInterrupt
<1> DEFINE S == alive \ {running}
           l == Demoted(priority[running])
<1>1. /\ TypeOK /\ Sound(memory, S) /\ running \in alive \cup {NULL}
      /\ priority \in [PCB -> Level] /\ mallocFailed \in BOOLEAN /\ currQuantumSize \in Nat
      /\ alive \subseteq PCB /\ isNew \in BOOLEAN
      /\ ~ mallocFailed => phase # "crashed"
  BY TypeParts DEF ListInv
<1>2. PICK n \in malloc(memory) :
        /\ Dispatch(q_enqueue(memory, l, running, n))
        /\ mallocFailed' = (mallocFailed \/ n = NULL)
        /\ phase' = IF pq_is_empty(q_enqueue(memory, l, running, n)) THEN "crashed" ELSE "loop"
  BY DEF TimerInterrupt, NoteFailure
<1>3. /\ phase = "loop" /\ running # NULL
      /\ priority' = [priority EXCEPT ![running] = l]
      /\ isNew' = isNew /\ alive' = alive
  BY DEF TimerInterrupt
<1>4. running \in PCB \ S /\ S \cup {running} = alive
  BY <1>1, <1>3
<1>5. l \in Level /\ l = Abstract!Demoted(priority[running])
  <2>1. priority[running] \in Level
    BY <1>1, <1>4
  <2>2. l \in Level
    BY <2>1, LinkedQueuesAssumption DEF Demoted, Level
  <2> QED
    BY <2>2 DEF Demoted, Abstract!Demoted
<1> DEFINE m == q_enqueue(memory, l, running, n)
<1> HIDE DEF l, S
<1>6. Sound(m, alive)
  <2>1. Sound(m, S \cup {running})
    BY <1>1, <1>4, <1>5, QueueFacts, EnqueueSound
  <2> QED
    BY <2>1, <1>4
<1>7. n # NULL => ~ pq_is_empty(m)
  BY <1>1, <1>4, <1>5, QueueFacts, EnqueueFills
<1>8. /\ Ready(m) \in Abstract!EnqueuedByPriority(Ready(memory), l, running)
      /\ \A x \in Queue : x # l => Contents(m, x) = Contents(memory, x)
  BY <1>1, <1>4, <1>5, QueueFacts, ReadyEnqueue
<1>9. /\ Dispatch(m)
      /\ mallocFailed' = (mallocFailed \/ n = NULL)
      /\ phase' = IF pq_is_empty(m) THEN "crashed" ELSE "loop"
  BY <1>2
<1> HIDE DEF m
<1>10. /\ Sound(memory', alive \ {running'})
       /\ running' \in alive \cup {NULL}
       /\ currQuantumSize' \in Nat
       /\ Abstract!Dispatch(Ready(m))
       /\ \A x \in Queue \ Level : Contents(memory', x) = Contents(m, x)
  BY <1>1, <1>6, <1>9, DispatchSound
<1>11. ListInv'
  <2>1. priority' \in [PCB -> Level]
    BY <1>1, <1>3, <1>5
  <2>2. TypeOK'
    BY <1>1, <1>3, <1>9, <1>10, <2>1, TypeParts DEF TypeOK, Sound, Memory
  <2> QED
    BY <2>2, <1>1, <1>3, <1>7, <1>9, <1>10 DEF ListInv
<1>12. Abstract!pq_is_empty(Ready(m)) <=> pq_is_empty(m)
  BY <1>6, ReadyFacts
<1>13. Abstract!TimerInterrupt
  <2>1. /\ Contents(memory', created) = Contents(memory, created)
        /\ Contents(memory', blocked) = Contents(memory, blocked)
        /\ Contents(memory', killed) = Contents(memory, killed)
    BY <1>5, <1>8, <1>10, QueueFacts
  <2>2. \E q \in Abstract!EnqueuedByPriority(Ready(memory),
                   Abstract!Demoted(priority[running]), running) :
          /\ Abstract!Dispatch(q)
          /\ phase' = IF Abstract!pq_is_empty(q) THEN "crashed" ELSE "loop"
    BY <1>5, <1>8, <1>9, <1>10, <1>12
  <2>3. priority' = [priority EXCEPT ![running] = Abstract!Demoted(priority[running])]
    BY <1>3, <1>5
  <2> QED
    BY <1>3, <2>1, <2>2, <2>3, AbstractState DEF Abstract!TimerInterrupt
<1> QED
  BY <1>11, <1>13

(* The process on the CPU waits for its device.                            *)
LEMMA ListTrap ==
  ASSUME ListInv, IoTrap
  PROVE  ListInv' /\ Abstract!IoTrap
<1> DEFINE S == alive \ {running}
<1>1. /\ TypeOK /\ Sound(memory, S) /\ running \in alive \cup {NULL}
      /\ mallocFailed \in BOOLEAN /\ currQuantumSize \in Nat
      /\ alive \subseteq PCB
      /\ ~ mallocFailed => phase # "crashed"
  BY TypeParts DEF ListInv
<1>2. PICK n \in malloc(memory) : /\ Dispatch(q_enqueue(memory, blocked, running, n))
                                  /\ mallocFailed' = (mallocFailed \/ n = NULL)
  BY DEF IoTrap, NoteFailure
<1>3. /\ phase = "loop" /\ phase' = phase /\ running # NULL
      /\ priority' = priority /\ isNew' = isNew /\ alive' = alive
  BY DEF IoTrap
<1>4. running \in PCB \ S /\ S \cup {running} = alive
  BY <1>1, <1>3
<1> DEFINE m == q_enqueue(memory, blocked, running, n)
<1> HIDE DEF S
<1>5. Sound(m, alive)
  <2>1. Sound(m, S \cup {running})
    BY <1>1, <1>4, QueueFacts, EnqueueSound
  <2> QED
    BY <2>1, <1>4
<1>6. /\ Ready(m) = Ready(memory)
      /\ Contents(m, blocked) \in Abstract!Enqueued(Contents(memory, blocked), running)
      /\ \A x \in Queue : x # blocked => Contents(m, x) = Contents(memory, x)
  BY <1>1, <1>4, QueueFacts, ReadyEnqueue
<1>7. Dispatch(m)
  BY <1>2
<1> HIDE DEF m
<1>8. /\ Sound(memory', alive \ {running'})
      /\ running' \in alive \cup {NULL}
      /\ currQuantumSize' \in Nat
      /\ Abstract!Dispatch(Ready(m))
      /\ \A x \in Queue \ Level : Contents(memory', x) = Contents(m, x)
  BY <1>1, <1>5, <1>7, DispatchSound
<1>9. ListInv'
  <2>1. TypeOK'
    BY <1>1, <1>2, <1>3, <1>8, TypeParts DEF TypeOK, Sound, Memory
  <2> QED
    BY <2>1, <1>1, <1>2, <1>3, <1>8 DEF ListInv
<1>10. Abstract!IoTrap
  <2>1. /\ Contents(memory', created) = Contents(memory, created)
        /\ Contents(memory', blocked) = Contents(m, blocked)
        /\ Contents(memory', killed) = Contents(memory, killed)
    BY <1>6, <1>8, QueueFacts
  <2>2. Abstract!Dispatch(Ready(memory))
    BY <1>6, <1>8
  <2> QED
    BY <1>3, <1>6, <2>1, <2>2, AbstractState DEF Abstract!IoTrap
<1> QED
  BY <1>9, <1>10

(* The first of the waiting processes goes back to its level.              *)
LEMMA ListIoInterrupt ==
  ASSUME ListInv, IoInterrupt
  PROVE  ListInv' /\ Abstract!IoInterrupt
<1> DEFINE S == alive \ {running}
           p == q_peek(memory, blocked)
           rest == q_dequeue(memory, blocked)
<1>1. /\ TypeOK /\ Sound(memory, S) /\ running \in alive \cup {NULL}
      /\ priority \in [PCB -> Level] /\ mallocFailed \in BOOLEAN
      /\ ~ mallocFailed => phase # "crashed"
  BY TypeParts DEF ListInv
<1>2. PICK n \in malloc(rest) : /\ memory' = q_enqueue(rest, priority[p], p, n)
                                /\ mallocFailed' = (mallocFailed \/ n = NULL)
  BY DEF IoInterrupt, NoteFailure
<1>3. /\ phase = "loop" /\ phase' = phase /\ ~ q_is_empty(memory, blocked)
      /\ priority' = priority /\ running' = running /\ isNew' = isNew
      /\ currQuantumSize' = currQuantumSize /\ alive' = alive
  BY DEF IoInterrupt
<1>4. p \in S /\ S \subseteq PCB
  <2>1. p \in S
    BY <1>1, <1>3, QueueFacts, PeekSound
  <2> QED
    BY <2>1, <1>1 DEF Sound
<1>5. priority[p] \in Level /\ blocked \in Queue \ Level
  BY <1>1, <1>4, QueueFacts
<1> HIDE DEF S
<1>6. Sound(memory', S) /\ Moves(memory, blocked, p, priority[p], n, memory')
  BY <1>1, <1>2, <1>3, <1>5, MoveSound
<1> HIDE DEF p, rest
<1>7. ListInv'
  <2>1. TypeOK'
    BY <1>1, <1>2, <1>3, <1>6, TypeParts DEF TypeOK, Sound, Memory
  <2>2. Sound(memory', alive' \ {running'})
    BY <1>3, <1>6 DEF S
  <2> QED
    BY <2>1, <2>2, <1>1, <1>2, <1>3 DEF ListInv
<1>8. Abstract!IoInterrupt
  BY <1>3, <1>6, QueueFacts, AbstractState DEF Abstract!IoInterrupt, Moves
<1> QED
  BY <1>7, <1>8

(* The process on the CPU joins the killed queue, which is emptied when it *)
(* is full.                                                                *)
LEMMA ListTerminate ==
  ASSUME ListInv, Terminate
  PROVE  ListInv' /\ Abstract!Terminate
<1> DEFINE S == alive \ {running}
<1>1. /\ TypeOK /\ Sound(memory, S) /\ running \in alive \cup {NULL}
      /\ mallocFailed \in BOOLEAN /\ currQuantumSize \in Nat
      /\ alive \subseteq PCB
      /\ ~ mallocFailed => phase # "crashed"
  BY TypeParts DEF ListInv
<1>2. PICK n \in malloc(memory) :
        LET m == q_enqueue(memory, killed, running, n)
            emptied == EmptyKilled(m)
        IN /\ mallocFailed' = (mallocFailed \/ n = NULL)
           /\ \/ /\ KilledFull(m)
                 /\ Dispatch(emptied.memory)
                 /\ alive' = alive \ emptied.released
              \/ /\ ~KilledFull(m)
                 /\ Dispatch(m)
                 /\ UNCHANGED alive
  BY DEF Terminate, NoteFailure
<1>3. /\ phase = "loop" /\ phase' = phase /\ running # NULL
      /\ priority' = priority /\ isNew' = isNew
  BY DEF Terminate
<1>4. running \in PCB \ S /\ S \cup {running} = alive
  BY <1>1, <1>3
<1> DEFINE m == q_enqueue(memory, killed, running, n)
           K == Contents(m, killed)
           emptied == EmptyKilled(m)
<1> HIDE DEF S
<1>5. Sound(m, alive)
  <2>1. Sound(m, S \cup {running})
    BY <1>1, <1>4, QueueFacts, EnqueueSound
  <2> QED
    BY <2>1, <1>4
<1>6. /\ Ready(m) = Ready(memory)
      /\ K \in Abstract!Enqueued(Contents(memory, killed), running)
      /\ \A x \in Queue : x # killed => Contents(m, x) = Contents(memory, x)
  BY <1>1, <1>4, QueueFacts, ReadyEnqueue
<1>7. /\ mallocFailed' = (mallocFailed \/ n = NULL)
      /\ \/ KilledFull(m) /\ Dispatch(emptied.memory) /\ alive' = alive \ emptied.released
         \/ ~ KilledFull(m) /\ Dispatch(m) /\ alive' = alive
  BY <1>2
<1> HIDE DEF m, emptied
<1>8. KilledFull(m) <=> Len(K) >= TOTAL_TERMINATED
  BY <1>5, QueueFacts, ContentsFacts DEF KilledFull
<1>9. K \in Seq(alive)
  BY <1>5, QueueFacts, ContentsFacts
<1> HIDE DEF K
<1> DEFINE after == IF KilledFull(m) THEN emptied.memory ELSE m
           left == IF KilledFull(m) THEN alive \ Range(K) ELSE alive
<1>10. KilledFull(m) =>
         /\ Sound(emptied.memory, alive \ Range(K))
         /\ Contents(emptied.memory, killed) = << >>
         /\ \A x \in Queue : x # killed => Contents(emptied.memory, x) = Contents(m, x)
         /\ emptied.released = IF Len(K) = 1 THEN Range(K) ELSE {K[i] : i \in 1 .. Len(K) - 2}
  <2> SUFFICES ASSUME KilledFull(m)
               PROVE  /\ Sound(emptied.memory, alive \ Range(K))
                      /\ Contents(emptied.memory, killed) = << >>
                      /\ \A x \in Queue : x # killed =>
                           Contents(emptied.memory, x) = Contents(m, x)
                      /\ emptied.released = IF Len(K) = 1 THEN Range(K)
                                            ELSE {K[i] : i \in 1 .. Len(K) - 2}
    OBVIOUS
  <2>1. K # << >>
    <3>1. Len(<< >>) = 0 /\ ~ (0 >= TOTAL_TERMINATED)
      BY LinkedQueuesAssumption
    <3> QED
      BY <3>1, <1>8
  <2> QED
    BY <2>1, <1>5, EmptyKilledSound DEF K, emptied
<1>11. emptied.released = Abstract!Released(K) \/ ~ KilledFull(m)
  <2>1. Abstract!Range(K) = Range(K)
    BY DEF Abstract!Range, Range
  <2> QED
    BY <2>1, <1>10 DEF Abstract!Released
<1>12. KilledFull(m) => emptied.released \subseteq Range(K)
  <2>1. \A i \in 1 .. Len(K) - 2 : i \in 1 .. Len(K)
    BY <1>9, SeqFacts
  <2>2. \A i \in 1 .. Len(K) : K[i] \in Range(K)
    BY <1>9, SeqFacts
  <2> QED
    BY <2>1, <2>2, <1>10
<1>13. Sound(after, left) /\ Dispatch(after) /\ left \subseteq alive' /\ alive' \subseteq alive
  BY <1>5, <1>7, <1>10, <1>12
<1>14. Ready(after) = Ready(memory)
       /\ \A x \in Queue : x # killed => Contents(after, x) = Contents(memory, x)
  <2>1. \A x \in Queue : x # killed => Contents(after, x) = Contents(memory, x)
    BY <1>6, <1>10
  <2> HIDE DEF after
  <2> QED
    BY <2>1, QueueFacts DEF Ready
<1>15. Contents(after, killed) = IF KilledFull(m) THEN << >> ELSE K
  BY <1>10 DEF K
<1> HIDE DEF after, left
<1>16. /\ Sound(memory', left \ {running'})
       /\ running' \in left \cup {NULL}
       /\ currQuantumSize' \in Nat
       /\ Abstract!Dispatch(Ready(after))
       /\ \A x \in Queue \ Level : Contents(memory', x) = Contents(after, x)
  BY <1>1, <1>13, DispatchSound
<1>17. ListInv'
  <2>1. Sound(memory', alive' \ {running'})
    <3>1. left \ {running'} \subseteq alive' \ {running'} /\ alive' \ {running'} \subseteq PCB
      BY <1>1, <1>13
    <3> QED
      BY <3>1, <1>16, SoundGrows
  <2>2. TypeOK'
    BY <1>1, <1>3, <1>7, <1>13, <1>16, TypeParts DEF TypeOK, Sound, Memory
  <2> QED
    BY <2>1, <2>2, <1>1, <1>3, <1>7, <1>13, <1>16 DEF ListInv
<1>18. Abstract!Terminate
  <2>1. /\ Contents(memory', created) = Contents(memory, created)
        /\ Contents(memory', blocked) = Contents(memory, blocked)
        /\ Contents(memory', killed) = Contents(after, killed)
    BY <1>14, <1>16, QueueFacts
  <2>2. Abstract!Dispatch(Ready(memory))
    BY <1>14, <1>16
  <2> DEFINE full == Len(K) >= TOTAL_TERMINATED
  <2>3. /\ Contents(memory', killed) = IF full THEN << >> ELSE K
        /\ alive' = IF full THEN alive \ Abstract!Released(K) ELSE alive
    BY <2>1, <1>7, <1>8, <1>11, <1>15
  <2>4. \E k \in Abstract!Enqueued(Contents(memory, killed), running) :
          LET f == Len(k) >= TOTAL_TERMINATED IN
          /\ Contents(memory', killed) = IF f THEN << >> ELSE k
          /\ alive' = IF f THEN alive \ Abstract!Released(k) ELSE alive
    BY <2>3, <1>6
  <2> QED
    BY <1>3, <2>1, <2>2, <2>4, AbstractState DEF Abstract!Terminate
<1> QED
  BY <1>17, <1>18

(* A finite set has at most one element if any two are the same.           *)
LEMMA AtMostOne ==
  ASSUME NEW T, IsFiniteSet(T)
  PROVE  Cardinality(T) <= 1 <=> \A i, j \in T : i = j
<1>1. CASE T = {}
  BY <1>1, FS_EmptySet
<1>2. CASE T # {}
  <2>1. PICK x \in T : TRUE
    BY <1>2
  <2>2. Cardinality({x}) = 1 /\ IsFiniteSet({x})
    BY FS_Singleton
  <2>3. CASE \A i \in T : i = x
    <3>1. T = {x}
      BY <2>1, <2>3
    <3> QED
      BY <2>2, <2>3, <3>1
  <2>4. CASE ~ (\A i \in T : i = x)
    <3>1. PICK y \in T : y # x
      BY <2>4
    <3>2. IsFiniteSet({x} \cup {y}) /\ Cardinality({x} \cup {y}) = 1 + 1
      BY <2>2, <3>1, FS_AddElement
    <3>3. Cardinality({x} \cup {y}) <= Cardinality(T)
      BY <2>1, <3>1, FS_Subset
    <3>4. Cardinality(T) \in Nat
      BY FS_CardinalityType
    <3>5. ~ (Cardinality(T) <= 1)
      BY <3>2, <3>3, <3>4
    <3> QED
      BY <2>1, <3>1, <3>5
  <2> QED
    BY <2>3, <2>4
<1> QED
  BY <1>1, <1>2

(* The abstract specification counts as this one does.                     *)
LEMMA SameCardinality == \A T : Abstract!Cardinality(T) = Cardinality(T)
BY DEF Abstract!Cardinality, Cardinality

(* The reset moves everything to level 0.                                  *)
LEMMA ListReset ==
  ASSUME ListInv, Reset
  PROVE  ListInv' /\ Abstract!Reset
<1> DEFINE S == alive \ {running}
           n == NUM_PRIORITIES - 1
           R == resetMLFQ(memory, priority)
           q == Ready(memory)
<1>1. /\ TypeOK /\ Sound(memory, S) /\ running \in alive \cup {NULL}
      /\ priority \in [PCB -> Level] /\ isNew \in BOOLEAN
      /\ ~ mallocFailed => phase # "crashed"
  BY TypeParts DEF ListInv
<1>2. /\ phase = "loop" /\ phase' = phase /\ memory' = R.memory /\ priority' = R.priority
      /\ isNew' = (isNew \/ R.allEmpty) /\ running' = running /\ alive' = alive
      /\ currQuantumSize' = currQuantumSize /\ mallocFailed' = mallocFailed
  BY DEF Reset
<1>3. /\ MergedUpTo(R, memory, priority, S, n)
      /\ Contents(R.memory, 0) = Abstract!Flattened(q)
  <2> HIDE DEF S
  <2>1. MergedUpTo(resetMLFQ(memory, priority), memory, priority, S, NUM_PRIORITIES - 1)
    BY <1>1, ResetSound
  <2>2. Contents(resetMLFQ(memory, priority).memory, 0)
          = Abstract!Flattened([l \in Level |-> Contents(memory, l)])
    BY <1>1, ResetSound
  <2> QED
    BY <2>1, <2>2 DEF Ready
<1> HIDE DEF R
<1>4. /\ Sound(memory', S)
      /\ \A x \in Queue : x \notin 0 .. n => Contents(memory', x) = Contents(memory, x)
      /\ \A x \in 1 .. n : Contents(memory', x) = << >>
      /\ priority' = [p \in PCB |-> IF \E j \in 1 .. n : p \in Range(Contents(memory, j))
                                    THEN 0 ELSE priority[p]]
      /\ R.allEmpty \in BOOLEAN
      /\ R.allEmpty <=> \A i, j \in 0 .. n :
                          Contents(memory, i) # << >> /\ Contents(memory, j) # << >> => i = j
  BY <1>2, <1>3 DEF MergedUpTo
<1>5. /\ Level = 0 .. n /\ n \in Nat
      /\ \A l : l \in Level <=> l = 0 \/ l \in 1 .. n
      /\ 0 \notin 1 .. n
  BY LinkedQueuesAssumption DEF Level
<1> HIDE DEF n
<1>6. ListInv'
  <2>1. priority' \in [PCB -> Level]
    BY <1>1, <1>4, <1>5
  <2>2. TypeOK'
    BY <1>1, <1>2, <1>4, <2>1, TypeParts DEF TypeOK, Sound, Memory
  <2> QED
    BY <2>2, <1>1, <1>2, <1>4 DEF ListInv
<1>7. /\ q = [l \in Level |-> Contents(memory, l)]
      /\ \A l \in Level : q[l] = Contents(memory, l)
  BY DEF Ready
<1> HIDE DEF q
<1>8. /\ Abstract!Level = Level
      /\ Abstract!Range(q[0]) = Range(Contents(memory, 0))
      /\ Abstract!Members(q) = UNION {Range(Contents(memory, l)) : l \in Level}
  <2>1. \A f : Abstract!Range(f) = Range(f)
    BY DEF Abstract!Range, Range
  <2> QED
    BY <2>1, <1>7, SameLevels, QueueFacts DEF Abstract!Members
<1>9. Ready(memory') = [l \in Abstract!Level |->
                          IF l = 0 THEN Abstract!Flattened(q) ELSE << >>]
  <2>1. \A l \in Level : Contents(memory', l)
                           = IF l = 0 THEN Abstract!Flattened(q) ELSE << >>
    BY <1>2, <1>3, <1>4, <1>5
  <2> QED
    BY <2>1, <1>8 DEF Ready
<1>10. priority' = [p \in PCB |->
                      IF p \in Abstract!Members(q) /\ p \notin Abstract!Range(q[0])
                      THEN 0 ELSE priority[p]]
  <2>1. \A j \in Level : j # 0 =>
          Range(Contents(memory, j)) \cap Range(Contents(memory, 0)) = {}
    BY <1>1, QueueFacts, ContentsFacts
  <2>2. \A p : (\E j \in 1 .. n : p \in Range(Contents(memory, j)))
                 <=> p \in Abstract!Members(q) /\ p \notin Abstract!Range(q[0])
    BY <2>1, <1>5, <1>8
  <2> QED
    BY <2>2, <1>4
<1>11. R.allEmpty <=> Cardinality({l \in Abstract!Level : q[l] # << >>}) <= 1
  <2> DEFINE T == {l \in Abstract!Level : q[l] # << >>}
  <2>1. T \subseteq 0 .. n
    BY <1>5, <1>8
  <2>2. IsFiniteSet(0 .. n)
    <3>1. 0 \in Int /\ n \in Int
      BY <1>5
    <3> QED
      BY <3>1, FS_Interval
  <2>3. IsFiniteSet(T)
    BY <2>1, <2>2, FS_Subset
  <2>4. R.allEmpty <=> \A i, j \in T : i = j
    BY <1>4, <1>5, <1>7, <1>8
  <2> HIDE DEF T
  <2>5. Cardinality(T) <= 1 <=> \A i, j \in T : i = j
    BY <2>3, AtMostOne
  <2>6. R.allEmpty <=> Cardinality(T) <= 1
    BY <2>4, <2>5
  <2> QED
    BY <2>6 DEF T
<1>12. isNew' = (isNew \/ Abstract!Cardinality({l \in Abstract!Level : q[l] # << >>}) <= 1)
  <2> DEFINE few == Abstract!Cardinality({l \in Abstract!Level : q[l] # << >>}) <= 1
  <2>1. R.allEmpty <=> few
    BY <1>11, SameCardinality
  <2> HIDE DEF few
  <2>2. isNew' = (isNew \/ few)
    BY <2>1, <1>1, <1>2, <1>4
  <2> QED
    BY <2>2 DEF few
<1>13. /\ Contents(memory', created) = Contents(memory, created)
       /\ Contents(memory', blocked) = Contents(memory, blocked)
       /\ Contents(memory', killed) = Contents(memory, killed)
  BY <1>4, <1>5, QueueFacts
<1>14. Abstract!Reset
  BY <1>2, <1>9, <1>10, <1>12, <1>13 DEF Abstract!Reset, q, Ready
<1> QED
  BY <1>6, <1>14

(* Every step of the lists keeps the invariant and is a step of the        *)
(* abstract specification, or leaves its variables alone.                  *)
LEMMA ListStep == ListInv /\ [Next]_vars => ListInv' /\ [Abstract!Next]_(Abstract!vars)
<1> SUFFICES ASSUME ListInv, [Next]_vars
             PROVE  ListInv' /\ [Abstract!Next]_(Abstract!vars)
  OBVIOUS
<1>1. CASE UNCHANGED vars
  <2>1. ListInv'
    BY <1>1 DEF vars, ListInv, TypeOK
  <2>2. UNCHANGED Abstract!vars
    BY <1>1 DEF vars, Abstract!vars
  <2> QED
    BY <2>1, <2>2
<1>2. ASSUME NEW p \in PCB, CreatePCB(p) PROVE ListInv' /\ Abstract!Next
  BY <1>2, ListCreate DEF Abstract!Next
<1>3. CASE CreateFails
  BY <1>3, ListCreateFails DEF Abstract!Next
<1>4. CASE AdmitPCB
  BY <1>4, ListAdmit DEF Abstract!Next
<1>5. CASE EndRound
  BY <1>5, ListEndRound DEF Abstract!Next
<1>6. CASE TimerInterrupt
  BY <1>6, ListTimer DEF Abstract!Next
<1>7. CASE IoTrap
  BY <1>7, ListTrap DEF Abstract!Next
<1>8. CASE IoInterrupt
  BY <1>8, ListIoInterrupt DEF Abstract!Next
<1>9. CASE Terminate
  BY <1>9, ListTerminate DEF Abstract!Next
<1>10. CASE Reset
  BY <1>10, ListReset DEF Abstract!Next
<1>11. CASE Crashed
  BY <1>1, <1>11 DEF Crashed
<1> QED
  BY <1>1, <1>2, <1>3, <1>4, <1>5, <1>6, <1>7, <1>8, <1>9, <1>10, <1>11 DEF Next

(* The invariant holds of the system without its teardown.                 *)
LEMMA ListInvariant == Spec => []ListInv
<1>1. Init => ListInv
  BY ListInit
<1>2. ListInv /\ [Next]_vars => ListInv'
  BY ListStep
<1> QED
  BY <1>1, <1>2, PTL DEF Spec

(* What the invariant says of the lists.                                   *)
LEMMA ListInvImplies ==
  ListInv => TypeOK /\ WellLinked /\ NodesAccounted /\ NoCrashWithoutFailure
<1> SUFFICES ASSUME ListInv
             PROVE  TypeOK /\ WellLinked /\ NodesAccounted /\ NoCrashWithoutFailure
  OBVIOUS
<1>1. TypeOK /\ Sound(memory, alive \ {running}) /\ (~ mallocFailed => phase # "crashed")
  BY DEF ListInv
<1>2. PICK c : Linked(memory, c)
  BY <1>1 DEF Sound
<1>3. memory \in Memory /\ Wired(memory, c)
  BY <1>1, <1>2 DEF Sound, Linked
<1> QED
  BY <1>1, <1>2, <1>3, WiredLists, LinkedLists DEF NoCrashWithoutFailure

(* The lists, as long as the system runs: the fields have their types,     *)
(* every chain ends where last_node and size say, no node is leaked or     *)
(* shared, and a null pointer is followed only after malloc has failed.    *)
THEOREM ListsAlways ==
  Spec => [](TypeOK /\ WellLinked /\ NodesAccounted /\ NoCrashWithoutFailure)
BY ListInvariant, ListInvImplies, PTL

(* The lists implement the sequences: q_enqueue, q_dequeue, the scans of   *)
(* the levels, the splice of resetMLFQ and the loop that empties the       *)
(* killed queue do in every handler what AbstractQueues says.              *)
THEOREM ListsImplement == Spec => ImplementsAbstract
<1>1. Init => Abstract!Init
  BY ListInit
<1>2. ListInv /\ [Next]_vars => [Abstract!Next]_(Abstract!vars)
  BY ListStep
<1> QED
  BY <1>1, <1>2, ListInvariant, PTL DEF Spec, ImplementsAbstract, Abstract!Spec

-----------------------------------------------------------------------------
(* The teardown.  The lists stay as they were when it began, with the      *)
(* nodes of c on them; what shrinks is the set of nodes in use.  The nodes *)
(* have PCBs that are alive, different ones, and not the one on the CPU.   *)
Frozen(c) ==
  /\ Wired(memory, c)
  /\ memory.allocated \subseteq NodesOf(c)
  /\ \A n \in NodesOf(c) : memory.pcb[n] \in alive \ {running}
  /\ \A n, o \in NodesOf(c) : memory.pcb[n] = memory.pcb[o] => n = o

(* While q_destroy is at the j-th node of the first queue of order, that   *)
(* node, those behind it and those of the queues to come are in use.       *)
StillInUse(c, j) ==
  /\ iter = IF j <= Len(c[Head(order)]) THEN c[Head(order)][j] ELSE NULL
  /\ memory.allocated = {c[Head(order)][k] : k \in j .. Len(c[Head(order)])}
                          \cup UNION {Range(c[q]) : q \in Range(Tail(order))}

Left(c) ==
  /\ at = "queues" =>
       /\ order \in Seq(Queue) /\ order # << >> /\ IsInjective(order)
       /\ \E j \in 1 .. Len(c[Head(order)]) + 1 : StillInUse(c, j)
  /\ at # "queues" => memory.allocated = {}

(* Released so far, once each, are the PCBs of the nodes given back, and   *)
(* in the end the one on the CPU.                                          *)
GivenBack(c) ==
  destroyed = [p \in PCB |->
                 IF \/ \E n \in NodesOf(c) \ memory.allocated : memory.pcb[n] = p
                    \/ at = "down" /\ p = running
                 THEN 1 ELSE 0]

TeardownInv ==
  /\ at \in {"system", "queues", "running", "down", "crashed"}
  /\ at = "system" => ListInv /\ destroyed = [p \in PCB |-> 0]
  /\ at # "system" => /\ TypeOK /\ phase = "loop" /\ running \in alive \cup {NULL}
                      /\ \E c : Frozen(c) /\ Left(c) /\ GivenBack(c)

(* schedulerDeconstructor and pq_destroy come to every queue, once.        *)
LEMMA DestroyOrderIs ==
  /\ DestroyOrder \in Seq(Queue) /\ DestroyOrder # << >>
  /\ IsInjective(DestroyOrder) /\ Range(DestroyOrder) = Queue
<1> DEFINE s == << created, killed, blocked >>
           t == [l \in 1 .. NUM_PRIORITIES |-> l - 1]
<1>1. /\ s \in Seq(Queue) /\ IsInjective(s) /\ Range(s) = {created, killed, blocked}
  <2>1. /\ Len(s) = 3 /\ DOMAIN s = 1 .. 3
        /\ s[1] = created /\ s[2] = killed /\ s[3] = blocked
    OBVIOUS
  <2>2. created \in Queue /\ killed \in Queue /\ blocked \in Queue
    BY QueueFacts
  <2>3. s \in Seq(Queue)
    BY <2>2
  <2>4. \A i : i \in 1 .. 3 <=> i = 1 \/ i = 2 \/ i = 3
    OBVIOUS
  <2> HIDE DEF s
  <2>5. IsInjective(s)
    BY <2>1, <2>4, QueueFacts DEF IsInjective
  <2>6. Range(s) = {created, killed, blocked}
    BY <2>1, <2>4 DEF Range
  <2> QED
    BY <2>3, <2>5, <2>6
<1>2. /\ t \in Seq(Queue) /\ IsInjective(t) /\ Range(t) = Level
  <2>1. /\ NUM_PRIORITIES \in Nat
        /\ \A l \in 1 .. NUM_PRIORITIES : l - 1 \in Level
        /\ \A l \in Level : l + 1 \in 1 .. NUM_PRIORITIES /\ (l + 1) - 1 = l
        /\ \A k, l \in 1 .. NUM_PRIORITIES : k - 1 = l - 1 => k = l
    BY LinkedQueuesAssumption DEF Level
  <2>2. DOMAIN t = 1 .. NUM_PRIORITIES /\ \A l \in 1 .. NUM_PRIORITIES : t[l] = l - 1
    OBVIOUS
  <2>3. t \in Seq(Queue)
    <3>1. \A l \in 1 .. NUM_PRIORITIES : l - 1 \in Queue
      BY <2>1, QueueFacts
    <3> QED
      BY <3>1, <2>1
  <2> HIDE DEF t
  <2>4. IsInjective(t)
    BY <2>1, <2>2 DEF IsInjective
  <2>5. Range(t) = Level
    BY <2>1, <2>2 DEF Range
  <2> QED
    BY <2>3, <2>4, <2>5
<1>3. DestroyOrder = s \o t
  BY DEF DestroyOrder
<1>4. Range(s) \cap Range(t) = {} /\ Range(s) \cup Range(t) = Queue
  BY <1>1, <1>2, QueueFacts DEF Queue
<1> HIDE DEF s, t
<1>5. /\ DestroyOrder \in Seq(Queue) /\ IsInjective(DestroyOrder)
      /\ Range(DestroyOrder) = Queue
  <2>1. s \in Seq(Queue) /\ t \in Seq(Queue)
    BY <1>1, <1>2
  <2>2. /\ s \o t \in Seq(Queue) /\ Range(s \o t) = Range(s) \cup Range(t)
        /\ /\ IsInjective(s) /\ IsInjective(t)
           /\ Range(s) \cap Range(t) = {}
           => IsInjective(s \o t)
    BY <2>1, ConcatRange
  <2> QED
    BY <2>2, <1>1, <1>2, <1>3, <1>4
<1>6. DestroyOrder # << >>
  <2>1. Range(<< >>) = {}
    BY DEF Range
  <2> QED
    BY <2>1, <1>5, QueueFacts
<1> QED
  BY <1>5, <1>6

(* q_destroy enters a queue with the nodes of that queue, and of those to  *)
(* come, in use.                                                           *)
LEMMA EntersQueue ==
  ASSUME memory \in Memory, NEW c, Wired(memory, c), NEW ord \in Seq(Queue), ord # << >>,
         IsInjective(ord), memory.allocated = UNION {Range(c[q]) : q \in Range(ord)}
  PROVE  /\ 1 \in 1 .. Len(c[Head(ord)]) + 1
         /\ memory.first_node[Head(ord)]
              = IF 1 <= Len(c[Head(ord)]) THEN c[Head(ord)][1] ELSE NULL
         /\ memory.allocated = {c[Head(ord)][k] : k \in 1 .. Len(c[Head(ord)])}
                                 \cup UNION {Range(c[q]) : q \in Range(Tail(ord))}
<1> DEFINE h == Head(ord)
<1>1. h \in Range(ord) /\ Range(Tail(ord)) = Range(ord) \ {h}
  BY TailRange
<1>2. h \in Queue
  BY <1>1, SeqFacts
<1> HIDE DEF h
<1>3. c[h] \in Seq(Node) /\ Follows(memory, h, c[h])
  BY <1>2 DEF Wired
<1>4. Len(c[h]) \in Nat /\ DOMAIN c[h] = 1 .. Len(c[h]) /\ (c[h] = << >> <=> Len(c[h]) = 0)
  BY <1>3, SeqFacts
<1>5. memory.first_node[h] = IF 1 <= Len(c[h]) THEN c[h][1] ELSE NULL
  <2>1. CASE c[h] = << >>
    BY <2>1, <1>3, <1>4 DEF Follows
  <2>2. CASE c[h] # << >>
    BY <2>2, <1>3, <1>4 DEF Follows
  <2> QED
    BY <2>1, <2>2
<1>6. Range(c[h]) = {c[h][k] : k \in 1 .. Len(c[h])}
  BY <1>4 DEF Range
<1>7. memory.allocated = Range(c[h]) \cup UNION {Range(c[q]) : q \in Range(Tail(ord))}
  BY <1>1
<1>8. 1 \in 1 .. Len(c[h]) + 1
  BY <1>4
<1>9. memory.allocated = {c[h][k] : k \in 1 .. Len(c[h])}
                           \cup UNION {Range(c[q]) : q \in Range(Tail(ord))}
  BY <1>6, <1>7
<1> QED
  BY <1>5, <1>8, <1>9 DEF h

(* Init and the steps of the system.                                       *)
LEMMA TeardownStarts ==
  /\ TeardownInit => TeardownInv
  /\ TeardownInv /\ SystemStep => TeardownInv'
<1>1. ASSUME TeardownInit PROVE TeardownInv
  BY <1>1, ListInit DEF TeardownInit, TeardownInv
<1>2. ASSUME TeardownInv, SystemStep PROVE TeardownInv'
  <2>1. ListInv /\ at' = at /\ at = "system" /\ destroyed = [p \in PCB |-> 0]
        /\ destroyed' = destroyed /\ Next
    BY <1>2 DEF SystemStep, TeardownInv, teardownVars
  <2>2. ListInv'
    BY <2>1, ListStep
  <2> QED
    BY <2>1, <2>2 DEF TeardownInv
<1> QED
  BY <1>1, <1>2

(* The teardown begins with every node on the lists in use.                *)
LEMMA TeardownBegins == TeardownInv /\ BeginTeardown => TeardownInv'
<1> SUFFICES ASSUME TeardownInv, BeginTeardown PROVE TeardownInv'
  OBVIOUS
<1>1. /\ at = "system" /\ phase = "loop" /\ at' = "queues" /\ order' = DestroyOrder
      /\ iter' = memory.first_node[Head(DestroyOrder)] /\ destroyed' = destroyed
      /\ UNCHANGED vars
  BY DEF BeginTeardown
<1>2. ListInv /\ destroyed = [p \in PCB |-> 0]
  BY <1>1 DEF TeardownInv
<1>3. /\ phase' = phase /\ memory' = memory /\ running' = running /\ alive' = alive
      /\ TypeOK'
  BY <1>1, <1>2 DEF vars, ListInv, TypeOK
<1>4. /\ Sound(memory, alive \ {running}) /\ running \in alive \cup {NULL}
  BY <1>2 DEF ListInv
<1>5. PICK c : Linked(memory, c)
  BY <1>4 DEF Sound
<1>6. /\ Wired(memory, c) /\ memory.allocated = NodesOf(c) /\ memory \in Memory
      /\ Held(memory, alive \ {running})
  BY <1>4, <1>5 DEF Sound, Linked
<1>7. Frozen(c)'
  BY <1>3, <1>6 DEF Frozen, Held
<1>8. memory.allocated = UNION {Range(c[q]) : q \in Range(DestroyOrder)}
  BY <1>6, DestroyOrderIs DEF NodesOf
<1>9. StillInUse(c, 1)' /\ 1 \in 1 .. Len(c[Head(order')]) + 1
  <2> DEFINE o == DestroyOrder
  <2>1. o \in Seq(Queue) /\ o # << >> /\ IsInjective(o)
        /\ memory.allocated = UNION {Range(c[q]) : q \in Range(o)}
    BY <1>8, DestroyOrderIs
  <2> HIDE DEF o
  <2>2. /\ 1 \in 1 .. Len(c[Head(o)]) + 1
        /\ memory.first_node[Head(o)]
             = IF 1 <= Len(c[Head(o)]) THEN c[Head(o)][1] ELSE NULL
        /\ memory.allocated = {c[Head(o)][k] : k \in 1 .. Len(c[Head(o)])}
                                \cup UNION {Range(c[q]) : q \in Range(Tail(o))}
    BY <1>6, <2>1, EntersQueue
  <2>3. order' = o /\ iter' = memory.first_node[Head(o)]
    BY <1>1 DEF o
  <2> QED
    BY <1>3, <2>2, <2>3 DEF StillInUse
<1>10. Left(c)'
  BY <1>1, <1>9, DestroyOrderIs DEF Left
<1>11. GivenBack(c)'
  BY <1>1, <1>2, <1>3, <1>6 DEF GivenBack
<1> QED
  BY <1>1, <1>3, <1>4, <1>7, <1>10, <1>11 DEF TeardownInv

(* Releasing a node, with its PCB.                                         *)
LEMMA TeardownNode == TeardownInv /\ DestroyNode => TeardownInv'
<1> SUFFICES ASSUME TeardownInv, DestroyNode PROVE TeardownInv'
  OBVIOUS
<1>1. /\ at = "queues" /\ iter # NULL /\ at' = at /\ order' = order
      /\ destroyed' = [destroyed EXCEPT ![memory.pcb[iter]] = @ + 1]
      /\ iter' = memory.next[iter]
      /\ memory' = [memory EXCEPT !.allocated = @ \ {iter}]
      /\ phase' = phase /\ priority' = priority /\ running' = running /\ isNew' = isNew
      /\ currQuantumSize' = currQuantumSize /\ alive' = alive /\ mallocFailed' = mallocFailed
  BY DEF DestroyNode, PCB_destroy
<1>2. TypeOK /\ phase = "loop" /\ running \in alive \cup {NULL} /\ alive \subseteq PCB
      /\ memory \in Memory
  BY <1>1, TypeParts DEF TeardownInv
<1>3. PICK c : Frozen(c) /\ Left(c) /\ GivenBack(c)
  BY <1>1 DEF TeardownInv
<1>4. /\ Wired(memory, c) /\ memory.allocated \subseteq NodesOf(c)
      /\ \A n \in NodesOf(c) : memory.pcb[n] \in alive \ {running}
      /\ \A n, o \in NodesOf(c) : memory.pcb[n] = memory.pcb[o] => n = o
  BY <1>3 DEF Frozen
<1>5. /\ order \in Seq(Queue) /\ order # << >> /\ IsInjective(order)
  BY <1>1, <1>3 DEF Left
<1>6. PICK j \in 1 .. Len(c[Head(order)]) + 1 : StillInUse(c, j)
  BY <1>1, <1>3 DEF Left
<1> DEFINE s == c[Head(order)]
           others == UNION {Range(c[q]) : q \in Range(Tail(order))}
<1>7. /\ iter = IF j <= Len(s) THEN s[j] ELSE NULL
      /\ memory.allocated = {s[k] : k \in j .. Len(s)} \cup others
      /\ j \in 1 .. Len(s) + 1
  BY <1>6 DEF StillInUse
<1>8. Head(order) \in Range(order) /\ Range(Tail(order)) = Range(order) \ {Head(order)}
      /\ Range(order) \subseteq Queue
  BY <1>5, TailRange, SeqFacts
<1>9. /\ Head(order) \in Queue /\ s \in Seq(Node) /\ IsInjective(s)
      /\ Follows(memory, Head(order), s)
      /\ Range(s) \cap others = {}
  BY <1>4, <1>8 DEF Wired
<1> HIDE DEF s, others
<1>10. /\ Len(s) \in Nat /\ DOMAIN s = 1 .. Len(s) /\ (s = << >> <=> Len(s) = 0)
       /\ \A k \in 1 .. Len(s) : s[k] \in Node /\ s[k] \in Range(s)
  BY <1>9, SeqFacts
<1>11. j \in 1 .. Len(s) /\ iter = s[j]
  BY <1>1, <1>7, <1>10
<1>12. iter \in memory.allocated /\ iter \in Node /\ iter \in Range(s) /\ iter \in NodesOf(c)
  BY <1>4, <1>7, <1>10, <1>11
<1>13. /\ memory'.allocated = memory.allocated \ {iter}
       /\ memory'.first_node = memory.first_node /\ memory'.last_node = memory.last_node
       /\ memory'.size = memory.size /\ memory'.next = memory.next
       /\ memory'.pcb = memory.pcb /\ memory'.quantum_size = memory.quantum_size
       /\ memory' \in Memory
  BY <1>1, <1>2 DEF Memory
<1>14. Wired(memory', c)
  BY <1>4, <1>13 DEF Wired, Follows
<1>15. Frozen(c)'
  BY <1>1, <1>4, <1>13, <1>14 DEF Frozen
<1>16. iter' = IF j + 1 <= Len(s) THEN s[j + 1] ELSE NULL
  <2>1. CASE j = Len(s)
    BY <2>1, <1>1, <1>9, <1>10, <1>11 DEF Follows
  <2>2. CASE j # Len(s)
    <3>1. \A a \in Nat : \A b \in 1 .. a : b # a => b \in 1 .. a - 1 /\ b + 1 <= a
      OBVIOUS
    <3>2. j \in 1 .. Len(s) - 1 /\ j + 1 <= Len(s)
      BY <2>2, <3>1, <1>10, <1>11
    <3> QED
      BY <3>2, <1>1, <1>9, <1>11 DEF Follows
  <2> QED
    BY <2>1, <2>2
<1>17. memory'.allocated = {s[k] : k \in j + 1 .. Len(s)} \cup others
  <2>1. \A k : k \in j .. Len(s) <=> k = j \/ k \in j + 1 .. Len(s)
    BY <1>10, <1>11
  <2>2. \A k \in j + 1 .. Len(s) : s[k] # iter
    <3>1. \A k \in j + 1 .. Len(s) : k \in 1 .. Len(s) /\ k # j
      BY <1>10, <1>11
    <3> QED
      BY <3>1, <1>9, <1>10, <1>11 DEF IsInjective
  <2>3. iter \notin others
    BY <1>9, <1>12
  <2> QED
    BY <2>1, <2>2, <2>3, <1>7, <1>11, <1>13
<1>18. StillInUse(c, j + 1)' /\ j + 1 \in 1 .. Len(s) + 1
  <2>1. j + 1 \in 1 .. Len(s) + 1
    BY <1>10, <1>11
  <2> QED
    BY <2>1, <1>1, <1>16, <1>17 DEF StillInUse, s, others
<1>19. Left(c)'
  BY <1>1, <1>5, <1>18 DEF Left, s
<1>20. GivenBack(c)'
  <2> DEFINE old == NodesOf(c) \ memory.allocated
             new == NodesOf(c) \ memory'.allocated
  <2>1. \A n : n \in new <=> n \in old \/ n = iter
    BY <1>12, <1>13
  <2>2. \A n \in old : n \in NodesOf(c) /\ n # iter
    BY <1>12
  <2> HIDE DEF old, new
  <2>3. destroyed = [p \in PCB |-> IF \E n \in old : memory.pcb[n] = p THEN 1 ELSE 0]
    BY <1>1, <1>3 DEF GivenBack, old
  <2>4. memory.pcb[iter] \in PCB /\ ~ \E n \in old : memory.pcb[n] = memory.pcb[iter]
    BY <2>2, <1>2, <1>4, <1>12
  <2>5. \A p \in PCB : destroyed'[p] = IF \E n \in new : memory.pcb[n] = p THEN 1 ELSE 0
    <3> SUFFICES ASSUME NEW p \in PCB
                 PROVE  destroyed'[p] = IF \E n \in new : memory.pcb[n] = p THEN 1 ELSE 0
      OBVIOUS
    <3>1. CASE p = memory.pcb[iter]
      BY <3>1, <2>1, <2>3, <2>4, <1>1
    <3>2. CASE p # memory.pcb[iter]
      BY <3>2, <2>1, <2>3, <2>4, <1>1
    <3> QED
      BY <3>1, <3>2
  <2>6. destroyed' = [p \in PCB |-> IF \E n \in new : memory.pcb[n] = p THEN 1 ELSE 0]
    BY <2>3, <2>5, <1>1
  <2> QED
    BY <2>6, <1>1, <1>13 DEF GivenBack, new
<1>21. TypeOK'
  BY <1>1, <1>2, <1>13, TypeParts DEF TypeOK, Memory
<1> QED
  BY <1>1, <1>2, <1>15, <1>19, <1>20, <1>21 DEF TeardownInv

(* A queue is done.                                                        *)
LEMMA TeardownQueue == TeardownInv /\ NextQueue => TeardownInv'
<1> SUFFICES ASSUME TeardownInv, NextQueue PROVE TeardownInv'
  OBVIOUS
<1>1. /\ at = "queues" /\ iter = NULL /\ order' = Tail(order) /\ destroyed' = destroyed
      /\ UNCHANGED vars
      /\ IF Tail(order) = << >>
         THEN at' = "running"
         ELSE iter' = memory.first_node[Head(Tail(order))] /\ at' = at
  BY DEF NextQueue
<1>2. /\ TypeOK /\ phase = "loop" /\ running \in alive \cup {NULL} /\ memory \in Memory
  BY <1>1, TypeParts DEF TeardownInv
<1>3. /\ phase' = phase /\ memory' = memory /\ running' = running /\ alive' = alive
      /\ TypeOK'
  BY <1>1, <1>2 DEF vars, TypeOK
<1>4. PICK c : Frozen(c) /\ Left(c) /\ GivenBack(c)
  BY <1>1 DEF TeardownInv
<1>5. /\ order \in Seq(Queue) /\ order # << >> /\ IsInjective(order)
      /\ Wired(memory, c)
  BY <1>1, <1>4 DEF Left, Frozen
<1>6. PICK j \in 1 .. Len(c[Head(order)]) + 1 : StillInUse(c, j)
  BY <1>1, <1>4 DEF Left
<1>7. /\ Head(order) \in Queue /\ Tail(order) \in Seq(Queue) /\ IsInjective(Tail(order))
  BY <1>5, TailRange, SeqFacts
<1>8. memory.allocated = UNION {Range(c[q]) : q \in Range(Tail(order))}
  <2> DEFINE s == c[Head(order)]
  <2>1. s \in Seq(Node)
    BY <1>5, <1>7 DEF Wired
  <2>2. /\ iter = IF j <= Len(s) THEN s[j] ELSE NULL
        /\ memory.allocated = {s[k] : k \in j .. Len(s)}
                                \cup UNION {Range(c[q]) : q \in Range(Tail(order))}
        /\ j \in 1 .. Len(s) + 1
    BY <1>6 DEF StillInUse
  <2> HIDE DEF s
  <2>3. Len(s) \in Nat /\ \A k \in 1 .. Len(s) : s[k] \in Node
    BY <2>1, SeqFacts
  <2>4. ~ (j <= Len(s))
    BY <1>1, <2>2, <2>3, FifoQueueAssumption
  <2>5. j .. Len(s) = {}
    BY <2>2, <2>3, <2>4
  <2> QED
    BY <2>2, <2>5
<1>9. Frozen(c)' /\ GivenBack(c)'
  BY <1>1, <1>3, <1>4 DEF Frozen, GivenBack
<1>10. CASE Tail(order) = << >>
  <2>1. at' = "running"
    BY <1>1, <1>10
  <2>2. Range(Tail(order)) = {}
    BY <1>10 DEF Range
  <2>3. memory.allocated = {}
    BY <1>8, <2>2
  <2>4. Left(c)'
    BY <1>3, <2>1, <2>3 DEF Left
  <2> QED
    BY <1>2, <1>3, <1>9, <2>1, <2>4 DEF TeardownInv
<1>11. CASE Tail(order) # << >>
  <2> DEFINE o == Tail(order)
  <2>1. o \in Seq(Queue) /\ o # << >> /\ IsInjective(o)
        /\ memory.allocated = UNION {Range(c[q]) : q \in Range(o)}
    BY <1>7, <1>8, <1>11
  <2>2. order' = o /\ iter' = memory.first_node[Head(o)] /\ at' = "queues"
    BY <1>1, <1>11
  <2> HIDE DEF o
  <2>3. /\ 1 \in 1 .. Len(c[Head(o)]) + 1
        /\ memory.first_node[Head(o)]
             = IF 1 <= Len(c[Head(o)]) THEN c[Head(o)][1] ELSE NULL
        /\ memory.allocated = {c[Head(o)][k] : k \in 1 .. Len(c[Head(o)])}
                                \cup UNION {Range(c[q]) : q \in Range(Tail(o))}
    BY <1>2, <1>5, <2>1, EntersQueue
  <2>4. StillInUse(c, 1)'
    BY <1>3, <2>2, <2>3 DEF StillInUse
  <2>5. Left(c)'
    BY <2>1, <2>2, <2>3, <2>4 DEF Left
  <2> QED
    BY <1>2, <1>3, <1>9, <2>2, <2>5 DEF TeardownInv
<1> QED
  BY <1>10, <1>11

(* The process on the CPU is released last, which the lists never had.     *)
LEMMA TeardownRunning == TeardownInv /\ DestroyRunning => TeardownInv'
<1> SUFFICES ASSUME TeardownInv, DestroyRunning PROVE TeardownInv'
  OBVIOUS
<1>1. /\ at = "running" /\ UNCHANGED vars
      /\ \/ running = NULL /\ at' = "crashed" /\ destroyed' = destroyed
         \/ /\ running # NULL /\ at' = "down"
            /\ destroyed' = [destroyed EXCEPT ![running] = @ + 1]
  BY DEF DestroyRunning, PCB_destroy
<1>2. /\ TypeOK /\ phase = "loop" /\ running \in alive \cup {NULL} /\ alive \subseteq PCB
  BY <1>1, TypeParts DEF TeardownInv
<1>3. /\ phase' = phase /\ memory' = memory /\ running' = running /\ alive' = alive
      /\ TypeOK'
  BY <1>1, <1>2 DEF vars, TypeOK
<1>4. PICK c : Frozen(c) /\ Left(c) /\ GivenBack(c)
  BY <1>1 DEF TeardownInv
<1>5. memory.allocated = {} /\ (\A n \in NodesOf(c) : memory.pcb[n] \in alive \ {running})
  BY <1>1, <1>4 DEF Left, Frozen
<1>6. Frozen(c)' /\ Left(c)'
  BY <1>1, <1>3, <1>4, <1>5 DEF Frozen, Left
<1> DEFINE gone == NodesOf(c) \ memory.allocated
<1>7. destroyed = [p \in PCB |-> IF \E n \in gone : memory.pcb[n] = p THEN 1 ELSE 0]
  BY <1>1, <1>4 DEF GivenBack
<1>8. \A n \in gone : memory.pcb[n] # running
  BY <1>5
<1> HIDE DEF gone
<1>9. CASE running = NULL
  <2>1. at' = "crashed" /\ destroyed' = destroyed
    BY <1>1, <1>9
  <2>2. GivenBack(c)'
    BY <1>3, <1>7, <2>1 DEF GivenBack, gone
  <2> QED
    BY <1>2, <1>3, <1>4, <1>6, <2>1, <2>2 DEF TeardownInv
<1>10. CASE running # NULL
  <2>1. at' = "down" /\ destroyed' = [destroyed EXCEPT ![running] = @ + 1] /\ running \in PCB
    BY <1>1, <1>2, <1>10
  <2>2. \A p \in PCB : destroyed'[p] = IF (\E n \in gone : memory.pcb[n] = p) \/ p = running
                                       THEN 1 ELSE 0
    <3> SUFFICES ASSUME NEW p \in PCB
                 PROVE  destroyed'[p] = IF (\E n \in gone : memory.pcb[n] = p) \/ p = running
                                        THEN 1 ELSE 0
      OBVIOUS
    <3>1. CASE p = running
      BY <3>1, <2>1, <1>7, <1>8
    <3>2. CASE p # running
      BY <3>2, <2>1, <1>7
    <3> QED
      BY <3>1, <3>2
  <2>3. destroyed' = [p \in PCB |-> IF (\E n \in gone : memory.pcb[n] = p) \/ p = running
                                    THEN 1 ELSE 0]
    BY <2>1, <2>2, <1>7
  <2>4. GivenBack(c)'
    BY <1>3, <2>1, <2>3 DEF GivenBack, gone
  <2> QED
    BY <1>2, <1>3, <1>4, <1>6, <2>1, <2>4 DEF TeardownInv
<1> QED
  BY <1>9, <1>10

(* A step that changes nothing.                                            *)
LEMMA TeardownStutter == TeardownInv /\ UNCHANGED << vars, teardownVars >> => TeardownInv'
<1> SUFFICES ASSUME TeardownInv, UNCHANGED << vars, teardownVars >> PROVE TeardownInv'
  OBVIOUS
<1>1. /\ phase' = phase /\ memory' = memory /\ priority' = priority /\ running' = running
      /\ isNew' = isNew /\ currQuantumSize' = currQuantumSize /\ alive' = alive
      /\ mallocFailed' = mallocFailed
      /\ at' = at /\ order' = order /\ iter' = iter /\ destroyed' = destroyed
  BY DEF vars, teardownVars
<1>2. TypeOK => TypeOK'
  BY <1>1 DEF TypeOK
<1>3. CASE at = "system"
  <2>1. ListInv'
    BY <1>1, <1>3, ListStep DEF TeardownInv, vars
  <2> QED
    BY <1>1, <1>3, <2>1 DEF TeardownInv
<1>4. CASE at # "system"
  <2>1. PICK c : Frozen(c) /\ Left(c) /\ GivenBack(c)
    BY <1>4 DEF TeardownInv
  <2>2. Frozen(c)' /\ GivenBack(c)'
    BY <1>1, <2>1 DEF Frozen, GivenBack
  <2>3. Left(c)'
    BY <1>1, <2>1 DEF Left, StillInUse
  <2> QED
    BY <1>1, <1>2, <1>4, <2>2, <2>3 DEF TeardownInv
<1> QED
  BY <1>3, <1>4

(* Every step of the system and of its teardown keeps the invariant.       *)
LEMMA TeardownStep == TeardownInv /\ [TeardownNext]_<< vars, teardownVars >> => TeardownInv'
<1> SUFFICES ASSUME TeardownInv, [TeardownNext]_<< vars, teardownVars >> PROVE TeardownInv'
  OBVIOUS
<1>1. CASE UNCHANGED << vars, teardownVars >>
  BY <1>1, TeardownStutter
<1>2. CASE SystemStep
  BY <1>2, TeardownStarts
<1>3. CASE BeginTeardown
  BY <1>3, TeardownBegins
<1>4. CASE DestroyNode
  BY <1>4, TeardownNode
<1>5. CASE NextQueue
  BY <1>5, TeardownQueue
<1>6. CASE DestroyRunning
  BY <1>6, TeardownRunning
<1>7. CASE Down
  BY <1>7, TeardownStutter DEF Down
<1> QED
  BY <1>1, <1>2, <1>3, <1>4, <1>5, <1>6, <1>7 DEF TeardownNext

(* The invariant holds of the system and its teardown.                     *)
LEMMA TeardownInvariant == TeardownSpec => []TeardownInv
<1>1. TeardownInit => TeardownInv
  BY TeardownStarts
<1>2. TeardownInv /\ [TeardownNext]_<< vars, teardownVars >> => TeardownInv'
  BY TeardownStep
<1> QED
  BY <1>1, <1>2, PTL DEF TeardownSpec

(* What the invariant says of the lists, before and during the teardown.   *)
LEMMA TeardownInvLists ==
  TeardownInv => TypeOK /\ WellLinked /\ NodesInUseAccounted /\ NoCrashWithoutFailure
<1> SUFFICES ASSUME TeardownInv
             PROVE  TypeOK /\ WellLinked /\ NodesInUseAccounted /\ NoCrashWithoutFailure
  OBVIOUS
<1>1. CASE at = "system"
  BY <1>1, ListInvImplies DEF TeardownInv, NodesInUseAccounted
<1>2. CASE at # "system"
  <2>1. TypeOK /\ phase = "loop" /\ memory \in Memory
    BY <1>2, TypeParts DEF TeardownInv
  <2>2. PICK c : Wired(memory, c)
    BY <1>2 DEF TeardownInv, Frozen
  <2>3. WellLinked
    BY <2>1, <2>2, WiredLists
  <2> QED
    BY <1>2, <2>1, <2>3 DEF NodesInUseAccounted, NoCrashWithoutFailure
<1> QED
  BY <1>1, <1>2

(* What the invariant says of what has been released: the PCBs of the      *)
(* nodes given back, which were alive; and q_destroy is at a node in use.  *)
LEMMA TeardownInvReleased == TeardownInv => ReleasedOnce
<1> SUFFICES ASSUME TeardownInv PROVE ReleasedOnce
  OBVIOUS
<1>1. CASE at = "system"
  BY <1>1 DEF TeardownInv, ReleasedOnce
<1>2. CASE at # "system"
  <2>1. PICK c : Frozen(c) /\ Left(c) /\ GivenBack(c)
    BY <1>2 DEF TeardownInv
  <2>2. running \in alive \cup {NULL} /\ NULL \notin PCB
    BY <1>2, TypeParts DEF TeardownInv
  <2>3. \A n \in NodesOf(c) : memory.pcb[n] \in alive \ {running}
    BY <2>1 DEF Frozen
  <2> DEFINE gone == NodesOf(c) \ memory.allocated
  <2>4. \A n \in gone : memory.pcb[n] \in alive
    BY <2>3
  <2>5. destroyed = [p \in PCB |-> IF \/ \E n \in gone : memory.pcb[n] = p
                                      \/ at = "down" /\ p = running
                                  THEN 1 ELSE 0]
    BY <2>1 DEF GivenBack
  <2> HIDE DEF gone
  <2>6. ASSUME NEW p \in PCB PROVE destroyed[p] <= IF p \in alive THEN 1 ELSE 0
    <3>1. destroyed[p] \in {0, 1} /\ (destroyed[p] = 1 => p \in alive)
      BY <2>2, <2>4, <2>5
    <3> QED
      BY <3>1
  <2>7. ASSUME at = "queues" PROVE iter \in memory.allocated \cup {NULL}
    <3>1. PICK j \in 1 .. Len(c[Head(order)]) + 1 : StillInUse(c, j)
      BY <2>1, <2>7 DEF Left
    <3> DEFINE s == c[Head(order)]
               others == UNION {Range(c[q]) : q \in Range(Tail(order))}
    <3>2. /\ iter = IF j <= Len(s) THEN s[j] ELSE NULL
          /\ memory.allocated = {s[k] : k \in j .. Len(s)} \cup others
      BY <3>1 DEF StillInUse
    <3>3. Len(s) \in Nat
      <4>1. /\ order \in Seq(Queue) /\ order # << >> /\ c \in [Queue -> Seq(Node)]
        BY <2>1, <2>7 DEF Left, Frozen, Wired
      <4>2. Head(order) \in Queue
        BY <4>1, SeqFacts
      <4>3. s \in Seq(Node)
        BY <4>1, <4>2
      <4> QED
        BY <4>3, SeqFacts
    <3> HIDE DEF s, others
    <3>4. j <= Len(s) => j \in j .. Len(s)
      BY <3>3
    <3> QED
      BY <3>2, <3>4
  <2> QED
    BY <2>6, <2>7 DEF ReleasedOnce
<1> QED
  BY <1>1, <1>2

(* What the invariant says of the scheduler that is down.                  *)
LEMMA TeardownInvLeft == TeardownInv => NothingLeft
<1> SUFFICES ASSUME TeardownInv, at = "down"
             PROVE  memory.allocated = {} /\ \A p \in Reachable : destroyed[p] = 1
  BY DEF NothingLeft
<1>1. PICK c : Frozen(c) /\ Left(c) /\ GivenBack(c)
  BY DEF TeardownInv
<1>2. /\ memory \in Memory /\ running \in alive \cup {NULL} /\ alive \subseteq PCB
  BY TypeParts DEF TeardownInv
<1>3. Wired(memory, c) /\ memory.allocated = {}
  BY <1>1 DEF Frozen, Left
<1>4. ASSUME NEW p \in Reachable PROVE destroyed[p] = 1
  <2>1. CASE p \in {running} \ {NULL}
    BY <2>1, <1>1, <1>2 DEF GivenBack
  <2>2. CASE p \in UNION {Range(Contents(memory, q)) : q \in Queue}
    <3>1. PICK q \in Queue : p \in Range(Contents(memory, q))
      BY <2>2
    <3>2. Contents(memory, q) = PcbsOf(memory, c[q]) /\ c[q] \in Seq(Node)
      BY <1>2, <1>3, <3>1, ContentsAre DEF Wired
    <3>3. PICK k \in DOMAIN c[q] : p = memory.pcb[c[q][k]]
      BY <3>1, <3>2 DEF PcbsOf, Range
    <3>4. c[q][k] \in NodesOf(c)
      BY <3>1, <3>3 DEF NodesOf, Range
    <3>5. p \in PCB
      BY <1>1, <1>2, <3>3, <3>4 DEF Frozen
    <3> QED
      BY <1>1, <1>3, <3>3, <3>4, <3>5 DEF GivenBack
  <2> QED
    BY <2>1, <2>2 DEF Reachable
<1> QED
  BY <1>3, <1>4

(* The teardown is not a step of the abstract specification: the lists     *)
(* still hold what they held, in nodes that are given back one by one.     *)
LEMMA TeardownImplements ==
  TeardownInv /\ [TeardownNext]_<< vars, teardownVars >> => [Abstract!Next]_(Abstract!vars)
<1> SUFFICES ASSUME TeardownInv, [TeardownNext]_<< vars, teardownVars >>
             PROVE  [Abstract!Next]_(Abstract!vars)
  OBVIOUS
<1>1. CASE UNCHANGED vars
  BY <1>1 DEF vars, Abstract!vars
<1>2. CASE SystemStep
  BY <1>2, ListStep DEF SystemStep, TeardownInv
<1>3. CASE DestroyNode
  <2>1. /\ at = "queues"
        /\ memory' = [memory EXCEPT !.allocated = @ \ {iter}]
        /\ phase' = phase /\ priority' = priority /\ running' = running /\ isNew' = isNew
        /\ currQuantumSize' = currQuantumSize /\ alive' = alive
    BY <1>3 DEF DestroyNode
  <2>2. memory \in Memory
    BY <2>1, TypeParts DEF TeardownInv
  <2>3. PICK c : Wired(memory, c)
    BY <2>1 DEF TeardownInv, Frozen
  <2>4. /\ memory'.first_node = memory.first_node /\ memory'.last_node = memory.last_node
        /\ memory'.size = memory.size /\ memory'.next = memory.next
        /\ memory'.pcb = memory.pcb /\ memory'.quantum_size = memory.quantum_size
        /\ memory' \in Memory
    BY <2>1, <2>2 DEF Memory
  <2>5. Wired(memory', c)
    BY <2>3, <2>4 DEF Wired, Follows
  <2>6. \A q \in Queue : Contents(memory', q) = Contents(memory, q)
    BY <2>2, <2>3, <2>4, <2>5, ContentsAre DEF PcbsOf
  <2>7. Ready(memory') = Ready(memory)
    BY <2>6, QueueFacts DEF Ready
  <2>8. /\ Contents(memory', created) = Contents(memory, created)
        /\ Contents(memory', blocked) = Contents(memory, blocked)
        /\ Contents(memory', killed) = Contents(memory, killed)
    BY <2>6, QueueFacts
  <2> QED
    BY <2>1, <2>7, <2>8, AbstractState DEF Abstract!vars
<1> QED
  BY <1>1, <1>2, <1>3
  DEF TeardownNext, BeginTeardown, NextQueue, DestroyRunning, Down

(* The fields of the lists and of the system have their types, through the *)
(* teardown as well.                                                       *)
THEOREM ListsTypeCorrect == TeardownSpec => []TypeOK
BY TeardownInvariant, TeardownInvLists, PTL

(* Every list ends where last_node and size say, whatever interrupts came, *)
(* resets spliced and allocations failed.                                  *)
THEOREM WellLinkedAlways == TeardownSpec => []WellLinked
BY TeardownInvariant, TeardownInvLists, PTL

(* While the system runs, no node is leaked and none is on two lists, the  *)
(* splice and failing allocations included.                                *)
THEOREM NodesInUseAccountedAlways == TeardownSpec => []NodesInUseAccounted
BY TeardownInvariant, TeardownInvLists, PTL

(* A null pointer is followed only after malloc has failed.                *)
THEOREM NoCrashWithoutFailureAlways == TeardownSpec => []NoCrashWithoutFailure
BY TeardownInvariant, TeardownInvLists, PTL

(* schedulerDeconstructor releases no node and no PCB twice: q_destroy     *)
(* only ever stands on a node in use, and what the killed queue released   *)
(* before is on no queue and not on the CPU.                               *)
THEOREM ReleasedOnceAlways == TeardownSpec => []ReleasedOnce
BY TeardownInvariant, TeardownInvReleased, PTL

(* When schedulerDeconstructor returns, no node is in use and every PCB    *)
(* that the scheduler could reach has been released.                       *)
THEOREM NothingLeftAlways == TeardownSpec => []NothingLeft
BY TeardownInvariant, TeardownInvLeft, PTL

(* With its teardown the scheduler still does to the sequences what        *)
(* AbstractQueues says, and the teardown nothing.                          *)
THEOREM TeardownKeepsAbstract == TeardownSpec => ImplementsAbstract
<1>1. TeardownInit => Abstract!Init
  BY ListInit DEF TeardownInit
<1>2. TeardownInv /\ [TeardownNext]_<< vars, teardownVars >> => [Abstract!Next]_(Abstract!vars)
  BY TeardownImplements
<1> QED
  BY <1>1, <1>2, TeardownInvariant, PTL DEF TeardownSpec, ImplementsAbstract, Abstract!Spec
=============================================================================
