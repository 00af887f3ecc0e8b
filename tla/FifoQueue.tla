------------------------------ MODULE FifoQueue ------------------------------
(***************************************************************************)
(* The linked lists of fifo_queue.c.  The memory they live in is a record: *)
(*   first_node, last_node, size, quantum_size   of each queue             *)
(*   next, pcb                                   of each node              *)
(*   allocated                                   the nodes in use          *)
(* An operation takes the memory m and returns the memory it leaves behind *)
(* (q_peek and q_is_empty return a value).  What a freed node held stays   *)
(* in it, so that a pointer left dangling reads old data.                  *)
(***************************************************************************)
EXTENDS Integers, Sequences, FiniteSets, Functions

CONSTANTS
  Node,   \* addresses malloc can return for a node
  NULL    \* the null pointer

ASSUME FifoQueueAssumption == IsFiniteSet(Node) /\ NULL \notin Node

(* q_create for every queue of Q; the nodes hold whatever was there.       *)
q_create(Q, quantum) ==
  [ first_node   |-> [q \in Q |-> NULL],
    last_node    |-> [q \in Q |-> NULL],
    size         |-> [q \in Q |-> 0],
    quantum_size |-> quantum,
    next         |-> [n \in Node |-> NULL],
    pcb          |-> [n \in Node |-> NULL],
    allocated    |-> {} ]

(* malloc returns a node that is not in use, or null.                      *)
malloc(m) == (Node \ m.allocated) \cup {NULL}

q_is_empty(m, q) == m.first_node[q] = NULL

q_peek(m, q) == IF q_is_empty(m, q) THEN NULL ELSE m.pcb[m.first_node[q]]

-----------------------------------------------------------------------------
(* The node new_node becomes the last one of q.                            *)
Link(m, q, new_node) ==
  IF m.last_node[q] # NULL
  THEN [m EXCEPT !.next[m.last_node[q]] = new_node, !.last_node[q] = new_node]
  ELSE [m EXCEPT !.first_node[q] = new_node, !.last_node[q] = new_node]

(* new_node is what malloc returned; a PCB that gets no node is dropped,   *)
(* and no caller looks at the result.  The callers never pass a null PCB.  *)
q_enqueue(m, q, pcb, new_node) ==
  IF new_node = NULL THEN m
  ELSE [Link(m, q, new_node) EXCEPT
          !.allocated = @ \cup {new_node},
          !.pcb[new_node] = pcb,
          !.next[new_node] = NULL,
          !.size[q] = @ + 1]

(* A node that is never given back.                                        *)
MutantDequeueLeaks(m, q) ==
  LET ret_node == m.first_node[q] IN
  IF ret_node = NULL THEN m
  ELSE [m EXCEPT
          !.first_node[q] = m.next[ret_node],
          !.size[q] = @ - 1,
          !.last_node[q] = IF m.next[ret_node] = NULL THEN NULL ELSE @]

(* A tail that the final dequeue leaves behind: the next node would be     *)
(* hung on the freed one.                                                  *)
MutantDequeueStaleTail(m, q) ==
  LET ret_node == m.first_node[q] IN
  IF ret_node = NULL THEN m
  ELSE [m EXCEPT
          !.first_node[q] = m.next[ret_node],
          !.size[q] = @ - 1,
          !.allocated = @ \ {ret_node}]

(* The PCB it returns is q_peek's.                                         *)
q_dequeue(m, q) ==
  LET ret_node == m.first_node[q] IN
  IF ret_node = NULL THEN m
  ELSE [m EXCEPT
          !.first_node[q] = m.next[ret_node],
          !.size[q] = @ - 1,
          !.last_node[q] = IF m.next[ret_node] = NULL THEN NULL ELSE @,
          !.allocated = @ \ {ret_node}]

-----------------------------------------------------------------------------
(* The nodes met by following next from the first node of q, in order: the *)
(* walk of resetReadyQueue and of q_destroy.  A walk that does not reach   *)
(* null within the memory is cut off one node after it must have repeated. *)
Chain(m, q) ==
  LET node[k \in 0 .. Cardinality(Node)] ==
        IF k = 0 THEN m.first_node[q]
        ELSE IF node[k - 1] = NULL THEN NULL ELSE m.next[node[k - 1]]
      length == Cardinality({k \in DOMAIN node : node[k] # NULL})
  IN [k \in 1 .. length |-> node[k - 1]]

(* The sequence of PCBs a queue stands for.                                *)
Contents(m, q) == [k \in DOMAIN Chain(m, q) |-> m.pcb[Chain(m, q)[k]]]
=============================================================================
