----------------------------- MODULE ProcessLife -----------------------------
(***************************************************************************)
(* The life of the processes as the scheduler promises it: who may get the *)
(* CPU, who may leave it and for where, and what is final.  Queues,        *)
(* priorities, timers and the loop are left out.  The scheduler of         *)
(* scheduler.c and the loop of os_loop.c both implement it.                *)
(***************************************************************************)
CONSTANT PCB   \* processes that can be created

VARIABLE stage   \* where each process is in its life

Stage == {"unborn", "queued", "running", "blocked", "halted", "released", "lost"}

Init == stage = [p \in PCB |-> "unborn"]

(* The stages s with the process p moved on to x.                          *)
Moved(s, p, x) == [q \in PCB |-> IF q = p THEN x ELSE s[q]]

(* The free CPU goes to a queued process, and stays free only if none is.  *)
HandOver(s) ==
  \/ \E p \in PCB : s[p] = "queued" /\ stage' = Moved(s, p, "running")
  \/ (\A p \in PCB : s[p] # "queued") /\ stage' = s

(* makePCBList: a round of new processes is queued ...                     *)
Arrive(new) ==
  stage' = [p \in PCB |-> IF p \in new THEN "queued" ELSE stage[p]]

(* ... and may take the CPU from the process that has it.                  *)
TakeOver(new) ==
  HandOver([p \in PCB |-> IF p \in new THEN "queued"
                          ELSE IF stage[p] = "running" THEN "lost" ELSE stage[p]])

(* The interrupts: the quantum is over, I/O is requested, I/O is done.     *)
Preempt(p) == stage[p] = "running" /\ HandOver(Moved(stage, p, "queued"))

Block(p) == stage[p] = "running" /\ HandOver(Moved(stage, p, "blocked"))

Wake(p) == stage[p] = "blocked" /\ stage' = Moved(stage, p, "queued")

(* A process halts; some that have halted, itself included, are released.  *)
Halt(p, R) ==
  /\ stage[p] = "running"
  /\ HandOver([q \in PCB |-> IF q \in R THEN "released"
                             ELSE IF q = p THEN "halted" ELSE stage[q]])

Next ==
  \/ \E new \in SUBSET {p \in PCB : stage[p] = "unborn"} :
       new # {} /\ (Arrive(new) \/ TakeOver(new))
  \/ \E p \in PCB :
       \/ Preempt(p) \/ Block(p) \/ Wake(p)
       \/ \E R \in SUBSET ({q \in PCB : stage[q] = "halted"} \cup {p}) : Halt(p, R)

Spec == Init /\ [][Next]_stage
=============================================================================
