---------------------------- MODULE ProcessLists ---------------------------
(***************************************************************************)
(* What the nucleus is promised by phase 1: a pool of PCBs, a ready queue  *)
(* sorted by priority, one first-come first-served queue per semaphore,    *)
(* and the parents of processes.  Phase1 shows that the linked lists of    *)
(* pcb.c and asl.c keep the promise; Nucleus is built on it.               *)
(***************************************************************************)
EXTENDS Queues

CONSTANTS Pcb, NULL, Key, Prio

VARIABLES pool, prio, ready, blocked, parent

vars == <<pool, prio, ready, blocked, parent>>

\* The PCBs the caller holds: allocated, and in no queue.
Held == Pcb \ (pool \cup ToSet(ready) \cup UNION {ToSet(blocked[s]) : s \in Key})

Alone(p) == parent[p] = NULL /\ \A q \in Pcb : parent[q] # p

Init ==
    /\ pool = Pcb
    /\ prio = [p \in Pcb |-> 0]
    /\ ready = <<>>
    /\ blocked = [s \in Key |-> <<>>]
    /\ parent = [p \in Pcb |-> NULL]

(* Taking a PCB out of the pool and giving it back *)

Alloc(p, v) ==
    /\ pool' = pool \ {p}
    /\ prio' = [prio EXCEPT ![p] = v]

Free(p) ==
    /\ pool' = pool \cup {p}
    /\ prio' = [prio EXCEPT ![p] = 0]

PoolStep ==
    /\ UNCHANGED <<parent, ready, blocked>>
    /\ \/ \E p \in pool, v \in Prio : Alloc(p, v)
       \/ \E p \in Held : Alone(p) /\ Free(p)

(* The ready queue *)

Insert(p) == ready' = insertProcQ(prio, ready, p)

Dequeue == ready # <<>> /\ ready' = Tail(ready)

Out(p) == ready' = Without(ready, {p})

ReadyStep ==
    /\ UNCHANGED <<prio, parent, pool, blocked>>
    /\ \/ \E p \in Held : Insert(p)
       \/ Dequeue
       \/ \E p \in ToSet(ready) : Out(p)

(* The queues of the semaphores *)

Block(s, p) == blocked' = [blocked EXCEPT ![s] = Enqueue(@, p)]

Wake(s) == blocked[s] # <<>> /\ blocked' = [blocked EXCEPT ![s] = Tail(@)]

Unblock(s, p) == blocked' = [blocked EXCEPT ![s] = Without(@, {p})]

BlockedStep ==
    /\ UNCHANGED <<prio, parent, pool, ready>>
    /\ \E s \in Key :
          \/ \E p \in Held : Block(s, p)
          \/ Wake(s)
          \/ \E p \in ToSet(blocked[s]) : Unblock(s, p)

(* The trees *)

Adopt(q, p) == parent[p] = NULL /\ parent' = [parent EXCEPT ![p] = q]

Orphan(p) == parent[p] # NULL /\ parent' = [parent EXCEPT ![p] = NULL]

FamilyStep ==
    /\ UNCHANGED <<prio, pool, ready, blocked>>
    /\ \E p \in Pcb \ pool : Orphan(p) \/ \E q \in Pcb \ pool : Adopt(q, p)

Next == PoolStep \/ ReadyStep \/ BlockedStep \/ FamilyStep

Spec == Init /\ [][Next]_vars
=============================================================================
