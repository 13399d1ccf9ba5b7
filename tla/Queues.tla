------------------------------ MODULE Queues -------------------------------
(***************************************************************************)
(* The list operations of phase1/pcb.c and phase1/asl.c on queues of PCBs, *)
(* as functions of sequences.  prio is the priority of each PCB.           *)
(*                                                                         *)
(* Without and insertAll are recursive functions, not SelectSeq and a      *)
(* fold, so that QueueTheorems can say what they return.                   *)
(***************************************************************************)
EXTENDS Integers, FiniteSets, SequencesExt

\* Mutant: a process goes in front of its equals.
AheadOfEquals(prio, q, p) ==
    {i \in DOMAIN q : \A j \in 1 .. i : prio[q[j]] > prio[p]}

\* The positions that insertProcQ walks past: those before the first element of
\* a lower priority.
Ahead(prio, q, p) ==
    {i \in DOMAIN q : \A j \in 1 .. i : prio[q[j]] >= prio[p]}

\* Mutant: a queue without priorities.
AtTail(prio, q, p) == Append(q, p)

insertProcQ(prio, q, p) ==
    InsertAt(q, Cardinality(Ahead(prio, q, p)) + 1, p)

\* insertProcQ of each element of w in turn.
insertAll(prio, q, w) ==
    LET f[k \in 0 .. Len(w)] ==
            IF k = 0 THEN q ELSE insertProcQ(prio, f[k - 1], w[k])
    IN  f[Len(w)]

\* q after outProcQ or outBlocked of the elements of X.
Without(q, X) ==
    LET f[k \in 0 .. Len(q)] ==
            IF k = 0 THEN <<>>
            ELSE IF q[k] \in X THEN f[k - 1] ELSE Append(f[k - 1], q[k])
    IN  f[Len(q)]

\* Mutant: list_add for list_add_tail.
Push(q, p) == <<p>> \o q

\* Where insertBlocked puts a process in the queue of a semaphore.
Enqueue(q, p) == Append(q, p)

\* a comes before b in q.
Before(q, a, b) == \E j \in DOMAIN q : \E i \in 1 .. j - 1 : q[i] = a /\ q[j] = b
=============================================================================
