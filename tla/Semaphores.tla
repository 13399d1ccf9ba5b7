---------------------------- MODULE Semaphores -----------------------------
(***************************************************************************)
(* What the nucleus promises the processes that synchronise with PASSEREN  *)
(* and VERHOGEN: counting semaphores with a first-come first-served queue, *)
(* whose permits are not affected by the death of the processes that wait. *)
(* The nucleus implements count and queue with one signed integer and a    *)
(* queue of PCBs.                                                          *)
(***************************************************************************)
EXTENDS Queues

CONSTANTS Process, Semaphore

VARIABLES
    count,   \* permits available
    queue    \* processes that wait, in order of arrival

svars == <<count, queue>>

Waits(p) == \E s \in Semaphore : \E i \in DOMAIN queue[s] : queue[s][i] = p

Init == count \in [Semaphore -> Nat] /\ queue = [s \in Semaphore |-> <<>>]

\* A process takes a permit, or waits behind those that wait already.
P(p, s) ==
    /\ ~Waits(p)
    /\ IF count[s] > 0
       THEN count' = [count EXCEPT ![s] = @ - 1] /\ UNCHANGED queue
       ELSE queue' = [queue EXCEPT ![s] = Append(@, p)] /\ UNCHANGED count

\* The permit goes to the process that has waited longest, if any waits.
V(s) ==
    IF queue[s] # <<>>
    THEN queue' = [queue EXCEPT ![s] = Tail(@)] /\ UNCHANGED count
    ELSE count' = [count EXCEPT ![s] = @ + 1] /\ UNCHANGED queue

\* Processes that die while they wait leave their queues and nothing else.
Leave(S) ==
    /\ queue' = [s \in Semaphore |-> Without(queue[s], S)]
    /\ UNCHANGED count

Next ==
    \/ \E p \in Process, s \in Semaphore : P(p, s)
    \/ \E s \in Semaphore : V(s)
    \/ \E S \in SUBSET Process : Leave(S)

Spec == Init /\ [][Next]_svars
=============================================================================
