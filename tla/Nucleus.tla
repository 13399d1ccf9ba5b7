------------------------------ MODULE Nucleus ------------------------------
(***************************************************************************)
(* The nucleus of MultiPandOS (phase2) over the abstract state of the      *)
(* phase1 data structures: the PCBs and their tree, the ready queue, the   *)
(* queues of processes blocked on semaphores (ASL), the counters the       *)
(* scheduler decides with, and the one CPU.                                *)
(*                                                                         *)
(* The nucleus runs with interrupts disabled, so an exception handler with *)
(* everything it calls, up to the LDST, WAIT, HALT or PANIC that ends it,  *)
(* is one action.  Nondeterminism is in what the running process asks for  *)
(* and in when a timer or a device interrupts.                             *)
(*                                                                         *)
(* A list of PCBs is a sequence; an int* that names a semaphore is an      *)
(* element of Sem; the list of free PCBs is a set, and allocPcb takes any  *)
(* of them.                                                                *)
(***************************************************************************)
EXTENDS Queues

CONSTANTS
    Pcb,          \* pcbFree_table: the MAXPROC process control blocks
    NULL,         \* the null pointer
    UserSem,      \* semaphores that live in the memory of processes
    Device,       \* (sub)devices, each named by its element of device_sem
    PseudoClock,  \* device_sem[PSEUDO_CLOCK_SEM_INDEX]
    Prio,         \* the priorities that processes are created with
    Supports,     \* support structures that processes are created with
    MaxPid,       \* bound: pids are smaller than this
    MaxVal        \* bound: V takes a user semaphore no higher than this

KernelSem == Device \cup {PseudoClock}   \* the array device_sem
Sem == UserSem \cup KernelSem

ASSUME PcbAssumption == IsFiniteSet(Pcb) /\ Pcb # {} /\ NULL \notin Pcb
ASSUME SemAssumption ==
    /\ PseudoClock \notin Device
    /\ UserSem \cap KernelSem = {}
    /\ NULL \notin Sem
ASSUME SupportAssumption == NULL \notin Supports
ASSUME NumberAssumption ==
    /\ Prio \subseteq Int /\ 0 \in Prio
    /\ MaxPid \in Nat /\ MaxPid > 2
    /\ MaxVal \in Nat

MAXPROC == Cardinality(Pcb)

\* Mutant: the PCBs of initPcbs keep the 0 of static storage.
ZeroPid == 0

NoPid == -1   \* p_pid of a free PCB

VARIABLES
    p_parent,           \* p_child and p_sib hold the inverse of this
    p_prio,
    p_pid,
    p_semAdd,           \* the semaphore a PCB is blocked on, or NULL
    p_s,                \* what the saved processor state is worth: "saved"
                        \* (the process resumes where it left the CPU),
                        \* "stale" (it has run since), "zero" (cleared)
    p_supportStruct,
    pcbFree,            \* pcbFree_h
    next_pid,
    semd_h,             \* the queue of each active semaphore, <<>> if inactive
    semval,             \* the int a semaphore's address points to
    ready_queue,
    process_counter,
    soft_block_counter,
    current_process,    \* NULL while the CPU waits
    cpu,                \* "run", "wait", "halt", "panic"; "lost": scheduler
                        \* returned to a handler that does not expect it
    busy                \* devices with a command in progress (hardware)

pcbVars == <<p_parent, p_prio, p_pid, p_supportStruct, pcbFree, next_pid>>
semVars == <<p_semAdd, semd_h, semval>>
cpuVars == <<current_process, ready_queue, p_s, cpu>>
counters == <<process_counter, soft_block_counter>>
vars == <<pcbVars, semVars, cpuVars, counters, busy>>

Live == Pcb \ pcbFree
Running == cpu = "run"

-----------------------------------------------------------------------------
(* phase1: process trees *)

\* Mutant: subTree_killer that does not recurse below the children.
Family(p) == {q \in Pcb : q = p \/ p_parent[q] = p}

\* p and everything below it: the least set with p that is closed under child.
Subtree(p) ==
    {q \in Pcb : \A S \in SUBSET Live :
        (p \in S /\ \A c \in Pcb : p_parent[c] \in S => c \in S) => q \in S}

\* findByPid: a set of at most one PCB
findByPid(pid) == {p \in Pcb : p_pid[p] = pid}

-----------------------------------------------------------------------------
(* scheduler() *)

Dispatch(ps, p, rq) ==
    /\ current_process' = p
    /\ ready_queue' = rq
    /\ p_s' = [ps EXCEPT ![p] = "stale"]
    /\ cpu' = "run"

\* Mutant: WAIT whenever there are processes.
Optimist(procs, soft) == IF procs = 0 THEN "halt" ELSE "wait"

\* What the scheduler makes of an empty ready queue.
Verdict(procs, soft) ==
    CASE procs = 0 -> "halt"
      [] procs > 0 /\ soft > 0 -> "wait"
      [] procs > 0 /\ soft = 0 -> "panic"
      [] OTHER -> "lost"

\* scheduler, entered with the saved states ps, the ready queue rq and the
\* counters as its caller leaves them.
scheduler(ps, rq) ==
    \/ rq # <<>> /\ Dispatch(ps, Head(rq), Tail(rq))
    \/ /\ rq = <<>>
       /\ current_process' = NULL
       /\ ready_queue' = <<>>
       /\ p_s' = ps
       /\ cpu' = Verdict(process_counter', soft_block_counter')

-----------------------------------------------------------------------------
(* System calls of the current process *)

\* The guard of next_pid is the bound MaxPid, not the code's.  With no free PCB
\* the caller gets -1 and nothing else changes.
create_process(prio, sup) ==
    /\ Running
    /\ IF pcbFree = {}
       THEN UNCHANGED vars
       ELSE /\ next_pid < MaxPid
            /\ \E p \in pcbFree :
                 /\ p_parent' = [p_parent EXCEPT ![p] = current_process]
                 /\ p_prio' = [p_prio EXCEPT ![p] = prio]
                 /\ p_pid' = [p_pid EXCEPT ![p] = next_pid]
                 /\ p_supportStruct' = [p_supportStruct EXCEPT ![p] = sup]
                 /\ p_s' = [p_s EXCEPT ![p] = "saved"]
                 /\ pcbFree' = pcbFree \ {p}
                 /\ ready_queue' = insertProcQ(p_prio', ready_queue, p)
            /\ next_pid' = next_pid + 1
            /\ process_counter' = process_counter + 1
            /\ UNCHANGED <<semVars, soft_block_counter, current_process, cpu, busy>>

Blocked(S) == {p \in S \ {current_process} : p_semAdd[p] # NULL}

\* Mutant: the victims on the pseudo-clock are forgotten.
DeviceVictims(S) == {p \in Blocked(S) : p_semAdd[p] \in Device}

\* Victims that the nucleus counts as soft-blocked.
SoftVictims(S) == {p \in Blocked(S) : p_semAdd[p] \in KernelSem}

\* Mutant: the V that corrects a semaphore is left out.
NoRefund(S, s) == {}

\* Victims for whom subTree_killer does (*sem)++.
Refund(S, s) ==
    IF s \in UserSem THEN {p \in Blocked(S) : p_semAdd[p] = s} ELSE {}

\* Mutant: subTree_killer does not look in the ready queue.
KeepReady(S) == ready_queue

\* outProcQ, which looks a PCB up by its pid, of the victims that are neither
\* running nor blocked.
OutReady(S) ==
    LET ready == S \ ({current_process} \cup Blocked(S))
    IN  Without(ready_queue, {q \in Pcb : \E p \in ready : p_pid[q] = p_pid[p]})

\* subTree_killer of the trees that make up S, except for the ready queue and
\* the current process, which the callers pass on to the scheduler.
subTree_killer(S) ==
    /\ p_parent' = [p \in Pcb |-> IF p \in S THEN NULL ELSE p_parent[p]]
    /\ p_prio' = [p \in Pcb |-> IF p \in S THEN 0 ELSE p_prio[p]]
    /\ p_pid' = [p \in Pcb |-> IF p \in S THEN NoPid ELSE p_pid[p]]
    /\ p_semAdd' = [p \in Pcb |-> IF p \in S THEN NULL ELSE p_semAdd[p]]
    /\ p_supportStruct' =
          [p \in Pcb |-> IF p \in S THEN NULL ELSE p_supportStruct[p]]
    /\ pcbFree' = pcbFree \cup S
    /\ semd_h' = [s \in Sem |-> Without(semd_h[s], Blocked(S))]
    /\ semval' = [s \in Sem |-> semval[s] + Cardinality(Refund(S, s))]
    /\ process_counter' = process_counter - Cardinality(S)
    /\ soft_block_counter' = soft_block_counter - Cardinality(SoftVictims(S))
    /\ UNCHANGED <<next_pid, busy>>

Cleared(S) == [p \in Pcb |-> IF p \in S THEN "zero" ELSE p_s[p]]

\* A caller that survives, because the target is another process or none, goes
\* to the ready queue with p_s as it was when it was last dispatched.
terminate_process(pid) ==
    /\ Running
    /\ LET target == IF pid = 0 THEN {current_process} ELSE findByPid(pid)
       IN  \E S \in {UNION {Subtree(p) : p \in target}} :
             /\ subTree_killer(S)
             /\ scheduler(Cleared(S),
                          IF current_process \in S
                          THEN OutReady(S)
                          ELSE insertProcQ(p_prio, OutReady(S), current_process))

\* insertBlocked needs a descriptor for a semaphore that has none.
NoDescriptor(s) ==
    /\ semd_h[s] = <<>>
    /\ Cardinality({t \in Sem : semd_h[t] # <<>>}) = MAXPROC

\* Mutant: the processor state is not copied to the PCB.
Forget == p_s

SaveState == [p_s EXCEPT ![current_process] = "saved"]

\* The blocking part of Passeren and block_sync: insertBlocked and scheduler.
BlockOn(s) ==
    IF NoDescriptor(s)
    THEN /\ cpu' = "panic"
         /\ p_s' = SaveState
         /\ UNCHANGED <<p_semAdd, semd_h, current_process, ready_queue>>
    ELSE /\ p_semAdd' = [p_semAdd EXCEPT ![current_process] = s]
         /\ semd_h' = [semd_h EXCEPT ![s] = Enqueue(@, current_process)]
         /\ scheduler(SaveState, ready_queue)

Passeren(s) ==
    /\ Running
    /\ semval' = [semval EXCEPT ![s] = @ - 1]
    /\ UNCHANGED <<pcbVars, counters, busy>>
    /\ IF semval[s] - 1 >= 0
       THEN UNCHANGED <<p_semAdd, semd_h, cpuVars>>
       ELSE BlockOn(s)

\* Mutant: a waiter is looked for only while the value is negative.
WakesBelowZero(v) == v < 0

\* The value after a V that makes the nucleus look for a waiter.
Wakes(v) == v <= 0

\* removeBlocked
RemoveBlocked(s) ==
    /\ semd_h' = [semd_h EXCEPT ![s] = Tail(@)]
    /\ p_semAdd' = [p_semAdd EXCEPT ![Head(semd_h[s])] = NULL]

Verhogen(s) ==
    /\ Running
    /\ semval[s] < MaxVal
    /\ semval' = [semval EXCEPT ![s] = @ + 1]
    /\ IF Wakes(semval[s] + 1) /\ semd_h[s] # <<>>
       THEN /\ RemoveBlocked(s)
            /\ ready_queue' = insertProcQ(p_prio, ready_queue, Head(semd_h[s]))
       ELSE UNCHANGED <<p_semAdd, semd_h, ready_queue>>
    /\ UNCHANGED <<pcbVars, counters, current_process, p_s, cpu, busy>>

block_sync(s) ==
    /\ semval' = [semval EXCEPT ![s] = @ - 1]
    /\ soft_block_counter' = soft_block_counter + (IF NoDescriptor(s) THEN 0 ELSE 1)
    /\ UNCHANGED <<pcbVars, process_counter>>
    /\ BlockOn(s)

\* Processes drive a device one at a time, under a mutex of their own.
DoIO(d) ==
    /\ Running
    /\ d \notin busy
    /\ busy' = busy \cup {d}
    /\ block_sync(d)

WaitForClock == Running /\ UNCHANGED busy /\ block_sync(PseudoClock)

GetSupportData == p_supportStruct[current_process]

\* What the call returns, to which only the root process has no parent.
GetProcessID(parent) ==
    IF parent = 0 THEN p_pid[current_process]
    ELSE IF p_parent[current_process] = NULL THEN 0
    ELSE p_pid[p_parent[current_process]]

Yield ==
    /\ Running
    /\ IF ready_queue = <<>>
       THEN scheduler(SaveState, insertProcQ(p_prio, <<>>, current_process))
       ELSE Dispatch(SaveState, Head(ready_queue),
                     insertProcQ(p_prio, Tail(ready_queue), current_process))
    /\ UNCHANGED <<pcbVars, semVars, counters, busy>>

\* A page fault, a trap, or a system call that is not the nucleus's.  With a
\* support structure the exception is passed up and the process goes on, in its
\* handler; what the support level does with it is no state of the nucleus.
passup_or_die ==
    /\ Running
    /\ IF p_supportStruct[current_process] # NULL
       THEN UNCHANGED vars
       ELSE \E S \in {Subtree(current_process)} :
              subTree_killer(S) /\ scheduler(Cleared(S), OutReady(S))

-----------------------------------------------------------------------------
(* interruptHandler *)

\* The end of the time slice.  WAIT masks this interrupt.
PLTInterrupt ==
    /\ Running
    /\ scheduler(SaveState, insertProcQ(p_prio, ready_queue, current_process))
    /\ UNCHANGED <<pcbVars, semVars, counters, busy>>

\* Back to the interrupted process if there is one, with rq as ready queue.
Return(rq) ==
    IF current_process # NULL
    THEN ready_queue' = rq /\ UNCHANGED <<current_process, p_s, cpu>>
    ELSE scheduler(p_s, rq)

\* Mutant: a tick wakes the first waiter only.
FirstWaiter == IF semd_h[PseudoClock] = <<>> THEN <<>> ELSE <<Head(semd_h[PseudoClock])>>

ClockWaiters == semd_h[PseudoClock]

unblock_pseudoclock ==
    /\ semd_h' = [semd_h EXCEPT ![PseudoClock] =
                     SubSeq(@, Len(ClockWaiters) + 1, Len(@))]
    /\ p_semAdd' = [p \in Pcb |->
                     IF p \in ToSet(ClockWaiters) THEN NULL ELSE p_semAdd[p]]
    /\ soft_block_counter' = soft_block_counter - Len(ClockWaiters)
    /\ semval' = [semval EXCEPT ![PseudoClock] = 0]

IntervalTimer ==
    /\ cpu \in {"run", "wait"}
    /\ unblock_pseudoclock
    /\ UNCHANGED <<pcbVars, process_counter, busy>>
    /\ Return(insertAll(p_prio, ready_queue, ClockWaiters))

\* Device d has completed its command.  Its process may have been killed in the
\* meantime: the V then only brings the semaphore back to 0.
DeviceInterrupt(d) ==
    /\ cpu \in {"run", "wait"}
    /\ d \in busy
    /\ busy' = busy \ {d}
    /\ semval' = [semval EXCEPT ![d] = @ + 1]
    /\ UNCHANGED <<pcbVars, process_counter>>
    /\ IF Wakes(semval[d] + 1) /\ semd_h[d] # <<>>
       THEN /\ RemoveBlocked(d)
            /\ soft_block_counter' = soft_block_counter - 1
            /\ Return(insertProcQ(p_prio, ready_queue, Head(semd_h[d])))
       ELSE /\ UNCHANGED <<p_semAdd, semd_h, soft_block_counter>>
            /\ Return(ready_queue)

-----------------------------------------------------------------------------
\* The state main leaves: the root process, pid 1, runs test().  The semaphores
\* of processes start with the values their owners give them.
Init ==
    /\ \E root \in Pcb :
         /\ pcbFree = Pcb \ {root}
         /\ p_pid = [p \in Pcb |-> IF p = root THEN 1 ELSE NoPid]
         /\ p_s = [p \in Pcb |-> IF p = root THEN "stale" ELSE "zero"]
         /\ current_process = root
    /\ p_parent = [p \in Pcb |-> NULL]
    /\ p_prio = [p \in Pcb |-> 0]
    /\ p_semAdd = [p \in Pcb |-> NULL]
    /\ p_supportStruct = [p \in Pcb |-> NULL]
    /\ next_pid = 2
    /\ semd_h = [s \in Sem |-> <<>>]
    /\ semval \in {v \in [Sem -> 0 .. MaxVal] : \A s \in KernelSem : v[s] = 0}
    /\ ready_queue = <<>>
    /\ process_counter = 1
    /\ soft_block_counter = 0
    /\ cpu = "run"
    /\ busy = {}

Next ==
    \/ \E prio \in Prio, sup \in Supports \cup {NULL} : create_process(prio, sup)
    \/ \E pid \in 0 .. MaxPid : terminate_process(pid)
    \/ \E s \in UserSem : Passeren(s) \/ Verhogen(s)
    \/ \E d \in Device : DoIO(d) \/ DeviceInterrupt(d)
    \/ WaitForClock
    \/ Yield
    \/ passup_or_die
    \/ PLTInterrupt
    \/ IntervalTimer

Spec == Init /\ [][Next]_vars

-----------------------------------------------------------------------------
(* Correctness *)

\* Every variable has its type.
TypeOK ==
    /\ p_parent \in [Pcb -> Pcb \cup {NULL}]
    /\ p_prio \in [Pcb -> Prio]
    /\ p_pid \in [Pcb -> {-1} \cup (1 .. MaxPid - 1)]
    /\ p_semAdd \in [Pcb -> Sem \cup {NULL}]
    /\ p_s \in [Pcb -> {"saved", "stale", "zero"}]
    /\ p_supportStruct \in [Pcb -> Supports \cup {NULL}]
    /\ pcbFree \in SUBSET Pcb
    /\ next_pid \in 2 .. MaxPid
    /\ semd_h \in [Sem -> Seq(Pcb)]
    /\ semval \in [Sem -> Int]
    /\ ready_queue \in Seq(Pcb)
    /\ process_counter \in Int
    /\ soft_block_counter \in Int
    /\ current_process \in Pcb \cup {NULL}
    /\ cpu \in {"run", "wait", "halt", "panic", "lost"}
    /\ busy \in SUBSET Device

\* A process that exists is in exactly one place: on the CPU, once in the ready
\* queue, or once in the queue of the one semaphore that p_semAdd names; a free
\* PCB is in none.  p_list has room for one list only: a PCB in two places is a
\* corrupt queue.
OnePlace ==
    /\ \A s \in Sem : ToSet(semd_h[s]) = {p \in Live : p_semAdd[p] = s}
    /\ \A p \in pcbFree : p_semAdd[p] = NULL
    /\ ToSet(ready_queue) =
          {p \in Live : p_semAdd[p] = NULL /\ p # current_process}
    /\ current_process # NULL =>
          current_process \in Live /\ p_semAdd[current_process] = NULL
    /\ IsInjective(ready_queue)
    /\ \A s \in Sem : IsInjective(semd_h[s])

\* The two counters that the scheduler trusts are exact between handlers: the
\* number of processes, and the number of those blocked on a kernel semaphore,
\* however processes came to be unblocked or killed.
CountersExact ==
    /\ process_counter = Cardinality(Live)
    /\ soft_block_counter = Cardinality({p \in Pcb : p_semAdd[p] \in KernelSem})

\* A negative user semaphore counts its waiters, a non-negative one has none,
\* also after the death of some of them.
UserSemaphores ==
    \A s \in UserSem : Len(semd_h[s]) = IF semval[s] < 0 THEN -semval[s] ELSE 0

\* The semaphore of a device is -1 while a command is in progress and 0
\* otherwise, also when the process that waited was killed: no completion is
\* missed by the process that waits for it, and none is left over to release
\* the next one too early.  The clock's value never hides a waiter.
KernelSemaphores ==
    /\ \A d \in Device :
          /\ semval[d] = IF d \in busy THEN -1 ELSE 0
          /\ Len(semd_h[d]) <= IF d \in busy THEN 1 ELSE 0
    /\ Len(semd_h[PseudoClock]) <= -semval[PseudoClock]

\* The processes form one tree, rooted in the first process, whose parents are
\* alive and older; pids are unique, so that a search by pid (findByPid,
\* outProcQ) finds the one process meant, and never a free PCB.
FamilyTree ==
    /\ \A p \in Live :
          /\ p_pid[p] \in 1 .. next_pid - 1
          /\ p_pid[p] = 1 <=> p_parent[p] = NULL
          /\ p_parent[p] # NULL =>
                p_parent[p] \in Live /\ p_pid[p_parent[p]] < p_pid[p]
    /\ \A p, q \in Live : p_pid[p] = p_pid[q] => p = q
    /\ \A p \in pcbFree : p_pid[p] = NoPid /\ p_parent[p] = NULL

\* The CPU stops for the reason the scheduler gives: it halts when nothing is
\* left, panics only on a deadlock (every process waits for a V that no process
\* is left to do), waits only while nothing can run and an interrupt will
\* release somebody.
CpuVerdict ==
    /\ cpu # "lost"
    /\ Running <=> current_process # NULL
    /\ ~Running => ready_queue = <<>>
    /\ cpu = "halt" <=> Live = {}
    /\ cpu = "panic" => \A p \in Live : p_semAdd[p] \in UserSem
    /\ cpu = "wait" =>
          \E p \in Live : p_semAdd[p] = PseudoClock \/ p_semAdd[p] \in busy

\* What a process blocked on a semaphore has in its PCB is the state in which
\* it made the blocking call, past the call: it is neither lost nor repeated.
BlockedSaved == \A p \in Pcb : p_semAdd[p] # NULL => p_s[p] = "saved"

\* So is what a process that can be dispatched has, as the comment on
\* terminate_process says of its caller ("altrimenti incrementa pc e riprende").
ReadySaved == \A p \in ToSet(ready_queue) : p_s[p] = "saved"

\* The caller of a TERMPROCESS outlives it.
Survives == \E pid \in 0 .. MaxPid :
    terminate_process(pid) /\ current_process \notin pcbFree'

\* The caller that outlives its TERMPROCESS is the only exception: a process in the
\* ready queue with another state than the one in which it lost the CPU is this
\* caller, or has been there with it already.
UnsavedSurvived ==
    [][\A p \in ToSet(ready_queue') :
         \/ p_s'[p] = "saved"
         \/ p \in ToSet(ready_queue) /\ p_s[p] # "saved"
         \/ p = current_process /\ Survives]_vars

\* In the ready queue a higher priority is ahead, and among equals nobody is
\* overtaken: neither by one that was behind nor by one that comes in.
TurnTaking ==
    [][\A p, q \in ToSet(ready_queue') :
         \/ p_prio'[p] > p_prio'[q]
         \/ /\ p # q /\ p_prio'[p] = p_prio'[q]
            /\ p \in ToSet(ready_queue)
            /\ q \in ToSet(ready_queue) => Before(ready_queue, p, q)
         => Before(ready_queue', p, q)]_vars

\* A process that takes over the CPU is outranked by no process that is left in
\* the ready queue, except by the one that has just given the CPU away.
HighestFirst ==
    [][current_process' \notin {NULL, current_process} =>
         \A q \in ToSet(ready_queue') :
            q = current_process \/ p_prio'[q] <= p_prio'[current_process']]_vars

\* The user semaphores are counting semaphores.
Abstract == INSTANCE Semaphores WITH
    Process <- Pcb,
    Semaphore <- UserSem,
    count <- [s \in UserSem |-> IF semval[s] > 0 THEN semval[s] ELSE 0],
    queue <- [s \in UserSem |-> semd_h[s]]

\* PASSEREN, VERHOGEN and the correction that subTree_killer makes implement
\* counting semaphores with first-come first-served queues.
AbstractSemaphores == Abstract!Spec

-----------------------------------------------------------------------------
(* Progress *)

\* A process that keeps the CPU loses it when its slice ends, whatever calls it
\* makes; the interval timer ticks; a device completes its commands.
Fairness ==
    /\ \A p \in Pcb : WF_vars(current_process = p /\ PLTInterrupt)
    /\ WF_vars(IntervalTimer)
    /\ \A d \in Device : WF_vars(DeviceInterrupt(d))

FairSpec == Spec /\ Fairness

Top(p) == \A prio \in Prio : p_prio[p] >= prio

\* A ready process of the highest priority runs, unless it is killed first.
ReadyRuns == \A p \in Pcb :
    (p \in ToSet(ready_queue) /\ Top(p)) ~> (p = current_process \/ p \in pcbFree)

\* A process that waits for the clock or for a device gets the CPU back if it
\* has the highest priority, and leaves the semaphore in any case.
SoftBlockedRuns == \A p \in Pcb :
    /\ (p_semAdd[p] \in KernelSem) ~> (p_semAdd[p] = NULL)
    /\ (p_semAdd[p] \in KernelSem /\ Top(p)) ~> (p = current_process \/ p \in pcbFree)
=============================================================================
