--------------------------- MODULE NucleusProofs ---------------------------
(***************************************************************************)
(* What holds of the nucleus for any number of PCBs, semaphores, devices   *)
(* and priorities.                                                         *)
(*                                                                         *)
(* Every variable has its type, every process is in exactly one place, and *)
(* the processes form one tree with unique pids.  The last two need each   *)
(* other.  outProcQ looks a victim up by its pid, so only unique pids make *)
(* it take the right one out of the ready queue; and the parent of a new   *)
(* process is alive because what runs is.                                  *)
(*                                                                         *)
(* The scheduler decides on true figures: its counters are exact, the      *)
(* ready queue is in order, the semaphores account for their waiters, a    *)
(* process that does not run has the state in which it lost the CPU unless *)
(* it has outlived a TERMPROCESS of its own, and the CPU stops only for    *)
(* the reason given.  The counters are updated by what each handler        *)
(* believes to have done: one process more or less, the number of victims, *)
(* the length of the clock's queue.  That this is what it has done follows *)
(* from OnePlace.  It makes also the length of a queue the number of       *)
(* processes whose p_semAdd names it, so that the corrections of           *)
(* subTree_killer are right, and leaves insertBlocked a descriptor; then   *)
(* the semaphores are exact; and these with the counters make the verdict  *)
(* of the scheduler true.  Exact semaphores are also what it takes to      *)
(* implement Semaphores.                                                   *)
(***************************************************************************)
EXTENDS Nucleus, QueueTheorems

StateWorth == {"saved", "stale", "zero"}

\* TypeOK is inductive once the running process is known to exist.
TypeInv == TypeOK /\ (Running => current_process # NULL)

-----------------------------------------------------------------------------
(* Types: the operators that several actions share *)

\* What the scheduler leaves is of its type.
LEMMA SchedulerType ==
  ASSUME NEW ps \in [Pcb -> StateWorth], NEW rq \in Seq(Pcb), scheduler(ps, rq)
  PROVE  /\ current_process' \in Pcb \cup {NULL}
         /\ ready_queue' \in Seq(Pcb)
         /\ p_s' \in [Pcb -> StateWorth]
         /\ cpu' \in {"run", "wait", "halt", "panic", "lost"}
         /\ cpu' = "run" => current_process' # NULL
<1>1. CASE rq # <<>> /\ Dispatch(ps, Head(rq), Tail(rq))
  <2>1. Head(rq) \in Pcb /\ Tail(rq) \in Seq(Pcb)
    BY <1>1, HeadTailFacts
  <2>2. QED  BY <1>1, <2>1, PcbAssumption DEF Dispatch, StateWorth
<1>2. CASE rq = <<>> /\ current_process' = NULL /\ ready_queue' = <<>> /\ p_s' = ps
           /\ cpu' = Verdict(process_counter', soft_block_counter')
  <2>1. Verdict(process_counter', soft_block_counter') \in
           {"wait", "halt", "panic", "lost"}
    BY DEF Verdict
  <2>2. QED  BY <1>2, <2>1
<1>3. QED  BY <1>1, <1>2 DEF scheduler

\* A subtree consists of PCBs.
LEMMA SubtreeType == ASSUME NEW p PROVE Subtree(p) \in SUBSET Pcb
BY DEF Subtree

\* Any set of PCBs is finite, and so is its size.
LEMMA PcbFinite ==
  ASSUME NEW S \in SUBSET Pcb
  PROVE  IsFiniteSet(S) /\ Cardinality(S) \in Nat
BY PcbAssumption, FS_Subset, FS_CardinalityType

\* The victims of subTree_killer are PCBs.
LEMMA VictimsType ==
  ASSUME NEW S \in SUBSET Pcb
  PROVE  /\ Blocked(S) \in SUBSET S
         /\ SoftVictims(S) \in SUBSET S
         /\ \A s \in Sem : Refund(S, s) \in SUBSET S
BY DEF Blocked, SoftVictims, Refund

\* subTree_killer and what it passes to the scheduler are of their types.
LEMMA KillerType ==
  ASSUME TypeInv, NEW S \in SUBSET Pcb, subTree_killer(S)
  PROVE  /\ p_parent' \in [Pcb -> Pcb \cup {NULL}]
         /\ p_prio' \in [Pcb -> Prio]
         /\ p_pid' \in [Pcb -> {-1} \cup (1 .. MaxPid - 1)]
         /\ p_semAdd' \in [Pcb -> Sem \cup {NULL}]
         /\ p_supportStruct' \in [Pcb -> Supports \cup {NULL}]
         /\ pcbFree' \in SUBSET Pcb
         /\ next_pid' \in 2 .. MaxPid
         /\ semd_h' \in [Sem -> Seq(Pcb)]
         /\ semval' \in [Sem -> Int]
         /\ process_counter' \in Int
         /\ soft_block_counter' \in Int
         /\ busy' \in SUBSET Device
         /\ Cleared(S) \in [Pcb -> StateWorth]
         /\ OutReady(S) \in Seq(Pcb)
<1>1. Cardinality(S) \in Nat /\ Cardinality(SoftVictims(S)) \in Nat
  BY VictimsType, PcbFinite
<1>2. \A s \in Sem : Cardinality(Refund(S, s)) \in Nat
  BY VictimsType, PcbFinite
<1>3. \A s \in Sem : Without(semd_h[s], Blocked(S)) \in Seq(Pcb)
  BY WithoutFacts DEF TypeInv, TypeOK
<1>4. OutReady(S) \in Seq(Pcb)
  BY WithoutFacts DEF OutReady, TypeInv, TypeOK
<1>5. semd_h' \in [Sem -> Seq(Pcb)]
  BY <1>3 DEF subTree_killer
<1>6. semval' \in [Sem -> Int]
  <2>1. \A s \in Sem : semval[s] + Cardinality(Refund(S, s)) \in Int
    BY <1>2 DEF TypeInv, TypeOK
  <2>2. QED  BY <2>1 DEF subTree_killer
<1>7. process_counter' \in Int /\ soft_block_counter' \in Int
  BY <1>1 DEF subTree_killer, TypeInv, TypeOK
<1>8. Cleared(S) \in [Pcb -> StateWorth]
  BY DEF Cleared, StateWorth, TypeInv, TypeOK
<1>9. p_pid' \in [Pcb -> {-1} \cup (1 .. MaxPid - 1)]
  BY DEF subTree_killer, NoPid, TypeInv, TypeOK
<1>10. p_prio' \in [Pcb -> Prio]
  BY NumberAssumption DEF subTree_killer, TypeInv, TypeOK
<1>11. QED
  BY <1>4, <1>5, <1>6, <1>7, <1>8, <1>9, <1>10 DEF subTree_killer, TypeInv, TypeOK

\* BlockOn keeps the types of what it changes.
LEMMA BlockOnType ==
  ASSUME TypeInv, Running, NEW s \in Sem, BlockOn(s)
  PROVE  /\ p_semAdd' \in [Pcb -> Sem \cup {NULL}]
         /\ semd_h' \in [Sem -> Seq(Pcb)]
         /\ current_process' \in Pcb \cup {NULL}
         /\ ready_queue' \in Seq(Pcb)
         /\ p_s' \in [Pcb -> StateWorth]
         /\ cpu' \in {"run", "wait", "halt", "panic", "lost"}
         /\ cpu' = "run" => current_process' # NULL
<1>1. current_process \in Pcb /\ SaveState \in [Pcb -> StateWorth]
  BY DEF TypeInv, TypeOK, SaveState, StateWorth
<1>2. CASE NoDescriptor(s)
  BY <1>1, <1>2 DEF BlockOn, TypeInv, TypeOK, StateWorth
<1>3. CASE ~NoDescriptor(s)
  <2>1. /\ p_semAdd' = [p_semAdd EXCEPT ![current_process] = s]
        /\ semd_h' = [semd_h EXCEPT ![s] = Enqueue(semd_h[s], current_process)]
        /\ scheduler(SaveState, ready_queue)
    BY <1>3 DEF BlockOn
  <2>2. Enqueue(semd_h[s], current_process) \in Seq(Pcb)
    BY <1>1, AppendFacts DEF Enqueue, TypeInv, TypeOK
  <2>3. semd_h' \in [Sem -> Seq(Pcb)] /\ p_semAdd' \in [Pcb -> Sem \cup {NULL}]
    BY <2>1, <2>2 DEF TypeInv, TypeOK
  <2>4. ready_queue \in Seq(Pcb)
    BY DEF TypeInv, TypeOK
  <2>5. QED  BY <1>1, <2>1, <2>3, <2>4, SchedulerType
<1>4. QED  BY <1>2, <1>3

\* So does Return.
LEMMA ReturnType ==
  ASSUME TypeInv, NEW rq \in Seq(Pcb), Return(rq)
  PROVE  /\ current_process' \in Pcb \cup {NULL}
         /\ ready_queue' \in Seq(Pcb)
         /\ p_s' \in [Pcb -> StateWorth]
         /\ cpu' \in {"run", "wait", "halt", "panic", "lost"}
         /\ cpu' = "run" => current_process' # NULL
<1>1. p_s \in [Pcb -> StateWorth]
  BY DEF TypeInv, TypeOK, StateWorth
<1>2. CASE current_process # NULL
  BY <1>2, <1>1 DEF Return, TypeInv, TypeOK
<1>3. CASE current_process = NULL
  BY <1>3, <1>1, SchedulerType DEF Return
<1>4. QED  BY <1>2, <1>3

\* removeBlocked keeps the types of what it changes, and returns a PCB.
LEMMA RemoveBlockedType ==
  ASSUME TypeInv, NEW s \in Sem, semd_h[s] # <<>>, RemoveBlocked(s)
  PROVE  /\ semd_h' \in [Sem -> Seq(Pcb)]
         /\ p_semAdd' \in [Pcb -> Sem \cup {NULL}]
         /\ Head(semd_h[s]) \in Pcb
<1>1. Head(semd_h[s]) \in Pcb /\ Tail(semd_h[s]) \in Seq(Pcb)
  BY HeadTailFacts DEF TypeInv, TypeOK
<1>2. QED  BY <1>1 DEF RemoveBlocked, TypeInv, TypeOK

-----------------------------------------------------------------------------
(* Types: the actions *)

\* The state that main leaves is of its type.
LEMMA InitType == Init => TypeInv
<1> SUFFICES ASSUME Init PROVE TypeInv  OBVIOUS
<1>1. PICK root \in Pcb :
         /\ pcbFree = Pcb \ {root}
         /\ p_pid = [p \in Pcb |-> IF p = root THEN 1 ELSE NoPid]
         /\ p_s = [p \in Pcb |-> IF p = root THEN "stale" ELSE "zero"]
         /\ current_process = root
  BY DEF Init
<1>2. root # NULL
  BY PcbAssumption
<1>3. semval \in [Sem -> Int]
  BY NumberAssumption DEF Init
<1>4. p_pid \in [Pcb -> {-1} \cup (1 .. MaxPid - 1)] /\ next_pid \in 2 .. MaxPid
  BY <1>1, NumberAssumption DEF Init, NoPid
<1>5. p_prio \in [Pcb -> Prio]
  BY NumberAssumption DEF Init
<1>6. QED  BY <1>1, <1>2, <1>3, <1>4, <1>5 DEF Init, TypeInv, TypeOK

\* create_process keeps the types.
LEMMA CreateType ==
  ASSUME TypeInv, NEW prio \in Prio, NEW sup \in Supports \cup {NULL},
         create_process(prio, sup)
  PROVE  TypeInv'
<1>1. CASE pcbFree = {}
  BY <1>1 DEF create_process, TypeInv, TypeOK, Running, vars, pcbVars, semVars, cpuVars, counters
<1>2. CASE pcbFree # {}
  <2>1. PICK p \in pcbFree :
                 /\ p_parent' = [p_parent EXCEPT ![p] = current_process]
                 /\ p_prio' = [p_prio EXCEPT ![p] = prio]
                 /\ p_pid' = [p_pid EXCEPT ![p] = next_pid]
                 /\ p_supportStruct' = [p_supportStruct EXCEPT ![p] = sup]
                 /\ p_s' = [p_s EXCEPT ![p] = "saved"]
                 /\ pcbFree' = pcbFree \ {p}
                 /\ ready_queue' = insertProcQ(p_prio', ready_queue, p)
    BY <1>2 DEF create_process
  <2>2. p \in Pcb
    BY DEF TypeInv, TypeOK
  <2>3. ready_queue' \in Seq(Pcb)
    <3>1. ready_queue \in Seq(Pcb)
      BY DEF TypeInv, TypeOK
    <3>2. insertProcQ(p_prio', ready_queue, p) \in Seq(Pcb)
      BY <2>2, <3>1, insertProcQFacts
    <3>3. QED  BY <2>1, <3>2
  <2>4. next_pid \in 1 .. MaxPid - 1 /\ next_pid' \in 2 .. MaxPid
    BY <1>2, NumberAssumption DEF create_process, TypeInv, TypeOK
  <2>5. process_counter' \in Int
    BY <1>2 DEF create_process, TypeInv, TypeOK
  <2>6. /\ UNCHANGED <<semVars, soft_block_counter, current_process, cpu, busy>>
    BY <1>2 DEF create_process
  <2>7. QED
    BY <2>1, <2>2, <2>3, <2>4, <2>5, <2>6 DEF semVars, Running, TypeInv, TypeOK
<1>3. QED  BY <1>1, <1>2

\* terminate_process keeps the types, with and without a target and whether or
\* not the caller survives.
LEMMA TerminateType ==
  ASSUME TypeInv, NEW pid, terminate_process(pid)
  PROVE  TypeInv'
<1> DEFINE target == IF pid = 0 THEN {current_process} ELSE findByPid(pid)
           S == UNION {Subtree(p) : p \in target}
           rq == IF current_process \in S THEN OutReady(S)
                 ELSE insertProcQ(p_prio, OutReady(S), current_process)
<1>1. /\ subTree_killer(S) /\ scheduler(Cleared(S), rq)
      /\ current_process \in Pcb
  BY DEF terminate_process, TypeInv, TypeOK
<1>2. S \in SUBSET Pcb
  BY SubtreeType
<1> HIDE DEF S
<1>3. OutReady(S) \in Seq(Pcb) /\ Cleared(S) \in [Pcb -> StateWorth]
  BY <1>1, <1>2, KillerType
<1>4. rq \in Seq(Pcb)
  BY <1>1, <1>3, insertProcQFacts
<1> HIDE DEF rq
<1>5. /\ current_process' \in Pcb \cup {NULL}
      /\ ready_queue' \in Seq(Pcb)
      /\ p_s' \in [Pcb -> StateWorth]
      /\ cpu' \in {"run", "wait", "halt", "panic", "lost"}
      /\ cpu' = "run" => current_process' # NULL
  BY <1>1, <1>3, <1>4, SchedulerType
<1>6. QED
  BY <1>1, <1>2, <1>5, KillerType DEF TypeInv, TypeOK, StateWorth, Running

\* passup_or_die keeps the types.
LEMMA PassUpType ==
  ASSUME TypeInv, passup_or_die
  PROVE  TypeInv'
<1>1. CASE p_supportStruct[current_process] # NULL
  BY <1>1 DEF passup_or_die, TypeInv, TypeOK, Running, vars, pcbVars, semVars, cpuVars, counters
<1>2. CASE p_supportStruct[current_process] = NULL
  <2> DEFINE S == Subtree(current_process)
  <2>1. subTree_killer(S) /\ scheduler(Cleared(S), OutReady(S))
    BY <1>2 DEF passup_or_die
  <2>2. S \in SUBSET Pcb
    BY SubtreeType
  <2> HIDE DEF S
  <2>3. OutReady(S) \in Seq(Pcb) /\ Cleared(S) \in [Pcb -> StateWorth]
    BY <2>1, <2>2, KillerType
  <2>4. /\ current_process' \in Pcb \cup {NULL}
        /\ ready_queue' \in Seq(Pcb)
        /\ p_s' \in [Pcb -> StateWorth]
        /\ cpu' \in {"run", "wait", "halt", "panic", "lost"}
        /\ cpu' = "run" => current_process' # NULL
    BY <2>1, <2>3, SchedulerType
  <2>5. QED
    BY <2>1, <2>2, <2>4, KillerType DEF TypeInv, TypeOK, StateWorth, Running
<1>3. QED  BY <1>1, <1>2

\* Passeren keeps the types: it blocks the caller or lets it go on.
LEMMA PasserenType ==
  ASSUME TypeInv, NEW s \in UserSem, Passeren(s)
  PROVE  TypeInv'
<1>1. s \in Sem /\ semval' \in [Sem -> Int]
  BY DEF Passeren, TypeInv, TypeOK, Sem
<1>2. UNCHANGED <<pcbVars, counters, busy>>
  BY DEF Passeren
<1>3. CASE semval[s] - 1 >= 0
  BY <1>1, <1>2, <1>3 DEF Passeren, TypeInv, TypeOK, Running, pcbVars, cpuVars, counters
<1>4. CASE ~(semval[s] - 1 >= 0)
  <2>1. BlockOn(s) /\ Running
    BY <1>4 DEF Passeren
  <2>2. QED
    BY <1>1, <1>2, <2>1, BlockOnType
       DEF TypeInv, TypeOK, Running, StateWorth, pcbVars, counters
<1>5. QED  BY <1>3, <1>4

\* Verhogen keeps the types: whom it wakes is a PCB.
LEMMA VerhogenType ==
  ASSUME TypeInv, NEW s \in UserSem, Verhogen(s)
  PROVE  TypeInv'
<1>1. s \in Sem /\ semval' \in [Sem -> Int]
  BY DEF Verhogen, TypeInv, TypeOK, Sem
<1>2. UNCHANGED <<pcbVars, counters, current_process, p_s, cpu, busy>>
  BY DEF Verhogen
<1>3. CASE Wakes(semval[s] + 1) /\ semd_h[s] # <<>>
  <2>1. /\ RemoveBlocked(s)
        /\ ready_queue' = insertProcQ(p_prio, ready_queue, Head(semd_h[s]))
    BY <1>3 DEF Verhogen
  <2>2. /\ semd_h' \in [Sem -> Seq(Pcb)]
        /\ p_semAdd' \in [Pcb -> Sem \cup {NULL}]
        /\ Head(semd_h[s]) \in Pcb
    BY <1>1, <1>3, <2>1, RemoveBlockedType
  <2>3. ready_queue' \in Seq(Pcb)
    BY <2>1, <2>2, insertProcQFacts DEF TypeInv, TypeOK
  <2>4. QED
    BY <1>1, <1>2, <2>2, <2>3 DEF TypeInv, TypeOK, Running, pcbVars, counters
<1>4. CASE ~(Wakes(semval[s] + 1) /\ semd_h[s] # <<>>)
  <2>1. UNCHANGED <<p_semAdd, semd_h, ready_queue>>
    BY <1>4 DEF Verhogen
  <2>2. QED
    BY <1>1, <1>2, <2>1 DEF TypeInv, TypeOK, Running, pcbVars, counters
<1>5. QED  BY <1>3, <1>4

\* block_sync, the common end of DoIO and WaitForClock, keeps the types.
LEMMA BlockSyncType ==
  ASSUME TypeInv, Running, NEW s \in KernelSem, block_sync(s), busy' \in SUBSET Device
  PROVE  TypeInv'
<1>1. s \in Sem /\ semval' \in [Sem -> Int] /\ soft_block_counter' \in Int
  BY DEF block_sync, TypeInv, TypeOK, Sem
<1>2. UNCHANGED <<pcbVars, process_counter>> /\ BlockOn(s)
  BY DEF block_sync
<1>3. QED
  BY <1>1, <1>2, BlockOnType DEF TypeInv, TypeOK, Running, StateWorth, pcbVars

\* Yield keeps the types.
LEMMA YieldType ==
  ASSUME TypeInv, Yield
  PROVE  TypeInv'
<1>1. /\ current_process \in Pcb /\ SaveState \in [Pcb -> StateWorth]
      /\ ready_queue \in Seq(Pcb)
  BY DEF Yield, TypeInv, TypeOK, SaveState, StateWorth
<1>2. UNCHANGED <<pcbVars, semVars, counters, busy>>
  BY DEF Yield
<1>3. /\ current_process' \in Pcb \cup {NULL}
      /\ ready_queue' \in Seq(Pcb)
      /\ p_s' \in [Pcb -> StateWorth]
      /\ cpu' \in {"run", "wait", "halt", "panic", "lost"}
      /\ cpu' = "run" => current_process' # NULL
  <2>1. CASE ready_queue = <<>>
    <3>1. insertProcQ(p_prio, <<>>, current_process) \in Seq(Pcb)
      BY <1>1, <2>1, insertProcQFacts
    <3>2. scheduler(SaveState, insertProcQ(p_prio, <<>>, current_process))
      BY <2>1 DEF Yield
    <3>3. QED  BY <1>1, <3>1, <3>2, SchedulerType
  <2>2. CASE ready_queue # <<>>
    <3>1. Head(ready_queue) \in Pcb /\ Tail(ready_queue) \in Seq(Pcb)
      BY <1>1, <2>2, HeadTailFacts
    <3>2. insertProcQ(p_prio, Tail(ready_queue), current_process) \in Seq(Pcb)
      BY <1>1, <3>1, insertProcQFacts
    <3>3. Dispatch(SaveState, Head(ready_queue),
                   insertProcQ(p_prio, Tail(ready_queue), current_process))
      BY <2>2 DEF Yield
    <3>4. QED  BY <1>1, <3>1, <3>2, <3>3, PcbAssumption DEF Dispatch, StateWorth
  <2>3. QED  BY <2>1, <2>2
<1>4. QED
  BY <1>2, <1>3 DEF TypeInv, TypeOK, Running, StateWorth, pcbVars, semVars, counters

\* The end of a time slice keeps the types.
LEMMA PLTType ==
  ASSUME TypeInv, PLTInterrupt
  PROVE  TypeInv'
<1>1. /\ current_process \in Pcb /\ SaveState \in [Pcb -> StateWorth]
      /\ ready_queue \in Seq(Pcb)
  BY DEF PLTInterrupt, TypeInv, TypeOK, SaveState, StateWorth
<1>2. /\ UNCHANGED <<pcbVars, semVars, counters, busy>>
      /\ scheduler(SaveState, insertProcQ(p_prio, ready_queue, current_process))
  BY DEF PLTInterrupt
<1>3. insertProcQ(p_prio, ready_queue, current_process) \in Seq(Pcb)
  BY <1>1, insertProcQFacts
<1>4. /\ current_process' \in Pcb \cup {NULL}
      /\ ready_queue' \in Seq(Pcb)
      /\ p_s' \in [Pcb -> StateWorth]
      /\ cpu' \in {"run", "wait", "halt", "panic", "lost"}
      /\ cpu' = "run" => current_process' # NULL
  BY <1>1, <1>2, <1>3, SchedulerType
<1>5. QED
  BY <1>2, <1>4 DEF TypeInv, TypeOK, Running, StateWorth, pcbVars, semVars, counters

\* A tick of the interval timer keeps the types: whom it wakes are PCBs.
LEMMA IntervalTimerType ==
  ASSUME TypeInv, IntervalTimer
  PROVE  TypeInv'
<1> DEFINE w == semd_h[PseudoClock]
<1>1. PseudoClock \in Sem /\ w \in Seq(Pcb) /\ Len(w) \in Nat
  BY DEF Sem, KernelSem, TypeInv, TypeOK
<1>2. SubSeq(w, Len(w) + 1, Len(w)) \in Seq(Pcb)
  BY <1>1
<1>3. /\ semd_h' \in [Sem -> Seq(Pcb)]
      /\ p_semAdd' \in [Pcb -> Sem \cup {NULL}]
      /\ soft_block_counter' \in Int
      /\ semval' \in [Sem -> Int]
  BY <1>1, <1>2
     DEF IntervalTimer, unblock_pseudoclock, ClockWaiters, TypeInv, TypeOK
<1>4. insertAll(p_prio, ready_queue, ClockWaiters) \in Seq(Pcb)
  BY <1>1, insertAllFacts DEF ClockWaiters, TypeInv, TypeOK
<1>5. /\ current_process' \in Pcb \cup {NULL}
      /\ ready_queue' \in Seq(Pcb)
      /\ p_s' \in [Pcb -> StateWorth]
      /\ cpu' \in {"run", "wait", "halt", "panic", "lost"}
      /\ cpu' = "run" => current_process' # NULL
  BY <1>4, ReturnType DEF IntervalTimer
<1>6. UNCHANGED <<pcbVars, process_counter, busy>>
  BY DEF IntervalTimer
<1>7. QED
  BY <1>3, <1>5, <1>6 DEF TypeInv, TypeOK, Running, StateWorth, pcbVars

\* A device interrupt keeps the types.
LEMMA DeviceType ==
  ASSUME TypeInv, NEW d \in Device, DeviceInterrupt(d)
  PROVE  TypeInv'
<1>1. /\ d \in Sem /\ semval' \in [Sem -> Int] /\ busy' \in SUBSET Device
      /\ ready_queue \in Seq(Pcb)
  BY DEF DeviceInterrupt, TypeInv, TypeOK, Sem, KernelSem
<1>2. UNCHANGED <<pcbVars, process_counter>>
  BY DEF DeviceInterrupt
<1>3. \E rq \in Seq(Pcb) : Return(rq)
      /\ semd_h' \in [Sem -> Seq(Pcb)]
      /\ p_semAdd' \in [Pcb -> Sem \cup {NULL}]
      /\ soft_block_counter' \in Int
  <2>1. CASE Wakes(semval[d] + 1) /\ semd_h[d] # <<>>
    <3>1. /\ RemoveBlocked(d)
          /\ soft_block_counter' = soft_block_counter - 1
          /\ Return(insertProcQ(p_prio, ready_queue, Head(semd_h[d])))
      BY <2>1 DEF DeviceInterrupt
    <3>2. /\ semd_h' \in [Sem -> Seq(Pcb)]
          /\ p_semAdd' \in [Pcb -> Sem \cup {NULL}]
          /\ Head(semd_h[d]) \in Pcb
      BY <1>1, <2>1, <3>1, RemoveBlockedType
    <3>3. insertProcQ(p_prio, ready_queue, Head(semd_h[d])) \in Seq(Pcb)
      BY <1>1, <3>2, insertProcQFacts
    <3>4. soft_block_counter' \in Int
      BY <3>1 DEF TypeInv, TypeOK
    <3>5. QED  BY <3>1, <3>2, <3>3, <3>4
  <2>2. CASE ~(Wakes(semval[d] + 1) /\ semd_h[d] # <<>>)
    <3>1. UNCHANGED <<p_semAdd, semd_h, soft_block_counter>> /\ Return(ready_queue)
      BY <2>2 DEF DeviceInterrupt
    <3>2. QED  BY <1>1, <3>1 DEF TypeInv, TypeOK
  <2>3. QED  BY <2>1, <2>2
<1>4. /\ current_process' \in Pcb \cup {NULL}
      /\ ready_queue' \in Seq(Pcb)
      /\ p_s' \in [Pcb -> StateWorth]
      /\ cpu' \in {"run", "wait", "halt", "panic", "lost"}
      /\ cpu' = "run" => current_process' # NULL
  BY <1>3, ReturnType
<1>5. QED
  BY <1>1, <1>2, <1>3, <1>4 DEF TypeInv, TypeOK, Running, StateWorth, pcbVars

\* Every step keeps every variable in its type.
LEMMA NextType == TypeInv /\ [Next]_vars => TypeInv'
<1> SUFFICES ASSUME TypeInv, [Next]_vars PROVE TypeInv'  OBVIOUS
<1>1. ASSUME NEW prio \in Prio, NEW sup \in Supports \cup {NULL}, create_process(prio, sup)
      PROVE  TypeInv'
  BY <1>1, CreateType
<1>2. ASSUME NEW pid \in 0 .. MaxPid, terminate_process(pid) PROVE TypeInv'
  BY <1>2, TerminateType
<1>3. ASSUME NEW s \in UserSem, Passeren(s) \/ Verhogen(s) PROVE TypeInv'
  BY <1>3, PasserenType, VerhogenType
<1>4. ASSUME NEW d \in Device, DoIO(d) PROVE TypeInv'
  <2>1. /\ Running /\ block_sync(d) /\ d \in KernelSem
        /\ busy' \in SUBSET Device
    BY <1>4 DEF DoIO, KernelSem, TypeInv, TypeOK
  <2>2. QED  BY <2>1, BlockSyncType
<1>5. ASSUME NEW d \in Device, DeviceInterrupt(d) PROVE TypeInv'
  BY <1>5, DeviceType
<1>6. CASE WaitForClock
  <2>1. /\ Running /\ block_sync(PseudoClock) /\ PseudoClock \in KernelSem
        /\ busy' \in SUBSET Device
    BY <1>6 DEF WaitForClock, KernelSem, TypeInv, TypeOK
  <2>2. QED  BY <2>1, BlockSyncType
<1>7. CASE Yield \/ passup_or_die \/ PLTInterrupt \/ IntervalTimer
  BY <1>7, YieldType, PassUpType, PLTType, IntervalTimerType
<1>8. CASE UNCHANGED vars
  BY <1>8 DEF TypeInv, TypeOK, Running, vars, pcbVars, semVars, cpuVars, counters
<1>9. QED
  BY <1>1, <1>2, <1>3, <1>4, <1>5, <1>6, <1>7, <1>8 DEF Next

\* Every variable of the nucleus always has its type: in particular, nothing
\* but PCBs is ever queued or dispatched.
THEOREM TypeCorrect == Spec => []TypeOK
<1>1. TypeInv => TypeOK
  BY DEF TypeInv
<1>2. QED  BY InitType, NextType, <1>1, PTL DEF Spec

-----------------------------------------------------------------------------
(* Places *)

\* OnePlace, for the free PCBs, the field p_semAdd, the queues of the
\* semaphores and the ready queue as they are in the middle of a handler, when
\* the processes of out are in no queue.
Placed(free, semAdd, qs, rq, out) ==
    /\ \A s \in Sem : ToSet(qs[s]) = {p \in Pcb \ free : semAdd[p] = s}
    /\ \A p \in free : semAdd[p] = NULL
    /\ ToSet(rq) = {p \in Pcb \ free : semAdd[p] = NULL} \ out
    /\ out \subseteq {p \in Pcb \ free : semAdd[p] = NULL}
    /\ IsInjective(rq)
    /\ \A s \in Sem : IsInjective(qs[s])

OnCpu == {current_process} \ {NULL}

\* Placed in a state of the nucleus.
PlacedNow == Placed(pcbFree, p_semAdd, semd_h, ready_queue, OnCpu)

\* Between handlers Placed is OnePlace.
LEMMA PlacedIsOnePlace ==
  ASSUME TypeInv PROVE OnePlace <=> PlacedNow
<1>1. pcbFree \in SUBSET Pcb /\ current_process \in Pcb \cup {NULL} /\ NULL \notin Pcb
  BY PcbAssumption DEF TypeInv, TypeOK
<1>2. CASE current_process = NULL
  BY <1>1, <1>2 DEF OnePlace, PlacedNow, Placed, OnCpu, Live
<1>3. CASE current_process # NULL
  BY <1>1, <1>3 DEF OnePlace, PlacedNow, Placed, OnCpu, Live
<1>4. QED  BY <1>2, <1>3

-----------------------------------------------------------------------------
(* Places: what the list operations do to them *)

\* An empty queue has no elements.
LEMMA EmptyFacts == ToSet(<<>>) = {} /\ IsInjective(<<>>)
BY DEF ToSet, IsInjective

\* The scheduler takes the head of the ready queue, if there is one.
LEMMA SchedulerPlaces ==
  ASSUME NEW ps, NEW rq \in Seq(Pcb), scheduler(ps, rq),
         Placed(pcbFree', p_semAdd', semd_h', rq, {})
  PROVE  PlacedNow'
<1>1. CASE rq # <<>> /\ Dispatch(ps, Head(rq), Tail(rq))
  <2>1. /\ Head(rq) \in Pcb /\ Head(rq) \in ToSet(rq)
        /\ ToSet(rq) = ToSet(Tail(rq)) \cup {Head(rq)}
        /\ IsInjective(rq) => IsInjective(Tail(rq)) /\ Head(rq) \notin ToSet(Tail(rq))
    BY <1>1, HeadTailFacts
  <2>2. /\ OnCpu' = {Head(rq)} /\ ready_queue' = Tail(rq)
    BY <1>1, <2>1, PcbAssumption DEF Dispatch, OnCpu
  <2>3. QED  BY <2>1, <2>2 DEF PlacedNow, Placed
<1>2. CASE rq = <<>> /\ current_process' = NULL /\ ready_queue' = <<>>
  BY <1>2 DEF OnCpu, PlacedNow, Placed
<1>3. QED  BY <1>1, <1>2 DEF scheduler

\* A process that loses the CPU goes to the ready queue.
LEMMA ReadyPlaces ==
  ASSUME NEW free, NEW semAdd, NEW qs, NEW rq \in Seq(Pcb), NEW prio,
         NEW p \in Pcb, NEW out, p \in out,
         Placed(free, semAdd, qs, rq, out)
  PROVE  /\ insertProcQ(prio, rq, p) \in Seq(Pcb)
         /\ Placed(free, semAdd, qs, insertProcQ(prio, rq, p), out \ {p})
<1>1. /\ insertProcQ(prio, rq, p) \in Seq(Pcb)
      /\ ToSet(insertProcQ(prio, rq, p)) = ToSet(rq) \cup {p}
      /\ IsInjective(rq) /\ p \notin ToSet(rq) => IsInjective(insertProcQ(prio, rq, p))
  BY insertProcQFacts
<1>2. QED  BY <1>1 DEF Placed

\* A free PCB that is allocated goes to the ready queue.
LEMMA AllocPlaces ==
  ASSUME NEW free \in SUBSET Pcb, NEW semAdd, NEW qs, NEW rq \in Seq(Pcb), NEW prio,
         NEW p \in free, NEW out,
         Placed(free, semAdd, qs, rq, out)
  PROVE  Placed(free \ {p}, semAdd, qs, insertProcQ(prio, rq, p), out)
<1>1. /\ insertProcQ(prio, rq, p) \in Seq(Pcb)
      /\ ToSet(insertProcQ(prio, rq, p)) = ToSet(rq) \cup {p}
      /\ IsInjective(rq) /\ p \notin ToSet(rq) => IsInjective(insertProcQ(prio, rq, p))
  BY insertProcQFacts
<1>2. p \notin ToSet(rq)
  BY DEF Placed
<1>3. \A s \in Sem : {x \in Pcb \ (free \ {p}) : semAdd[x] = s}
                        = {x \in Pcb \ free : semAdd[x] = s}
  BY SemAssumption DEF Placed
<1>4. {x \in Pcb \ (free \ {p}) : semAdd[x] = NULL}
         = {x \in Pcb \ free : semAdd[x] = NULL} \cup {p}
  BY DEF Placed
<1>5. p \notin out
  BY DEF Placed
<1>6. QED  BY <1>1, <1>2, <1>3, <1>4, <1>5 DEF Placed

\* A process that blocks goes to the end of the queue of its semaphore.
LEMMA BlockPlaces ==
  ASSUME NEW free \in SUBSET Pcb, NEW semAdd \in [Pcb -> Sem \cup {NULL}],
         NEW qs \in [Sem -> Seq(Pcb)], NEW rq,
         NEW p \in Pcb, NEW s \in Sem,
         Placed(free, semAdd, qs, rq, {p})
  PROVE  Placed(free, [semAdd EXCEPT ![p] = s],
                [qs EXCEPT ![s] = Enqueue(qs[s], p)], rq, {})
<1> DEFINE semAdd2 == [semAdd EXCEPT ![p] = s]
           qs2 == [qs EXCEPT ![s] = Enqueue(qs[s], p)]
<1>1. p \in Pcb \ free /\ semAdd[p] = NULL
  BY DEF Placed
<1>2. /\ ToSet(Enqueue(qs[s], p)) = ToSet(qs[s]) \cup {p}
      /\ IsInjective(qs[s]) /\ p \notin ToSet(qs[s]) => IsInjective(Enqueue(qs[s], p))
  BY AppendFacts DEF Enqueue
<1>3. p \notin ToSet(qs[s])
  BY <1>1, SemAssumption DEF Placed
<1>4. \A t \in Sem : qs2[t] = IF t = s THEN Enqueue(qs[s], p) ELSE qs[t]
  OBVIOUS
<1>5. \A x \in Pcb : semAdd2[x] = IF x = p THEN s ELSE semAdd[x]
  OBVIOUS
<1> HIDE DEF semAdd2, qs2
<1>6. \A t \in Sem : ToSet(qs2[t]) = {x \in Pcb \ free : semAdd2[x] = t}
  <2> TAKE t \in Sem
  <2>1. ToSet(qs[t]) = {x \in Pcb \ free : semAdd[x] = t}
    BY DEF Placed
  <2>2. CASE t = s
    BY <2>1, <2>2, <1>1, <1>2, <1>4, <1>5
  <2>3. CASE t # s
    BY <2>1, <2>3, <1>1, <1>4, <1>5, SemAssumption
  <2>4. QED  BY <2>2, <2>3
<1>7. {x \in Pcb \ free : semAdd2[x] = NULL}
         = {x \in Pcb \ free : semAdd[x] = NULL} \ {p}
  BY <1>5, SemAssumption
<1>8. \A x \in free : semAdd2[x] = NULL
  <2>1. \A x \in free : x # p /\ semAdd[x] = NULL
    BY <1>1 DEF Placed
  <2>2. QED  BY <2>1 DEF semAdd2
<1>9. \A t \in Sem : IsInjective(qs2[t])
  BY <1>2, <1>3, <1>4 DEF Placed
<1>10. ToSet(rq) = {x \in Pcb \ free : semAdd2[x] = NULL} /\ IsInjective(rq)
  BY <1>7 DEF Placed
<1>11. Placed(free, semAdd2, qs2, rq, {})
  BY <1>6, <1>8, <1>9, <1>10 DEF Placed
<1>12. QED  BY <1>11 DEF semAdd2, qs2

\* The first process that waits on a semaphore goes to the ready queue.
LEMMA WakePlaces ==
  ASSUME NEW free \in SUBSET Pcb, NEW semAdd \in [Pcb -> Sem \cup {NULL}],
         NEW qs \in [Sem -> Seq(Pcb)], NEW rq \in Seq(Pcb), NEW prio, NEW out,
         NEW s \in Sem, qs[s] # <<>>,
         Placed(free, semAdd, qs, rq, out)
  PROVE  /\ Head(qs[s]) \in Pcb \ free
         /\ semAdd[Head(qs[s])] = s
         /\ insertProcQ(prio, rq, Head(qs[s])) \in Seq(Pcb)
         /\ Placed(free, [semAdd EXCEPT ![Head(qs[s])] = NULL],
                   [qs EXCEPT ![s] = Tail(qs[s])],
                   insertProcQ(prio, rq, Head(qs[s])), out)
<1> DEFINE h == Head(qs[s])
           semAdd2 == [semAdd EXCEPT ![h] = NULL]
           qs2 == [qs EXCEPT ![s] = Tail(qs[s])]
<1>1. /\ h \in Pcb /\ h \in ToSet(qs[s])
      /\ ToSet(qs[s]) = ToSet(Tail(qs[s])) \cup {h}
      /\ IsInjective(qs[s]) => IsInjective(Tail(qs[s])) /\ h \notin ToSet(Tail(qs[s]))
  BY HeadTailFacts
<1>2. h \in Pcb \ free /\ semAdd[h] = s /\ s # NULL
  BY <1>1, SemAssumption DEF Placed
<1>3. /\ insertProcQ(prio, rq, h) \in Seq(Pcb)
      /\ ToSet(insertProcQ(prio, rq, h)) = ToSet(rq) \cup {h}
      /\ IsInjective(rq) /\ h \notin ToSet(rq) => IsInjective(insertProcQ(prio, rq, h))
  BY <1>1, insertProcQFacts
<1>4. \A t \in Sem : qs2[t] = IF t = s THEN Tail(qs[s]) ELSE qs[t]
  OBVIOUS
<1>5. \A x \in Pcb : semAdd2[x] = IF x = h THEN NULL ELSE semAdd[x]
  OBVIOUS
<1>6. \A x \in free : semAdd2[x] = NULL
  <2>1. \A x \in free : x # h /\ semAdd[x] = NULL
    BY <1>2 DEF Placed
  <2>2. QED  BY <2>1 DEF semAdd2
<1> HIDE DEF semAdd2, qs2, h
<1>7. \A t \in Sem : ToSet(qs2[t]) = {x \in Pcb \ free : semAdd2[x] = t}
  <2> TAKE t \in Sem
  <2>1. ToSet(qs[t]) = {x \in Pcb \ free : semAdd[x] = t} /\ IsInjective(qs[t])
        /\ t # NULL
    BY SemAssumption DEF Placed
  <2>2. CASE t = s
    <3>1. ToSet(qs2[t]) = ToSet(qs[s]) \ {h}
      BY <2>1, <2>2, <1>1, <1>4
    <3>2. {x \in Pcb \ free : semAdd2[x] = s} = {x \in Pcb \ free : semAdd[x] = s} \ {h}
      BY <1>2, <1>5
    <3>3. QED  BY <2>1, <2>2, <3>1, <3>2
  <2>3. CASE t # s
    BY <2>1, <2>3, <1>2, <1>4, <1>5
  <2>4. QED  BY <2>2, <2>3
<1>8. {x \in Pcb \ free : semAdd2[x] = NULL}
         = {x \in Pcb \ free : semAdd[x] = NULL} \cup {h}
  BY <1>2, <1>5
<1>9. \A t \in Sem : IsInjective(qs2[t])
  BY <1>1, <1>4 DEF Placed
<1>10. h \notin ToSet(rq) /\ h \notin out
  BY <1>2 DEF Placed
<1>11. Placed(free, semAdd2, qs2, insertProcQ(prio, rq, h), out)
  BY <1>3, <1>6, <1>7, <1>8, <1>9, <1>10 DEF Placed
<1>12. QED  BY <1>2, <1>3, <1>11 DEF semAdd2, qs2, h

\* All processes that wait for the clock go to the ready queue.
LEMMA TickPlaces ==
  ASSUME NEW free \in SUBSET Pcb, NEW semAdd \in [Pcb -> Sem \cup {NULL}],
         NEW qs \in [Sem -> Seq(Pcb)], NEW rq \in Seq(Pcb), NEW prio, NEW out,
         NEW s \in Sem,
         Placed(free, semAdd, qs, rq, out)
  PROVE  Placed(free,
                [p \in Pcb |-> IF p \in ToSet(qs[s]) THEN NULL ELSE semAdd[p]],
                [qs EXCEPT ![s] = <<>>],
                insertAll(prio, rq, qs[s]), out)
<1> DEFINE W == ToSet(qs[s])
           semAdd2 == [p \in Pcb |-> IF p \in ToSet(qs[s]) THEN NULL ELSE semAdd[p]]
           qs2 == [qs EXCEPT ![s] = <<>>]
           rq2 == insertAll(prio, rq, qs[s])
<1>1. /\ rq2 \in Seq(Pcb)
      /\ ToSet(rq2) = ToSet(rq) \cup W
      /\ IsInjective(rq) /\ IsInjective(qs[s]) /\ ToSet(rq) \cap W = {}
            => IsInjective(rq2)
  <2>1. ASSUME NEW w \in Seq(Pcb)
        PROVE  /\ insertAll(prio, rq, w) \in Seq(Pcb)
               /\ ToSet(insertAll(prio, rq, w)) = ToSet(rq) \cup ToSet(w)
               /\ IsInjective(rq) /\ IsInjective(w) /\ ToSet(rq) \cap ToSet(w) = {}
                     => IsInjective(insertAll(prio, rq, w))
    BY insertAllFacts
  <2>2. QED  BY <2>1
<1>2. W = {x \in Pcb \ free : semAdd[x] = s} /\ s # NULL
  BY SemAssumption DEF Placed
<1>3. \A t \in Sem : qs2[t] = IF t = s THEN <<>> ELSE qs[t]
  OBVIOUS
<1>4. \A x \in Pcb : semAdd2[x] = IF x \in W THEN NULL ELSE semAdd[x]
  OBVIOUS
<1> HIDE DEF semAdd2, qs2, rq2, W
<1>5. \A x \in free : semAdd2[x] = NULL
  BY <1>4 DEF Placed
<1>6. \A t \in Sem : ToSet(qs2[t]) = {x \in Pcb \ free : semAdd2[x] = t}
  <2> TAKE t \in Sem
  <2>1. ToSet(qs[t]) = {x \in Pcb \ free : semAdd[x] = t} /\ t # NULL
    BY SemAssumption DEF Placed
  <2>2. CASE t = s
    BY <2>1, <2>2, <1>2, <1>3, <1>4, EmptyFacts
  <2>3. CASE t # s
    BY <2>1, <2>3, <1>2, <1>3, <1>4
  <2>4. QED  BY <2>2, <2>3
<1>7. {x \in Pcb \ free : semAdd2[x] = NULL}
         = {x \in Pcb \ free : semAdd[x] = NULL} \cup W
  BY <1>2, <1>4
<1>8. \A t \in Sem : IsInjective(qs2[t])
  BY <1>3, EmptyFacts DEF Placed
<1>9. ToSet(rq) \cap W = {} /\ out \cap W = {} /\ IsInjective(qs[s])
  BY <1>2 DEF Placed
<1>10. Placed(free, semAdd2, qs2, rq2, out)
  BY <1>1, <1>5, <1>6, <1>7, <1>8, <1>9 DEF Placed
<1>11. QED  BY <1>10 DEF semAdd2, qs2, rq2

-----------------------------------------------------------------------------
(* The tree, and the death of a part of it *)

\* What is below a process is alive, and with a process come its children.
LEMMA SubtreeLive ==
  ASSUME TypeInv, FamilyTree, NEW p \in Live
  PROVE  /\ Subtree(p) \in SUBSET Live
         /\ \A c \in Pcb : p_parent[c] \in Subtree(p) => c \in Subtree(p)
<1>1. Live \in SUBSET Pcb /\ p \in Pcb /\ NULL \notin Pcb
  BY PcbAssumption DEF Live
<1>2. \A c \in Pcb : p_parent[c] \in Live => c \in Live
  BY <1>1 DEF Live, FamilyTree
<1>3. Subtree(p) \in SUBSET Live
  BY <1>1, <1>2 DEF Subtree
<1>4. ASSUME NEW c \in Pcb, p_parent[c] \in Subtree(p) PROVE c \in Subtree(p)
  BY <1>4 DEF Subtree
<1>5. QED  BY <1>3, <1>4

\* The processes that TERMPROCESS names are alive.
LEMMA TargetLive ==
  ASSUME TypeInv, FamilyTree, OnePlace, Running, NEW pid \in 0 .. MaxPid,
         NEW p \in (IF pid = 0 THEN {current_process} ELSE findByPid(pid))
  PROVE  p \in Live
<1>1. CASE pid = 0
  BY <1>1 DEF TypeInv, OnePlace
<1>2. CASE pid # 0
  <2>1. p \in Pcb /\ p_pid[p] # NoPid
    BY <1>2 DEF findByPid, NoPid
  <2>2. QED  BY <2>1 DEF FamilyTree, Live
<1>3. QED  BY <1>1, <1>2

\* subTree_killer keeps the tree of those who survive.
LEMMA KillFamily ==
  ASSUME TypeInv, FamilyTree, NEW S \in SUBSET Live, subTree_killer(S),
         \A c \in Pcb : p_parent[c] \in S => c \in S
  PROVE  FamilyTree'
<1>1. /\ Live \in SUBSET Pcb /\ pcbFree \in SUBSET Pcb
      /\ Live' = Live \ S /\ pcbFree' = pcbFree \cup S /\ next_pid' = next_pid
  BY DEF subTree_killer, Live, TypeInv, TypeOK
<1>2. \A p \in Pcb : /\ p_pid'[p] = IF p \in S THEN NoPid ELSE p_pid[p]
                     /\ p_parent'[p] = IF p \in S THEN NULL ELSE p_parent[p]
  BY DEF subTree_killer
<1>3. ASSUME NEW p \in Live'
      PROVE  /\ p_pid'[p] \in 1 .. next_pid' - 1
             /\ p_pid'[p] = 1 <=> p_parent'[p] = NULL
             /\ p_parent'[p] # NULL =>
                  p_parent'[p] \in Live' /\ p_pid'[p_parent'[p]] < p_pid'[p]
  <2>1. p \in Live /\ p \in Pcb /\ p \notin S
    BY <1>1
  <2>2. /\ p_pid[p] \in 1 .. next_pid - 1
        /\ p_pid[p] = 1 <=> p_parent[p] = NULL
        /\ p_parent[p] # NULL => p_parent[p] \in Live /\ p_pid[p_parent[p]] < p_pid[p]
    BY <2>1 DEF FamilyTree
  <2>3. p_parent[p] \notin S
    BY <2>1
  <2>4. QED  BY <1>1, <1>2, <2>1, <2>2, <2>3
<1>4. \A p, q \in Live' : p_pid'[p] = p_pid'[q] => p = q
  BY <1>1, <1>2 DEF FamilyTree
<1>5. \A p \in pcbFree' : p_pid'[p] = NoPid /\ p_parent'[p] = NULL
  BY <1>1, <1>2 DEF FamilyTree
<1>6. QED  BY <1>3, <1>4, <1>5 DEF FamilyTree

\* subTree_killer takes its victims, and nobody else, from where they are.
LEMMA KillPlaces ==
  ASSUME TypeInv, FamilyTree, PlacedNow, NEW S \in SUBSET Live, subTree_killer(S)
  PROVE  /\ OutReady(S) \in Seq(Pcb)
         /\ Placed(pcbFree', p_semAdd', semd_h', OutReady(S), OnCpu \ S)
<1> DEFINE ready == S \ ({current_process} \cup Blocked(S))
           V == {q \in Pcb : \E p \in ready : p_pid[q] = p_pid[p]}
<1>1. /\ ready_queue \in Seq(Pcb) /\ \A s \in Sem : semd_h[s] \in Seq(Pcb)
      /\ Live = Pcb \ pcbFree /\ pcbFree \in SUBSET Pcb
  BY DEF TypeInv, TypeOK, Live
<1>2. \A p \in Pcb : p_semAdd'[p] = IF p \in S THEN NULL ELSE p_semAdd[p]
  BY DEF subTree_killer
<1>3. pcbFree' = pcbFree \cup S
  BY DEF subTree_killer
<1>4. current_process # NULL => p_semAdd[current_process] = NULL
  BY DEF PlacedNow, Placed, OnCpu
<1>5. \A x \in S : x \in Blocked(S) <=> p_semAdd[x] # NULL
  BY <1>1, <1>4, PcbAssumption DEF Blocked
<1>6. ASSUME NEW s \in Sem
      PROVE  /\ ToSet(semd_h'[s]) = {p \in Pcb \ pcbFree' : p_semAdd'[p] = s}
             /\ IsInjective(semd_h'[s])
  <2>1. /\ Without(semd_h[s], Blocked(S)) \in Seq(Pcb)
        /\ ToSet(Without(semd_h[s], Blocked(S))) = ToSet(semd_h[s]) \ Blocked(S)
        /\ IsInjective(semd_h[s]) => IsInjective(Without(semd_h[s], Blocked(S)))
    BY <1>1, WithoutFacts
  <2>2. semd_h'[s] = Without(semd_h[s], Blocked(S))
    BY DEF subTree_killer
  <2>3. ToSet(semd_h[s]) = {p \in Pcb \ pcbFree : p_semAdd[p] = s} /\ IsInjective(semd_h[s])
    BY DEF PlacedNow, Placed
  <2>4. Blocked(S) \in SUBSET S /\ s # NULL
    BY SemAssumption DEF Blocked
  <2>5. {p \in Pcb \ pcbFree' : p_semAdd'[p] = s} =
           {p \in Pcb \ pcbFree : p_semAdd[p] = s} \ Blocked(S)
    BY <1>1, <1>2, <1>3, <1>5, <2>4
  <2>6. QED  BY <2>1, <2>2, <2>3, <2>5
<1>7. \A p \in pcbFree' : p_semAdd'[p] = NULL
  BY <1>1, <1>2, <1>3 DEF PlacedNow, Placed
<1>8. ToSet(ready_queue) \ V = ToSet(ready_queue) \ S
  <2>1. ToSet(ready_queue) = {p \in Live : p_semAdd[p] = NULL} \ OnCpu
    BY <1>1 DEF PlacedNow, Placed
  <2>2. ASSUME NEW x \in ToSet(ready_queue) PROVE x \in S <=> x \in V
    <3>1. x \in Live /\ x \in Pcb /\ p_semAdd[x] = NULL /\ x # current_process
      BY <1>1, <2>1, PcbAssumption DEF OnCpu
    <3>2. x \in S => x \in V
      BY <3>1, <1>5
    <3>3. x \in V => x \in S
      BY <3>1 DEF FamilyTree
    <3>4. QED  BY <3>2, <3>3
  <2> HIDE DEF V
  <2>3. QED  BY <2>2
<1>9. /\ OutReady(S) \in Seq(Pcb)
      /\ ToSet(OutReady(S)) = ToSet(ready_queue) \ V
      /\ IsInjective(ready_queue) => IsInjective(OutReady(S))
  <2>1. OutReady(S) = Without(ready_queue, V)
    BY DEF OutReady
  <2> HIDE DEF V
  <2>2. QED  BY <1>1, <2>1, WithoutFacts
<1>10. {p \in Pcb \ pcbFree' : p_semAdd'[p] = NULL} =
          {p \in Pcb \ pcbFree : p_semAdd[p] = NULL} \ S
  BY <1>1, <1>2, <1>3
<1>11. /\ ToSet(ready_queue) = {p \in Pcb \ pcbFree : p_semAdd[p] = NULL} \ OnCpu
       /\ OnCpu \subseteq {p \in Pcb \ pcbFree : p_semAdd[p] = NULL}
       /\ IsInjective(ready_queue)
  BY DEF PlacedNow, Placed
<1>12. Placed(pcbFree', p_semAdd', semd_h', OutReady(S), OnCpu \ S)
  <2> HIDE DEF V
  <2>1. ToSet(OutReady(S)) =
           {p \in Pcb \ pcbFree' : p_semAdd'[p] = NULL} \ (OnCpu \ S)
    BY <1>8, <1>9, <1>10, <1>11
  <2>2. OnCpu \ S \subseteq {p \in Pcb \ pcbFree' : p_semAdd'[p] = NULL}
    BY <1>10, <1>11
  <2>3. QED  BY <1>6, <1>7, <1>9, <1>11, <2>1, <2>2 DEF Placed
<1>13. QED  BY <1>9, <1>12

-----------------------------------------------------------------------------
(* The actions *)

\* The tree is what the tree's variables say.
LEMMA FamilyStays ==
  ASSUME FamilyTree, UNCHANGED pcbVars PROVE FamilyTree'
BY DEF FamilyTree, pcbVars, Live

\* Init has one process, on the CPU.
LEMMA InitPlaces == Init => FamilyTree /\ PlacedNow
<1> SUFFICES ASSUME Init PROVE FamilyTree /\ PlacedNow  OBVIOUS
<1>1. PICK root \in Pcb :
         /\ pcbFree = Pcb \ {root}
         /\ p_pid = [p \in Pcb |-> IF p = root THEN 1 ELSE NoPid]
         /\ current_process = root
  BY DEF Init
<1>2. /\ \A p \in Pcb : p_parent[p] = NULL /\ p_semAdd[p] = NULL
      /\ \A s \in Sem : semd_h[s] = <<>>
      /\ ready_queue = <<>> /\ next_pid = 2
  BY DEF Init
<1>3. FamilyTree
  BY <1>1, <1>2 DEF FamilyTree, Live, NoPid
<1>4. OnCpu = {root} /\ Pcb \ pcbFree = {root}
  BY <1>1, PcbAssumption DEF OnCpu
<1>5. PlacedNow
  BY <1>1, <1>2, <1>4, EmptyFacts, SemAssumption DEF PlacedNow, Placed
<1>6. QED  BY <1>3, <1>5

\* A new process is the youngest, and a child of the running process.
LEMMA CreatePlaces ==
  ASSUME TypeInv, FamilyTree, PlacedNow,
         NEW prio \in Prio, NEW sup \in Supports \cup {NULL},
         create_process(prio, sup)
  PROVE  FamilyTree' /\ PlacedNow'
<1>1. CASE pcbFree = {}
  <2>1. UNCHANGED <<pcbVars, p_semAdd, semd_h, ready_queue, current_process>>
    BY <1>1 DEF create_process, vars, semVars, cpuVars
  <2>2. QED
    BY <2>1, FamilyStays DEF pcbVars, PlacedNow, OnCpu
<1>2. CASE pcbFree # {}
  <2>1. PICK p \in pcbFree :
                 /\ p_parent' = [p_parent EXCEPT ![p] = current_process]
                 /\ p_pid' = [p_pid EXCEPT ![p] = next_pid]
                 /\ pcbFree' = pcbFree \ {p}
                 /\ ready_queue' = insertProcQ(p_prio', ready_queue, p)
    BY <1>2 DEF create_process
  <2>2. /\ next_pid' = next_pid + 1
        /\ p_semAdd' = p_semAdd /\ semd_h' = semd_h
        /\ current_process' = current_process
    BY <1>2 DEF create_process, semVars
  <2>3. /\ p \in Pcb /\ pcbFree \in SUBSET Pcb /\ ready_queue \in Seq(Pcb)
        /\ next_pid \in Int /\ next_pid >= 2
        /\ current_process \in Pcb /\ current_process # NULL
    BY <1>2, NumberAssumption DEF create_process, TypeInv, TypeOK
  <2>4. current_process \in Live
    BY <2>3 DEF PlacedNow, Placed, OnCpu, Live
  <2>5. FamilyTree'
    <3>1. Live' = Live \cup {p} /\ p \notin Live
      BY <2>1, <2>3 DEF Live
    <3>2. \A q \in Pcb :
             /\ p_pid'[q] = IF q = p THEN next_pid ELSE p_pid[q]
             /\ p_parent'[q] = IF q = p THEN current_process ELSE p_parent[q]
      BY <2>1 DEF TypeInv, TypeOK
    <3>3. \A q \in Live : q \in Pcb /\ q # p /\ p_pid[q] \in 1 .. next_pid - 1
      BY <3>1 DEF FamilyTree, Live
    <3>4. ASSUME NEW q \in Live'
          PROVE  /\ p_pid'[q] \in 1 .. next_pid' - 1
                 /\ p_pid'[q] = 1 <=> p_parent'[q] = NULL
                 /\ p_parent'[q] # NULL =>
                      p_parent'[q] \in Live' /\ p_pid'[p_parent'[q]] < p_pid'[q]
      <4>1. CASE q = p
        BY <4>1, <2>2, <2>3, <2>4, <3>1, <3>2, <3>3
      <4>2. CASE q \in Live
        <5>1. /\ p_pid[q] = 1 <=> p_parent[q] = NULL
              /\ p_parent[q] # NULL =>
                   p_parent[q] \in Live /\ p_pid[p_parent[q]] < p_pid[q]
          BY <4>2 DEF FamilyTree
        <5>2. p_pid'[q] = p_pid[q] /\ p_parent'[q] = p_parent[q]
          BY <4>2, <3>2, <3>3
        <5>3. p_pid'[q] \in 1 .. next_pid' - 1
          BY <4>2, <5>2, <2>2, <2>3, <3>3
        <5>4. ASSUME p_parent'[q] # NULL
              PROVE  p_parent'[q] \in Live' /\ p_pid'[p_parent'[q]] < p_pid'[q]
          BY <5>4, <5>1, <5>2, <3>1, <3>2, <3>3
        <5>5. QED  BY <5>1, <5>2, <5>3, <5>4
      <4>3. QED  BY <4>1, <4>2, <3>1
    <3>5. ASSUME NEW q \in Live', NEW r \in Live', p_pid'[q] = p_pid'[r]
          PROVE  q = r
      <4>1. \A x, y \in Live : p_pid[x] = p_pid[y] => x = y
        BY DEF FamilyTree
      <4>2. p \in Pcb /\ p_pid'[p] = next_pid /\ \A x \in Live : p_pid'[x] = p_pid[x]
        BY <2>3, <3>2, <3>3
      <4>3. \A x \in Live : p_pid[x] # next_pid
        BY <2>3, <3>3
      <4>4. QED  BY <4>1, <4>2, <4>3, <3>1, <3>5
    <3>6. \A q \in pcbFree' : p_pid'[q] = NoPid /\ p_parent'[q] = NULL
      <4>1. \A q \in pcbFree : p_pid[q] = NoPid /\ p_parent[q] = NULL
        BY DEF FamilyTree
      <4>2. QED  BY <4>1, <2>1, <2>3, <3>2
    <3>7. QED  BY <3>4, <3>5, <3>6 DEF FamilyTree
  <2>6. PlacedNow'
    <3>1. Placed(pcbFree, p_semAdd, semd_h, ready_queue, OnCpu)
      BY DEF PlacedNow
    <3>2. Placed(pcbFree \ {p}, p_semAdd, semd_h,
                 insertProcQ(p_prio', ready_queue, p), OnCpu)
      BY <2>3, <3>1, AllocPlaces
    <3>3. OnCpu' = OnCpu
      BY <2>2 DEF OnCpu
    <3>4. QED  BY <2>1, <2>2, <3>2, <3>3 DEF PlacedNow
  <2>7. QED  BY <2>5, <2>6
<1>3. QED  BY <1>1, <1>2

\* The blocking part of Passeren and block_sync moves the running process to
\* the semaphore, or panics and moves nobody.
LEMMA BlockOnPlaces ==
  ASSUME TypeInv, PlacedNow, Running, NEW s \in Sem, BlockOn(s), pcbFree' = pcbFree
  PROVE  PlacedNow'
<1>1. CASE NoDescriptor(s)
  <2>1. UNCHANGED <<p_semAdd, semd_h, current_process, ready_queue>>
    BY <1>1 DEF BlockOn
  <2>2. QED  BY <2>1 DEF PlacedNow, OnCpu
<1>2. CASE ~NoDescriptor(s)
  <2>1. /\ p_semAdd' = [p_semAdd EXCEPT ![current_process] = s]
        /\ semd_h' = [semd_h EXCEPT ![s] = Enqueue(semd_h[s], current_process)]
        /\ scheduler(SaveState, ready_queue)
    BY <1>2 DEF BlockOn
  <2>2. /\ current_process \in Pcb /\ OnCpu = {current_process}
        /\ pcbFree \in SUBSET Pcb /\ p_semAdd \in [Pcb -> Sem \cup {NULL}]
        /\ semd_h \in [Sem -> Seq(Pcb)] /\ ready_queue \in Seq(Pcb)
    BY PcbAssumption DEF TypeInv, TypeOK, OnCpu
  <2>3. Placed(pcbFree, p_semAdd, semd_h, ready_queue, {current_process})
    BY <2>2 DEF PlacedNow
  <2>4. Placed(pcbFree, [p_semAdd EXCEPT ![current_process] = s],
               [semd_h EXCEPT ![s] = Enqueue(semd_h[s], current_process)],
               ready_queue, {})
    BY <2>2, <2>3, BlockPlaces
  <2>5. Placed(pcbFree', p_semAdd', semd_h', ready_queue, {})
    BY <2>1, <2>4
  <2>6. QED  BY <2>1, <2>2, <2>5, SchedulerPlaces
<1>3. QED  BY <1>1, <1>2

\* After an interrupt nobody but those it released has moved, whether or not
\* the CPU was waiting.
LEMMA ReturnPlaces ==
  ASSUME TypeInv, NEW rq \in Seq(Pcb), Return(rq),
         Placed(pcbFree', p_semAdd', semd_h', rq, OnCpu)
  PROVE  PlacedNow'
<1>1. CASE current_process # NULL
  <2>1. ready_queue' = rq /\ OnCpu' = OnCpu
    BY <1>1 DEF Return, OnCpu
  <2>2. QED  BY <2>1 DEF PlacedNow
<1>2. CASE current_process = NULL
  <2>1. OnCpu = {} /\ scheduler(p_s, rq)
    BY <1>2 DEF Return, OnCpu
  <2>2. QED  BY <2>1, SchedulerPlaces
<1>3. QED  BY <1>1, <1>2

\* PASSEREN moves the caller to the semaphore, or nobody.
LEMMA PasserenPlaces ==
  ASSUME TypeInv, PlacedNow, NEW s \in UserSem, Passeren(s)
  PROVE  PlacedNow'
<1>1. Running /\ pcbFree' = pcbFree /\ s \in Sem
  BY DEF Passeren, pcbVars, Sem
<1>2. CASE semval[s] - 1 >= 0
  BY <1>1, <1>2 DEF Passeren, cpuVars, PlacedNow, OnCpu
<1>3. CASE ~(semval[s] - 1 >= 0)
  BY <1>1, <1>3, BlockOnPlaces DEF Passeren
<1>4. QED  BY <1>2, <1>3

\* removeBlocked and insertProcQ of whom it returns.
LEMMA RemovePlaces ==
  ASSUME TypeInv, PlacedNow, NEW s \in Sem, semd_h[s] # <<>>, RemoveBlocked(s),
         pcbFree' = pcbFree
  PROVE  /\ insertProcQ(p_prio, ready_queue, Head(semd_h[s])) \in Seq(Pcb)
         /\ Placed(pcbFree', p_semAdd', semd_h',
                   insertProcQ(p_prio, ready_queue, Head(semd_h[s])), OnCpu)
<1>1. /\ pcbFree \in SUBSET Pcb /\ p_semAdd \in [Pcb -> Sem \cup {NULL}]
      /\ semd_h \in [Sem -> Seq(Pcb)] /\ ready_queue \in Seq(Pcb)
  BY DEF TypeInv, TypeOK
<1>2. Placed(pcbFree, p_semAdd, semd_h, ready_queue, OnCpu)
  BY DEF PlacedNow
<1>3. /\ insertProcQ(p_prio, ready_queue, Head(semd_h[s])) \in Seq(Pcb)
      /\ Placed(pcbFree, [p_semAdd EXCEPT ![Head(semd_h[s])] = NULL],
                [semd_h EXCEPT ![s] = Tail(semd_h[s])],
                insertProcQ(p_prio, ready_queue, Head(semd_h[s])), OnCpu)
  BY <1>1, <1>2, WakePlaces
<1>4. QED  BY <1>3 DEF RemoveBlocked

\* VERHOGEN moves the first waiter to the ready queue, or nobody.
LEMMA VerhogenPlaces ==
  ASSUME TypeInv, PlacedNow, NEW s \in UserSem, Verhogen(s)
  PROVE  PlacedNow'
<1>1. UNCHANGED <<pcbVars, current_process>> /\ s \in Sem
  BY DEF Verhogen, Sem
<1>2. pcbFree' = pcbFree /\ OnCpu' = OnCpu
  BY <1>1 DEF pcbVars, OnCpu
<1>3. CASE Wakes(semval[s] + 1) /\ semd_h[s] # <<>>
  <2>1. /\ RemoveBlocked(s)
        /\ ready_queue' = insertProcQ(p_prio, ready_queue, Head(semd_h[s]))
    BY <1>3 DEF Verhogen
  <2>2. QED  BY <1>1, <1>2, <1>3, <2>1, RemovePlaces DEF PlacedNow
<1>4. CASE ~(Wakes(semval[s] + 1) /\ semd_h[s] # <<>>)
  BY <1>2, <1>4 DEF Verhogen, PlacedNow
<1>5. QED  BY <1>3, <1>4

\* The completion of a command moves the process that waited for it, if it is
\* still there.
LEMMA DevicePlaces ==
  ASSUME TypeInv, PlacedNow, NEW d \in Device, DeviceInterrupt(d)
  PROVE  PlacedNow'
<1>1. pcbFree' = pcbFree /\ d \in Sem
  BY DEF DeviceInterrupt, pcbVars, Sem, KernelSem
<1>2. CASE Wakes(semval[d] + 1) /\ semd_h[d] # <<>>
  <2>1. /\ RemoveBlocked(d)
        /\ Return(insertProcQ(p_prio, ready_queue, Head(semd_h[d])))
    BY <1>2 DEF DeviceInterrupt
  <2>2. QED  BY <1>1, <1>2, <2>1, RemovePlaces, ReturnPlaces
<1>3. CASE ~(Wakes(semval[d] + 1) /\ semd_h[d] # <<>>)
  <2>1. UNCHANGED <<p_semAdd, semd_h>> /\ Return(ready_queue)
    BY <1>3 DEF DeviceInterrupt
  <2>2. ready_queue \in Seq(Pcb)
    BY DEF TypeInv, TypeOK
  <2>3. QED  BY <1>1, <2>1, <2>2, ReturnPlaces DEF PlacedNow
<1>4. QED  BY <1>2, <1>3

\* A tick moves all processes that wait for the clock.
LEMMA IntervalTimerPlaces ==
  ASSUME TypeInv, PlacedNow, IntervalTimer
  PROVE  PlacedNow'
<1> DEFINE rq == insertAll(p_prio, ready_queue, semd_h[PseudoClock])
<1>1. /\ pcbFree \in SUBSET Pcb /\ p_semAdd \in [Pcb -> Sem \cup {NULL}]
      /\ semd_h \in [Sem -> Seq(Pcb)] /\ ready_queue \in Seq(Pcb)
      /\ PseudoClock \in Sem
  BY DEF TypeInv, TypeOK, Sem, KernelSem
<1>2. SubSeq(semd_h[PseudoClock], Len(semd_h[PseudoClock]) + 1,
             Len(semd_h[PseudoClock])) = <<>>
  <2>1. ASSUME NEW w \in Seq(Pcb) PROVE SubSeq(w, Len(w) + 1, Len(w)) = <<>>
    OBVIOUS
  <2>2. QED  BY <1>1, <2>1
<1>3. /\ semd_h' = [semd_h EXCEPT ![PseudoClock] = <<>>]
      /\ p_semAdd' = [p \in Pcb |-> IF p \in ToSet(semd_h[PseudoClock])
                                    THEN NULL ELSE p_semAdd[p]]
  BY <1>1, <1>2 DEF IntervalTimer, unblock_pseudoclock, ClockWaiters
<1>4. pcbFree' = pcbFree /\ Return(rq)
  BY DEF IntervalTimer, pcbVars, ClockWaiters
<1>5. rq \in Seq(Pcb)
  <2>1. ASSUME NEW w \in Seq(Pcb) PROVE insertAll(p_prio, ready_queue, w) \in Seq(Pcb)
    BY <1>1, insertAllFacts
  <2>2. QED  BY <1>1, <2>1
<1>6. Placed(pcbFree, p_semAdd, semd_h, ready_queue, OnCpu)
  BY DEF PlacedNow
<1>7. Placed(pcbFree,
             [p \in Pcb |-> IF p \in ToSet(semd_h[PseudoClock])
                            THEN NULL ELSE p_semAdd[p]],
             [semd_h EXCEPT ![PseudoClock] = <<>>], rq, OnCpu)
  BY <1>1, <1>6, TickPlaces
<1>8. Placed(pcbFree', p_semAdd', semd_h', rq, OnCpu)
  BY <1>3, <1>4, <1>7
<1> HIDE DEF rq
<1>9. QED  BY <1>4, <1>5, <1>8, ReturnPlaces

\* The end of a time slice moves the running process to the ready queue.
LEMMA PLTPlaces ==
  ASSUME TypeInv, PlacedNow, PLTInterrupt
  PROVE  PlacedNow'
<1>1. /\ current_process \in Pcb /\ OnCpu = {current_process}
      /\ ready_queue \in Seq(Pcb)
  BY PcbAssumption DEF PLTInterrupt, TypeInv, TypeOK, OnCpu
<1>2. /\ pcbFree' = pcbFree /\ p_semAdd' = p_semAdd /\ semd_h' = semd_h
      /\ scheduler(SaveState, insertProcQ(p_prio, ready_queue, current_process))
  BY DEF PLTInterrupt, pcbVars, semVars
<1>3. Placed(pcbFree, p_semAdd, semd_h, ready_queue, {current_process})
  BY <1>1 DEF PlacedNow
<1>4. /\ insertProcQ(p_prio, ready_queue, current_process) \in Seq(Pcb)
      /\ Placed(pcbFree, p_semAdd, semd_h,
                insertProcQ(p_prio, ready_queue, current_process),
                {current_process} \ {current_process})
  BY <1>1, <1>3, ReadyPlaces
<1>5. {current_process} \ {current_process} = {}
  OBVIOUS
<1>6. QED  BY <1>2, <1>4, <1>5, SchedulerPlaces

\* YIELD changes places with the head of the ready queue.
LEMMA YieldPlaces ==
  ASSUME TypeInv, PlacedNow, Yield
  PROVE  PlacedNow'
<1>1. /\ current_process \in Pcb /\ OnCpu = {current_process}
      /\ ready_queue \in Seq(Pcb)
  BY PcbAssumption DEF Yield, TypeInv, TypeOK, OnCpu
<1>2. pcbFree' = pcbFree /\ p_semAdd' = p_semAdd /\ semd_h' = semd_h
  BY DEF Yield, pcbVars, semVars
<1>3. Placed(pcbFree, p_semAdd, semd_h, ready_queue, {current_process})
  BY <1>1 DEF PlacedNow
<1>4. CASE ready_queue = <<>>
  <2>1. scheduler(SaveState, insertProcQ(p_prio, <<>>, current_process))
    BY <1>4 DEF Yield
  <2>2. /\ insertProcQ(p_prio, ready_queue, current_process) \in Seq(Pcb)
        /\ Placed(pcbFree, p_semAdd, semd_h,
                  insertProcQ(p_prio, ready_queue, current_process),
                  {current_process} \ {current_process})
    BY <1>1, <1>3, ReadyPlaces
  <2>3. {current_process} \ {current_process} = {}
    OBVIOUS
  <2>4. QED  BY <1>2, <1>4, <2>1, <2>2, <2>3, SchedulerPlaces
<1>5. CASE ready_queue # <<>>
  <2> DEFINE h == Head(ready_queue)
             t == Tail(ready_queue)
  <2>1. Dispatch(SaveState, h, insertProcQ(p_prio, t, current_process))
    BY <1>5 DEF Yield
  <2>2. /\ h \in Pcb /\ h \in ToSet(ready_queue) /\ t \in Seq(Pcb)
        /\ ToSet(ready_queue) = ToSet(t) \cup {h}
        /\ IsInjective(ready_queue) => IsInjective(t) /\ h \notin ToSet(t)
    BY <1>1, <1>5, HeadTailFacts
  <2> HIDE DEF h, t
  <2>3. /\ OnCpu' = {h}
        /\ ready_queue' = insertProcQ(p_prio, t, current_process)
    BY <2>1, <2>2, PcbAssumption DEF Dispatch, OnCpu
  <2>4. Placed(pcbFree, p_semAdd, semd_h, t, {current_process, h})
    BY <1>1, <1>3, <2>2 DEF Placed
  <2>5. Placed(pcbFree, p_semAdd, semd_h, insertProcQ(p_prio, t, current_process),
               {current_process, h} \ {current_process})
    BY <1>1, <2>2, <2>4, ReadyPlaces
  <2>6. {current_process, h} \ {current_process} = {h}
    BY <1>3, <2>2 DEF Placed
  <2>7. QED  BY <1>2, <2>3, <2>5, <2>6 DEF PlacedNow
<1>6. QED  BY <1>4, <1>5

\* TERMPROCESS takes its victims out of where they are, and a caller that
\* survives goes to the ready queue.
LEMMA TerminatePlaces ==
  ASSUME TypeInv, FamilyTree, PlacedNow, NEW pid \in 0 .. MaxPid,
         terminate_process(pid)
  PROVE  FamilyTree' /\ PlacedNow'
<1> DEFINE target == IF pid = 0 THEN {current_process} ELSE findByPid(pid)
           S == UNION {Subtree(p) : p \in target}
           rq == IF current_process \in S THEN OutReady(S)
                 ELSE insertProcQ(p_prio, OutReady(S), current_process)
<1>1. /\ subTree_killer(S) /\ scheduler(Cleared(S), rq) /\ Running
      /\ current_process \in Pcb /\ OnCpu = {current_process}
  BY PcbAssumption DEF terminate_process, TypeInv, TypeOK, OnCpu
<1>2. \A p \in target : p \in Live
  BY <1>1, PlacedIsOnePlace, TargetLive
<1>3. \A p \in target : /\ Subtree(p) \in SUBSET Live
                        /\ \A c \in Pcb : p_parent[c] \in Subtree(p) => c \in Subtree(p)
  BY <1>2, SubtreeLive
<1>4. S \in SUBSET Live /\ \A c \in Pcb : p_parent[c] \in S => c \in S
  <2> HIDE DEF target
  <2>1. QED  BY <1>3
<1> HIDE DEF S
<1>5. FamilyTree'
  BY <1>1, <1>4, KillFamily
<1>6. /\ OutReady(S) \in Seq(Pcb)
      /\ Placed(pcbFree', p_semAdd', semd_h', OutReady(S), {current_process} \ S)
  BY <1>1, <1>4, KillPlaces
<1>7. rq \in Seq(Pcb) /\ Placed(pcbFree', p_semAdd', semd_h', rq, {})
  <2>1. CASE current_process \in S
    <3>1. {current_process} \ S = {}
      BY <2>1
    <3>2. QED  BY <1>6, <2>1, <3>1
  <2>2. CASE current_process \notin S
    <3>1. {current_process} \ S = {current_process}
          /\ {current_process} \ {current_process} = {}
      BY <2>2
    <3>2. /\ insertProcQ(p_prio, OutReady(S), current_process) \in Seq(Pcb)
          /\ Placed(pcbFree', p_semAdd', semd_h',
                    insertProcQ(p_prio, OutReady(S), current_process),
                    {current_process} \ {current_process})
      BY <1>1, <1>6, <3>1, ReadyPlaces
    <3>3. QED  BY <2>2, <3>1, <3>2
  <2>3. QED  BY <2>1, <2>2
<1> HIDE DEF rq
<1>8. PlacedNow'
  BY <1>1, <1>7, SchedulerPlaces
<1>9. QED  BY <1>5, <1>8

\* So does an exception of a process without a support structure.
LEMMA PassUpPlaces ==
  ASSUME TypeInv, FamilyTree, PlacedNow, passup_or_die
  PROVE  FamilyTree' /\ PlacedNow'
<1>1. CASE p_supportStruct[current_process] # NULL
  <2>1. UNCHANGED <<pcbVars, p_semAdd, semd_h, ready_queue, current_process>>
    BY <1>1 DEF passup_or_die, vars, semVars, cpuVars
  <2>2. QED
    BY <2>1, FamilyStays DEF pcbVars, PlacedNow, OnCpu
<1>2. CASE p_supportStruct[current_process] = NULL
  <2> DEFINE S == Subtree(current_process)
  <2>1. /\ subTree_killer(S) /\ scheduler(Cleared(S), OutReady(S))
        /\ current_process \in Pcb /\ OnCpu = {current_process}
    BY <1>2, PcbAssumption DEF passup_or_die, TypeInv, TypeOK, OnCpu
  <2>2. current_process \in Live
    BY <2>1 DEF PlacedNow, Placed, Live
  <2>3. S \in SUBSET Live /\ \A c \in Pcb : p_parent[c] \in S => c \in S
    BY <2>2, SubtreeLive
  <2>4. {current_process} \ S = {}
    BY <2>1 DEF Subtree
  <2> HIDE DEF S
  <2>5. FamilyTree'
    BY <2>1, <2>3, KillFamily
  <2>6. /\ OutReady(S) \in Seq(Pcb)
        /\ Placed(pcbFree', p_semAdd', semd_h', OutReady(S), {})
    BY <2>1, <2>3, <2>4, KillPlaces
  <2>7. QED  BY <2>1, <2>5, <2>6, SchedulerPlaces
<1>3. QED  BY <1>1, <1>2

\* Every step keeps everybody in one place and the tree a tree.
LEMMA NextPlaces ==
  ASSUME TypeInv, FamilyTree, PlacedNow, [Next]_vars
  PROVE  FamilyTree' /\ PlacedNow'
<1>1. ASSUME NEW prio \in Prio, NEW sup \in Supports \cup {NULL},
             create_process(prio, sup)
      PROVE  FamilyTree' /\ PlacedNow'
  BY <1>1, CreatePlaces
<1>2. ASSUME NEW pid \in 0 .. MaxPid, terminate_process(pid)
      PROVE  FamilyTree' /\ PlacedNow'
  BY <1>2, TerminatePlaces
<1>3. ASSUME NEW s \in UserSem, Passeren(s) PROVE FamilyTree' /\ PlacedNow'
  <2>1. UNCHANGED pcbVars
    BY <1>3 DEF Passeren
  <2>2. QED  BY <1>3, <2>1, PasserenPlaces, FamilyStays
<1>4. ASSUME NEW s \in UserSem, Verhogen(s) PROVE FamilyTree' /\ PlacedNow'
  <2>1. UNCHANGED pcbVars
    BY <1>4 DEF Verhogen
  <2>2. QED  BY <1>4, <2>1, VerhogenPlaces, FamilyStays
<1>5. ASSUME Running, NEW s \in KernelSem, block_sync(s)
      PROVE  FamilyTree' /\ PlacedNow'
  <2>1. UNCHANGED pcbVars /\ pcbFree' = pcbFree /\ BlockOn(s) /\ s \in Sem
    BY <1>5 DEF block_sync, pcbVars, Sem
  <2>2. QED  BY <1>5, <2>1, BlockOnPlaces, FamilyStays
<1>6. ASSUME NEW d \in Device, DoIO(d) PROVE FamilyTree' /\ PlacedNow'
  BY <1>5, <1>6 DEF DoIO, KernelSem
<1>7. ASSUME WaitForClock PROVE FamilyTree' /\ PlacedNow'
  BY <1>5, <1>7 DEF WaitForClock, KernelSem
<1>8. ASSUME NEW d \in Device, DeviceInterrupt(d) PROVE FamilyTree' /\ PlacedNow'
  <2>1. UNCHANGED pcbVars
    BY <1>8 DEF DeviceInterrupt
  <2>2. QED  BY <1>8, <2>1, DevicePlaces, FamilyStays
<1>9. ASSUME Yield PROVE FamilyTree' /\ PlacedNow'
  <2>1. UNCHANGED pcbVars
    BY <1>9 DEF Yield
  <2>2. QED  BY <1>9, <2>1, YieldPlaces, FamilyStays
<1>10. ASSUME PLTInterrupt PROVE FamilyTree' /\ PlacedNow'
  <2>1. UNCHANGED pcbVars
    BY <1>10 DEF PLTInterrupt
  <2>2. QED  BY <1>10, <2>1, PLTPlaces, FamilyStays
<1>11. ASSUME IntervalTimer PROVE FamilyTree' /\ PlacedNow'
  <2>1. UNCHANGED pcbVars
    BY <1>11 DEF IntervalTimer
  <2>2. QED  BY <1>11, <2>1, IntervalTimerPlaces, FamilyStays
<1>12. ASSUME UNCHANGED vars PROVE FamilyTree' /\ PlacedNow'
  <2>1. UNCHANGED <<pcbVars, p_semAdd, semd_h, ready_queue, current_process>>
    BY <1>12 DEF vars, semVars, cpuVars
  <2>2. QED
    BY <2>1, FamilyStays DEF pcbVars, PlacedNow, OnCpu
<1>13. QED
  BY <1>1, <1>2, <1>3, <1>4, <1>6, <1>7, <1>8, <1>9, <1>10, <1>11, <1>12,
     PassUpPlaces DEF Next

\* The inductive invariant of the two theorems.
PlaceInv == TypeInv /\ FamilyTree /\ PlacedNow

\* What PlaceInv says of every state of the nucleus.
LEMMA PlaceInvariant == Spec => []PlaceInv
<1>1. Init => PlaceInv
  BY InitType, InitPlaces DEF PlaceInv
<1>2. PlaceInv /\ [Next]_vars => PlaceInv'
  BY NextType, NextPlaces DEF PlaceInv
<1>3. QED  BY <1>1, <1>2, PTL DEF Spec

\* A process that exists is on the CPU, once in the ready queue, or once in the
\* queue of the semaphore in its p_semAdd, and a free PCB is in no queue,
\* whatever is created, blocked, released and killed.
THEOREM OnePlaceCorrect == Spec => []OnePlace
<1>1. PlaceInv => OnePlace
  BY PlacedIsOnePlace DEF PlaceInv
<1>2. QED  BY <1>1, PlaceInvariant, PTL

\* The processes form one tree whose parents are alive and older, and no two of
\* them have the same pid.
THEOREM FamilyTreeCorrect == Spec => []FamilyTree
<1>1. PlaceInv => FamilyTree
  BY DEF PlaceInv
<1>2. QED  BY <1>1, PlaceInvariant, PTL

-----------------------------------------------------------------------------
(* The counters of the scheduler *)

\* The processes blocked on kernel semaphores, by the field p_semAdd.
Soft(semAdd) == {p \in Pcb : semAdd[p] \in KernelSem}

-----------------------------------------------------------------------------
(* Counting *)

\* A queue without repetitions is as long as its set of elements is large.
LEMMA LengthCounts ==
  ASSUME NEW S, NEW q \in Seq(S), IsInjective(q)
  PROVE  Cardinality(ToSet(q)) = Len(q)
<1> DEFINE n == Len(q)
           First(k) == {q[j] : j \in 1 .. k}
           Good == {k \in 0 .. n : IsFiniteSet(First(k)) /\ Cardinality(First(k)) = k}
<1>1. n \in Nat /\ DOMAIN q = 1 .. n
  OBVIOUS
<1>2. 0 \in Good
  <2>1. First(0) = {}
    OBVIOUS
  <2>2. IsFiniteSet(First(0)) /\ Cardinality(First(0)) = 0
    BY <2>1, FS_EmptySet
  <2> HIDE DEF First
  <2>3. QED  BY <1>1, <2>2
<1>3. ASSUME NEW k \in 0 .. n - 1, k \in Good PROVE k + 1 \in Good
  <2>1. k + 1 \in 1 .. n /\ k + 1 \in 0 .. n
    BY <1>1
  <2>2. First(k + 1) = First(k) \cup {q[k + 1]}
    <3>1. \A j \in 1 .. k + 1 : j \in 1 .. k \/ j = k + 1
      BY <2>1
    <3>2. \A j \in 1 .. k : j \in 1 .. k + 1
      BY <2>1
    <3>3. k + 1 \in 1 .. k + 1
      BY <2>1
    <3>4. QED  BY <3>1, <3>2, <3>3
  <2>3. q[k + 1] \notin First(k)
    <3>1. \A j \in 1 .. k : j \in DOMAIN q /\ k + 1 \in DOMAIN q /\ j # k + 1
      BY <1>1, <2>1
    <3>2. QED  BY <3>1 DEF IsInjective
  <2>4. IsFiniteSet(First(k)) /\ Cardinality(First(k)) = k
    BY <1>3
  <2> HIDE DEF First
  <2>5. /\ IsFiniteSet(First(k + 1))
        /\ Cardinality(First(k + 1)) = k + 1
    BY <2>2, <2>3, <2>4, FS_AddElement
  <2>6. QED  BY <2>1, <2>5
<1>4. 0 .. n \subseteq Good
  <2> HIDE DEF Good, n
  <2>1. QED  BY <1>1, <1>2, <1>3, Induction
<1>5. Cardinality(First(n)) = n
  <2>1. n \in 0 .. n
    BY <1>1
  <2> HIDE DEF First, n
  <2>2. QED  BY <1>4, <2>1
<1>6. First(n) = ToSet(q)
  BY <1>1 DEF ToSet
<1>7. QED  BY <1>5, <1>6

\* One process more that is soft-blocked.
LEMMA SoftMore ==
  ASSUME NEW semAdd \in [Pcb -> Sem \cup {NULL}], NEW p \in Pcb, semAdd[p] = NULL,
         NEW s \in KernelSem
  PROVE  Cardinality(Soft([semAdd EXCEPT ![p] = s])) = Cardinality(Soft(semAdd)) + 1
<1>1. NULL \notin KernelSem
  BY SemAssumption DEF Sem
<1>2. Soft([semAdd EXCEPT ![p] = s]) = Soft(semAdd) \cup {p} /\ p \notin Soft(semAdd)
  BY <1>1 DEF Soft
<1>3. IsFiniteSet(Soft(semAdd))
  BY PcbFinite DEF Soft
<1>4. QED  BY <1>2, <1>3, FS_AddElement

\* A set of processes that is no longer blocked, on whatever semaphore.
LEMMA SoftLess ==
  ASSUME NEW X \in SUBSET Pcb,
         \A p \in Pcb : p_semAdd'[p] = IF p \in X THEN NULL ELSE p_semAdd[p]
  PROVE  Cardinality(Soft(p_semAdd')) =
            Cardinality(Soft(p_semAdd)) - Cardinality(Soft(p_semAdd) \cap X)
<1>1. NULL \notin KernelSem
  BY SemAssumption DEF Sem
<1>2. Soft(p_semAdd') = Soft(p_semAdd) \ X
  BY <1>1 DEF Soft
<1>3. IsFiniteSet(Soft(p_semAdd))
  BY PcbFinite DEF Soft
<1>4. QED  BY <1>2, <1>3, FS_Difference

\* The counters as a handler that has changed neither leaves them.
LEMMA CountersStay ==
  ASSUME CountersExact, UNCHANGED <<pcbFree, counters>>,
         Cardinality(Soft(p_semAdd')) = Cardinality(Soft(p_semAdd))
  PROVE  CountersExact'
BY DEF CountersExact, counters, Live, Soft

-----------------------------------------------------------------------------
(* The actions *)

\* Init has one process.
LEMMA InitCounters == Init => CountersExact
<1> SUFFICES ASSUME Init PROVE CountersExact  OBVIOUS
<1>1. PICK root \in Pcb : pcbFree = Pcb \ {root}
  BY DEF Init
<1>2. Live = {root}
  BY <1>1 DEF Live
<1>3. {p \in Pcb : p_semAdd[p] \in KernelSem} = {}
  BY SemAssumption DEF Init, Sem
<1>4. QED  BY <1>2, <1>3, FS_Singleton, FS_EmptySet DEF Init, CountersExact

\* A PCB that is allocated is one process more.
LEMMA CreateCounters ==
  ASSUME TypeInv, CountersExact, NEW prio, NEW sup, create_process(prio, sup)
  PROVE  CountersExact'
<1>1. CASE pcbFree = {}
  BY <1>1 DEF create_process, CountersExact, Live, vars, pcbVars, semVars, counters
<1>2. CASE pcbFree # {}
  <2>1. PICK p \in pcbFree : pcbFree' = pcbFree \ {p}
    BY <1>2 DEF create_process
  <2>2. /\ p_semAdd' = p_semAdd /\ soft_block_counter' = soft_block_counter
        /\ process_counter' = process_counter + 1
    BY <1>2 DEF create_process, semVars
  <2>3. Live' = Live \cup {p} /\ p \notin Live /\ Live \in SUBSET Pcb
    BY <2>1 DEF Live, TypeInv, TypeOK
  <2>4. Cardinality(Live') = Cardinality(Live) + 1
    BY <2>3, PcbFinite, FS_AddElement
  <2>5. QED  BY <2>2, <2>4 DEF CountersExact
<1>3. QED  BY <1>1, <1>2

\* subTree_killer counts its victims, and those of them that were soft-blocked.
LEMMA KillCounters ==
  ASSUME TypeInv, PlacedNow, CountersExact, NEW S \in SUBSET Live, subTree_killer(S)
  PROVE  CountersExact'
<1>1. /\ Live' = Live \ S /\ Live \in SUBSET Pcb
      /\ process_counter' = process_counter - Cardinality(S)
      /\ soft_block_counter' = soft_block_counter - Cardinality(SoftVictims(S))
  BY DEF subTree_killer, Live, TypeInv, TypeOK
<1>2. \A p \in Pcb : p_semAdd'[p] = IF p \in S THEN NULL ELSE p_semAdd[p]
  BY DEF subTree_killer
<1>3. Cardinality(Live') = Cardinality(Live) - Cardinality(S)
  <2>1. Live \cap S = S
    OBVIOUS
  <2>2. QED  BY <1>1, <2>1, PcbFinite, FS_Difference
<1>4. SoftVictims(S) = Soft(p_semAdd) \cap S
  <2>1. NULL \notin KernelSem
    BY SemAssumption DEF Sem
  <2>2. current_process # NULL => p_semAdd[current_process] = NULL
    BY DEF PlacedNow, Placed, OnCpu
  <2>3. QED  BY <1>1, <2>1, <2>2, PcbAssumption DEF SoftVictims, Blocked, Soft
<1>5. Cardinality(Soft(p_semAdd')) =
         Cardinality(Soft(p_semAdd)) - Cardinality(SoftVictims(S))
  BY <1>1, <1>2, <1>4, SoftLess
<1>6. QED  BY <1>1, <1>3, <1>5 DEF CountersExact, Soft

\* TERMPROCESS, whoever the victims are.
LEMMA TerminateCounters ==
  ASSUME TypeInv, FamilyTree, PlacedNow, CountersExact, NEW pid \in 0 .. MaxPid,
         terminate_process(pid)
  PROVE  CountersExact'
<1> DEFINE target == IF pid = 0 THEN {current_process} ELSE findByPid(pid)
           S == UNION {Subtree(p) : p \in target}
<1>1. subTree_killer(S) /\ Running
  BY DEF terminate_process
<1>2. \A p \in target : p \in Live
  BY <1>1, PlacedIsOnePlace, TargetLive
<1>3. \A p \in target : Subtree(p) \in SUBSET Live
  BY <1>2, SubtreeLive
<1>4. S \in SUBSET Live
  <2> HIDE DEF target
  <2>1. QED  BY <1>3
<1> HIDE DEF S
<1>5. QED  BY <1>1, <1>4, KillCounters

\* The death of a process without a support structure.
LEMMA PassUpCounters ==
  ASSUME TypeInv, FamilyTree, PlacedNow, CountersExact, passup_or_die
  PROVE  CountersExact'
<1>1. CASE p_supportStruct[current_process] # NULL
  BY <1>1 DEF passup_or_die, CountersExact, Live, vars, pcbVars, semVars, counters
<1>2. CASE p_supportStruct[current_process] = NULL
  <2>1. subTree_killer(Subtree(current_process)) /\ current_process \in Pcb
    BY <1>2 DEF passup_or_die, TypeInv, TypeOK
  <2>2. current_process \in Live
    BY <2>1, PcbAssumption DEF PlacedNow, Placed, OnCpu, Live
  <2>3. Subtree(current_process) \in SUBSET Live
    BY <2>2, SubtreeLive
  <2>4. QED  BY <2>1, <2>3, KillCounters
<1>3. QED  BY <1>1, <1>2

\* The running process is not blocked.
LEMMA RunnerFree ==
  ASSUME TypeInv, PlacedNow, Running
  PROVE  current_process \in Pcb /\ p_semAdd[current_process] = NULL
BY PcbAssumption DEF TypeInv, TypeOK, PlacedNow, Placed, OnCpu

\* A user semaphore is none of the soft-blocked's.
LEMMA PasserenCounters ==
  ASSUME TypeInv, PlacedNow, CountersExact, NEW s \in UserSem, Passeren(s)
  PROVE  CountersExact'
<1>1. UNCHANGED <<pcbFree, counters>> /\ Running
  BY DEF Passeren, pcbVars
<1>2. CASE p_semAdd' = p_semAdd
  BY <1>1, <1>2, CountersStay
<1>3. CASE p_semAdd' = [p_semAdd EXCEPT ![current_process] = s]
  <2>1. s \notin KernelSem /\ NULL \notin KernelSem
    BY SemAssumption DEF Sem
  <2>2. Soft(p_semAdd') = Soft(p_semAdd)
    BY <1>1, <1>3, <2>1, RunnerFree DEF Soft, TypeInv, TypeOK
  <2>3. QED  BY <1>1, <2>2, CountersStay
<1>4. QED  BY <1>2, <1>3 DEF Passeren, BlockOn

\* The process at the head of a queue waits for that semaphore.
LEMMA HeadWaits ==
  ASSUME TypeInv, PlacedNow, NEW s \in Sem, semd_h[s] # <<>>, RemoveBlocked(s)
  PROVE  /\ Head(semd_h[s]) \in Pcb /\ p_semAdd[Head(semd_h[s])] = s
         /\ \A p \in Pcb : p_semAdd'[p] = IF p \in {Head(semd_h[s])} THEN NULL
                                          ELSE p_semAdd[p]
<1>1. Head(semd_h[s]) \in Pcb /\ Head(semd_h[s]) \in ToSet(semd_h[s])
  BY HeadTailFacts DEF TypeInv, TypeOK
<1>2. ToSet(semd_h[s]) = {p \in Pcb \ pcbFree : p_semAdd[p] = s}
  BY DEF PlacedNow, Placed
<1>3. QED  BY <1>1, <1>2 DEF RemoveBlocked, TypeInv, TypeOK

\* VERHOGEN wakes nobody who is soft-blocked.
LEMMA VerhogenCounters ==
  ASSUME TypeInv, PlacedNow, CountersExact, NEW s \in UserSem, Verhogen(s)
  PROVE  CountersExact'
<1>1. UNCHANGED <<pcbFree, counters>> /\ s \in Sem
  BY DEF Verhogen, pcbVars, Sem
<1>2. CASE p_semAdd' = p_semAdd
  BY <1>1, <1>2, CountersStay
<1>3. CASE semd_h[s] # <<>> /\ RemoveBlocked(s)
  <2>1. s \notin KernelSem /\ NULL \notin KernelSem
    BY SemAssumption DEF Sem
  <2>2. Soft(p_semAdd') = Soft(p_semAdd)
    BY <1>1, <1>3, <2>1, HeadWaits DEF Soft
  <2>3. QED  BY <1>1, <2>2, CountersStay
<1>4. QED  BY <1>2, <1>3 DEF Verhogen

\* block_sync adds one if and only if it blocks its caller.
LEMMA BlockSyncCounters ==
  ASSUME TypeInv, PlacedNow, CountersExact, Running, NEW s \in KernelSem, block_sync(s)
  PROVE  CountersExact'
<1>1. /\ pcbFree' = pcbFree /\ process_counter' = process_counter /\ BlockOn(s)
      /\ soft_block_counter' = soft_block_counter + (IF NoDescriptor(s) THEN 0 ELSE 1)
  BY DEF block_sync, pcbVars
<1>2. soft_block_counter \in Int
  BY DEF TypeInv, TypeOK
<1>3. CASE NoDescriptor(s)
  BY <1>1, <1>2, <1>3 DEF BlockOn, CountersExact, Live
<1>4. CASE ~NoDescriptor(s)
  <2>1. p_semAdd' = [p_semAdd EXCEPT ![current_process] = s]
    BY <1>1, <1>4 DEF BlockOn
  <2>2. Cardinality(Soft(p_semAdd')) = Cardinality(Soft(p_semAdd)) + 1
    BY <2>1, RunnerFree, SoftMore DEF TypeInv, TypeOK
  <2>3. QED  BY <1>1, <1>4, <2>2 DEF CountersExact, Live, Soft
<1>5. QED  BY <1>3, <1>4

\* A completion takes one away if and only if it releases a process.
LEMMA DeviceCounters ==
  ASSUME TypeInv, PlacedNow, CountersExact, NEW d \in Device, DeviceInterrupt(d)
  PROVE  CountersExact'
<1>1. /\ pcbFree' = pcbFree /\ process_counter' = process_counter
      /\ d \in Sem /\ d \in KernelSem
  BY DEF DeviceInterrupt, pcbVars, Sem, KernelSem
<1>2. CASE UNCHANGED <<p_semAdd, soft_block_counter>>
  BY <1>1, <1>2 DEF CountersExact, Live
<1>3. CASE /\ semd_h[d] # <<>> /\ RemoveBlocked(d)
           /\ soft_block_counter' = soft_block_counter - 1
  <2> DEFINE h == Head(semd_h[d])
  <2>1. /\ h \in Pcb /\ p_semAdd[h] = d
        /\ \A p \in Pcb : p_semAdd'[p] = IF p \in {h} THEN NULL ELSE p_semAdd[p]
    BY <1>1, <1>3, HeadWaits
  <2> HIDE DEF h
  <2>2. Soft(p_semAdd) \cap {h} = {h}
    BY <1>1, <2>1 DEF Soft
  <2>3. Cardinality(Soft(p_semAdd')) = Cardinality(Soft(p_semAdd)) - Cardinality({h})
    BY <2>1, <2>2, SoftLess
  <2>4. Cardinality({h}) = 1
    BY FS_Singleton
  <2>5. QED  BY <1>1, <1>3, <2>3, <2>4 DEF CountersExact, Live, Soft
<1>4. QED  BY <1>2, <1>3 DEF DeviceInterrupt

\* A tick takes away as many as wait for the clock.
LEMMA IntervalTimerCounters ==
  ASSUME TypeInv, PlacedNow, CountersExact, IntervalTimer
  PROVE  CountersExact'
<1> DEFINE w == semd_h[PseudoClock]
<1>1. /\ pcbFree' = pcbFree /\ process_counter' = process_counter
      /\ soft_block_counter' = soft_block_counter - Len(w)
      /\ PseudoClock \in Sem /\ PseudoClock \in KernelSem
  BY DEF IntervalTimer, unblock_pseudoclock, ClockWaiters, pcbVars, Sem, KernelSem
<1>2. \A p \in Pcb : p_semAdd'[p] = IF p \in ToSet(w) THEN NULL ELSE p_semAdd[p]
  BY DEF IntervalTimer, unblock_pseudoclock, ClockWaiters
<1>3. /\ ToSet(w) = {p \in Pcb \ pcbFree : p_semAdd[p] = PseudoClock}
      /\ IsInjective(w) /\ w \in Seq(Pcb)
  BY <1>1 DEF PlacedNow, Placed, TypeInv, TypeOK
<1> HIDE DEF w
<1>4. ToSet(w) \in SUBSET Pcb /\ Soft(p_semAdd) \cap ToSet(w) = ToSet(w)
  BY <1>1, <1>3 DEF Soft
<1>5. Cardinality(ToSet(w)) = Len(w)
  BY <1>3, LengthCounts
<1>6. Cardinality(Soft(p_semAdd')) = Cardinality(Soft(p_semAdd)) - Len(w)
  BY <1>2, <1>4, <1>5, SoftLess
<1>7. QED  BY <1>1, <1>6 DEF CountersExact, Live, Soft

\* Every step keeps the counters exact.
LEMMA NextCounters ==
  ASSUME PlaceInv, CountersExact, [Next]_vars
  PROVE  CountersExact'
<1>1. TypeInv /\ FamilyTree /\ PlacedNow
  BY DEF PlaceInv
<1>2. ASSUME NEW prio \in Prio, NEW sup \in Supports \cup {NULL},
             create_process(prio, sup)
      PROVE  CountersExact'
  BY <1>1, <1>2, CreateCounters
<1>3. ASSUME NEW pid \in 0 .. MaxPid, terminate_process(pid) PROVE CountersExact'
  BY <1>1, <1>3, TerminateCounters
<1>4. ASSUME NEW s \in UserSem, Passeren(s) \/ Verhogen(s) PROVE CountersExact'
  BY <1>1, <1>4, PasserenCounters, VerhogenCounters
<1>5. ASSUME NEW d \in Device, DoIO(d) PROVE CountersExact'
  BY <1>1, <1>5, BlockSyncCounters DEF DoIO, KernelSem
<1>6. ASSUME NEW d \in Device, DeviceInterrupt(d) PROVE CountersExact'
  BY <1>1, <1>6, DeviceCounters
<1>7. ASSUME WaitForClock PROVE CountersExact'
  BY <1>1, <1>7, BlockSyncCounters DEF WaitForClock, KernelSem
<1>8. ASSUME Yield \/ PLTInterrupt \/ UNCHANGED vars PROVE CountersExact'
  <2>1. UNCHANGED <<pcbVars, semVars, counters>>
    BY <1>8 DEF Yield, PLTInterrupt, vars
  <2>2. QED  BY <2>1 DEF CountersExact, Live, pcbVars, semVars, counters
<1>9. ASSUME passup_or_die PROVE CountersExact'
  BY <1>1, <1>9, PassUpCounters
<1>10. ASSUME IntervalTimer PROVE CountersExact'
  BY <1>1, <1>10, IntervalTimerCounters
<1>11. QED
  BY <1>2, <1>3, <1>4, <1>5, <1>6, <1>7, <1>8, <1>9, <1>10 DEF Next

\* process_counter and soft_block_counter are, whenever a handler ends, the
\* number of processes and the number of those that wait for a device or the
\* clock, however these were created, released and killed.
THEOREM CountersCorrect == Spec => []CountersExact
<1>1. Init => CountersExact
  BY InitCounters
<1>2. PlaceInv /\ CountersExact /\ [Next]_vars => CountersExact'
  BY NextCounters
<1>3. QED  BY <1>1, <1>2, PlaceInvariant, PTL DEF Spec

-----------------------------------------------------------------------------
(* The order of the ready queue *)

SortedReady == Sorted(p_prio, ready_queue)

\* What a step does to the order: nobody in the ready queue is overtaken, and
\* whoever takes over the CPU is outranked by nobody left there, except by the one
\* that has just given it away.
Ordered ==
    /\ Turn(p_prio', ready_queue, ready_queue')
    /\ current_process' \notin {NULL, current_process} =>
          \A q \in ToSet(ready_queue') :
             q = current_process \/ p_prio'[q] <= p_prio'[current_process']

LEMMA PrioType ==
  ASSUME TypeInv
  PROVE  p_prio \in [Pcb -> Int] /\ ready_queue \in Seq(Pcb)
BY NumberAssumption DEF TypeInv, TypeOK

\* The head of a queue in order is dispatched.
LEMMA SchedulerOrder ==
  ASSUME TypeInv', NEW q \in Seq(Pcb), IsInjective(q), Turn(p_prio', ready_queue, q),
         NEW ps, scheduler(ps, q)
  PROVE  Ordered
<1>1. p_prio' \in [Pcb -> Int]
  BY NumberAssumption DEF TypeInv, TypeOK
<1>2. CASE q # <<>> /\ Dispatch(ps, Head(q), Tail(q))
  <2>1. current_process' = Head(q) /\ ready_queue' = Tail(q)
    BY <1>2 DEF Dispatch
  <2>2. /\ Turn(p_prio', ready_queue, Tail(q))
        /\ \A b \in ToSet(Tail(q)) : p_prio'[b] <= p_prio'[Head(q)]
    <3>1. ASSUME NEW prio \in [Pcb -> Int], NEW r, Turn(prio, r, q)
          PROVE  /\ Turn(prio, r, Tail(q))
                 /\ \A b \in ToSet(Tail(q)) : prio[b] <= prio[Head(q)]
      BY <1>2, <3>1, TailTurn
    <3>2. QED  BY <1>1, <3>1
  <2>3. QED  BY <2>1, <2>2 DEF Ordered
<1>3. CASE q = <<>> /\ current_process' = NULL /\ ready_queue' = <<>>
  BY <1>3, EmptyFacts DEF Ordered, Turn, Sorted
<1>4. QED  BY <1>2, <1>3 DEF scheduler

\* The CPU stays with whom it is.
LEMMA StayOrder ==
  ASSUME NEW q, Turn(p_prio', ready_queue, q),
         ready_queue' = q, current_process' = current_process
  PROVE  Ordered
BY DEF Ordered

LEMMA ReturnOrder ==
  ASSUME TypeInv', NEW q \in Seq(Pcb), IsInjective(q), Turn(p_prio', ready_queue, q),
         Return(q)
  PROVE  Ordered
<1>1. CASE current_process # NULL
  BY <1>1, StayOrder DEF Return
<1>2. CASE current_process = NULL
  BY <1>2, SchedulerOrder DEF Return
<1>3. QED  BY <1>1, <1>2

\* With unchanged priorities the queue is in order.
LEMMA ReadyTurn ==
  ASSUME TypeInv, PlacedNow, SortedReady, p_prio' = p_prio
  PROVE  /\ ready_queue \in Seq(Pcb) /\ IsInjective(ready_queue)
         /\ Turn(p_prio', ready_queue, ready_queue)
BY PrioType, SameTurn DEF PlacedNow, Placed, SortedReady

\* So is it with one process more.
LEMMA InsertOrder ==
  ASSUME TypeInv, PlacedNow, SortedReady, p_prio' = p_prio,
         NEW p \in Pcb, p \notin ToSet(ready_queue)
  PROVE  /\ insertProcQ(p_prio, ready_queue, p) \in Seq(Pcb)
         /\ IsInjective(insertProcQ(p_prio, ready_queue, p))
         /\ Turn(p_prio', ready_queue, insertProcQ(p_prio, ready_queue, p))
<1>1. /\ insertProcQ(p_prio, ready_queue, p) \in Seq(Pcb)
      /\ IsInjective(insertProcQ(p_prio, ready_queue, p))
  BY ReadyTurn, insertProcQFacts
<1>2. Turn(p_prio, ready_queue, insertProcQ(p_prio, ready_queue, p))
  BY PrioType, ReadyTurn, InsertTurn
<1>3. QED  BY <1>1, <1>2

\* The running process and those that are blocked or free are not in it.
LEMMA NotReady ==
  ASSUME TypeInv, PlacedNow
  PROVE  /\ current_process \notin ToSet(ready_queue)
         /\ \A p \in pcbFree : p \notin ToSet(ready_queue)
         /\ \A s \in Sem : \A p \in ToSet(semd_h[s]) : p \notin ToSet(ready_queue)
<1>1. ToSet(ready_queue) = {p \in Pcb \ pcbFree : p_semAdd[p] = NULL} \ OnCpu
  BY DEF PlacedNow, Placed
<1>2. \A s \in Sem : \A p \in ToSet(semd_h[s]) : p_semAdd[p] = s
  BY DEF PlacedNow, Placed
<1>3. current_process \notin ToSet(ready_queue)
  BY <1>1, PcbAssumption DEF OnCpu
<1>4. QED  BY <1>1, <1>2, <1>3, SemAssumption

\* A death takes the victims out and leaves the others in their order.
LEMMA KillOrder ==
  ASSUME TypeInv, FamilyTree, PlacedNow, SortedReady,
         NEW S \in SUBSET Live, subTree_killer(S)
  PROVE  /\ OutReady(S) \in Seq(Pcb) /\ IsInjective(OutReady(S))
         /\ current_process \notin ToSet(OutReady(S))
         /\ \A p \in ToSet(OutReady(S)) : p \in Pcb \ S
         /\ \A p \in Pcb \ S : p_prio'[p] = p_prio[p]
         /\ Turn(p_prio, ready_queue, OutReady(S))
<1>1. /\ OutReady(S) \in Seq(Pcb)
      /\ Placed(pcbFree', p_semAdd', semd_h', OutReady(S), OnCpu \ S)
  BY KillPlaces
<1>2. pcbFree' = pcbFree \cup S /\ \A p \in Pcb \ S : p_prio'[p] = p_prio[p]
  BY DEF subTree_killer
<1>3. \A p \in ToSet(OutReady(S)) : p \in Pcb \ S
  BY <1>1, <1>2 DEF Placed
<1>4. Turn(p_prio, ready_queue, OutReady(S))
  BY PrioType, WithoutTurn DEF OutReady, SortedReady
<1>5. current_process \notin ToSet(OutReady(S))
  <2>1. \A p \in ToSet(OutReady(S)) : p \in ToSet(ready_queue)
    BY PrioType, WithoutFacts DEF OutReady
  <2>2. QED  BY <2>1, NotReady
<1>6. QED  BY <1>1, <1>2, <1>3, <1>4, <1>5 DEF Placed

LEMMA CreateOrder ==
  ASSUME TypeInv, TypeInv', PlacedNow, SortedReady,
         NEW prio \in Prio, NEW sup \in Supports \cup {NULL}, create_process(prio, sup)
  PROVE  Ordered
<1>1. CASE pcbFree = {}
  <2>1. UNCHANGED <<p_prio, ready_queue, current_process>>
    BY <1>1 DEF create_process, vars, pcbVars, cpuVars
  <2>2. QED  BY <2>1, ReadyTurn, StayOrder
<1>2. CASE pcbFree # {}
  <2>1. PICK p \in pcbFree : /\ p_prio' = [p_prio EXCEPT ![p] = prio]
                             /\ ready_queue' = insertProcQ(p_prio', ready_queue, p)
    BY <1>2 DEF create_process
  <2>2. current_process' = current_process
    BY <1>2 DEF create_process
  <2>3. p \in Pcb /\ p \notin ToSet(ready_queue) /\ p_prio' \in [Pcb -> Int]
    BY NotReady, NumberAssumption DEF TypeInv, TypeOK
  <2>4. \A q \in ToSet(ready_queue) : p_prio'[q] = p_prio[q]
    <3>1. \A q \in ToSet(ready_queue) : q \in Pcb /\ q # p
      BY <2>3, PrioType DEF ToSet
    <3>2. QED  BY <2>1, <3>1, PrioType
  <2>5. Turn(p_prio', ready_queue, ready_queue)
    <3>1. Turn(p_prio, ready_queue, ready_queue)
      BY SameTurn DEF SortedReady
    <3>2. QED  BY <2>4, <3>1, PrioTurn
  <2>6. Turn(p_prio', ready_queue, insertProcQ(p_prio', ready_queue, p))
    BY <2>3, <2>5, PrioType, InsertTurn
  <2>7. QED  BY <2>1, <2>2, <2>6, StayOrder
<1>3. QED  BY <1>1, <1>2

LEMMA TerminateOrder ==
  ASSUME TypeInv, TypeInv', FamilyTree, PlacedNow, SortedReady,
         NEW pid \in 0 .. MaxPid, terminate_process(pid)
  PROVE  Ordered
<1> DEFINE target == IF pid = 0 THEN {current_process} ELSE findByPid(pid)
           S == UNION {Subtree(p) : p \in target}
           rq == IF current_process \in S THEN OutReady(S)
                 ELSE insertProcQ(p_prio, OutReady(S), current_process)
<1>1. /\ subTree_killer(S) /\ scheduler(Cleared(S), rq) /\ Running
      /\ current_process \in Pcb
  BY RunnerFree DEF terminate_process
<1>2. \A p \in target : p \in Live
  BY <1>1, PlacedIsOnePlace, TargetLive
<1>3. S \in SUBSET Live
  <2>1. \A p \in target : Subtree(p) \in SUBSET Live
    BY <1>2, SubtreeLive
  <2> HIDE DEF target
  <2>2. QED  BY <2>1
<1> HIDE DEF S
<1>4. /\ OutReady(S) \in Seq(Pcb) /\ IsInjective(OutReady(S))
      /\ current_process \notin ToSet(OutReady(S))
      /\ \A p \in ToSet(OutReady(S)) : p \in Pcb \ S
      /\ \A p \in Pcb \ S : p_prio'[p] = p_prio[p]
      /\ Turn(p_prio, ready_queue, OutReady(S))
  BY <1>1, <1>3, KillOrder
<1>5. rq \in Seq(Pcb) /\ IsInjective(rq) /\ Turn(p_prio', ready_queue, rq)
  <2>1. CASE current_process \in S
    <3>1. Turn(p_prio', ready_queue, OutReady(S))
      BY <1>4, PrioTurn
    <3>2. QED  BY <1>4, <2>1, <3>1
  <2>2. CASE current_process \notin S
    <3> DEFINE r == insertProcQ(p_prio, OutReady(S), current_process)
    <3>1. /\ r \in Seq(Pcb) /\ IsInjective(r)
          /\ ToSet(r) = ToSet(OutReady(S)) \cup {current_process}
      <4>1. ASSUME NEW q \in Seq(Pcb), NEW p \in Pcb, IsInjective(q), p \notin ToSet(q)
            PROVE  /\ insertProcQ(p_prio, q, p) \in Seq(Pcb)
                   /\ IsInjective(insertProcQ(p_prio, q, p))
                   /\ ToSet(insertProcQ(p_prio, q, p)) = ToSet(q) \cup {p}
        BY <4>1, insertProcQFacts
      <4>2. QED  BY <1>1, <1>4, <4>1
    <3>2. Turn(p_prio, ready_queue, r)
      BY <1>1, <1>4, PrioType, NotReady, InsertTurn
    <3> HIDE DEF r
    <3>3. Turn(p_prio', ready_queue, r)
      BY <1>1, <1>4, <2>2, <3>1, <3>2, PrioTurn
    <3>4. QED  BY <2>2, <3>1, <3>3 DEF r
  <2>3. QED  BY <2>1, <2>2
<1> HIDE DEF rq
<1>6. QED  BY <1>1, <1>5, SchedulerOrder

LEMMA PassUpOrder ==
  ASSUME TypeInv, TypeInv', FamilyTree, PlacedNow, SortedReady, passup_or_die
  PROVE  Ordered
<1>1. CASE p_supportStruct[current_process] # NULL
  <2>1. UNCHANGED <<p_prio, ready_queue, current_process>>
    BY <1>1 DEF passup_or_die, vars, pcbVars, cpuVars
  <2>2. QED  BY <2>1, ReadyTurn, StayOrder
<1>2. CASE p_supportStruct[current_process] = NULL
  <2> DEFINE S == Subtree(current_process)
  <2>1. subTree_killer(S) /\ scheduler(Cleared(S), OutReady(S)) /\ Running
    BY <1>2 DEF passup_or_die
  <2>2. current_process \in Live
    BY <2>1, RunnerFree, PcbAssumption DEF PlacedNow, Placed, OnCpu, Live
  <2>3. S \in SUBSET Live
    BY <2>2, SubtreeLive
  <2> HIDE DEF S
  <2>4. /\ OutReady(S) \in Seq(Pcb) /\ IsInjective(OutReady(S))
        /\ \A p \in ToSet(OutReady(S)) : p_prio'[p] = p_prio[p]
        /\ Turn(p_prio, ready_queue, OutReady(S))
    BY <2>1, <2>3, KillOrder
  <2>5. Turn(p_prio', ready_queue, OutReady(S))
    BY <2>4, PrioTurn
  <2>6. QED  BY <2>1, <2>4, <2>5, SchedulerOrder
<1>3. QED  BY <1>1, <1>2

LEMMA BlockOnOrder ==
  ASSUME TypeInv, TypeInv', PlacedNow, SortedReady, p_prio' = p_prio,
         NEW s, BlockOn(s)
  PROVE  Ordered
<1>1. CASE UNCHANGED <<current_process, ready_queue>>
  BY <1>1, ReadyTurn, StayOrder
<1>2. CASE scheduler(SaveState, ready_queue)
  BY <1>2, ReadyTurn, SchedulerOrder
<1>3. QED  BY <1>1, <1>2 DEF BlockOn

\* A V, by a process or by a device.
LEMMA WakeOrder ==
  ASSUME TypeInv, PlacedNow, SortedReady, p_prio' = p_prio,
         NEW s \in Sem, semd_h[s] # <<>>
  PROVE  /\ insertProcQ(p_prio, ready_queue, Head(semd_h[s])) \in Seq(Pcb)
         /\ IsInjective(insertProcQ(p_prio, ready_queue, Head(semd_h[s])))
         /\ Turn(p_prio', ready_queue,
                 insertProcQ(p_prio, ready_queue, Head(semd_h[s])))
<1>1. Head(semd_h[s]) \in Pcb /\ Head(semd_h[s]) \in ToSet(semd_h[s])
  BY HeadTailFacts DEF TypeInv, TypeOK
<1>2. Head(semd_h[s]) \notin ToSet(ready_queue)
  BY <1>1, NotReady
<1>3. QED  BY <1>1, <1>2, InsertOrder

LEMMA YieldOrder ==
  ASSUME TypeInv, TypeInv', PlacedNow, SortedReady, Yield
  PROVE  Ordered
<1>1. /\ Running /\ current_process \in Pcb /\ p_prio' = p_prio
      /\ current_process \notin ToSet(ready_queue)
  BY RunnerFree, NotReady DEF Yield, pcbVars
<1>2. CASE ready_queue = <<>>
  <2>1. scheduler(SaveState, insertProcQ(p_prio, ready_queue, current_process))
    BY <1>2 DEF Yield
  <2>2. QED  BY <1>1, <2>1, InsertOrder, SchedulerOrder
<1>3. CASE ready_queue # <<>>
  <2> DEFINE h == Head(ready_queue)
             t == Tail(ready_queue)
             r == insertProcQ(p_prio, t, current_process)
  <2>1. current_process' = h /\ ready_queue' = r
    BY <1>3 DEF Yield, Dispatch
  <2>2. /\ p_prio \in [Pcb -> Int] /\ ready_queue \in Seq(Pcb)
        /\ IsInjective(ready_queue) /\ Turn(p_prio, ready_queue, ready_queue)
    BY <1>1, PrioType, ReadyTurn
  <2>3. t \in Seq(Pcb)
    BY <1>3, <2>2, HeadTailFacts
  <2>4. /\ Turn(p_prio, ready_queue, t)
        /\ \A b \in ToSet(t) : p_prio[b] <= p_prio[h]
    BY <1>3, <2>2, TailTurn
  <2> HIDE DEF h, t
  <2>5. Turn(p_prio, ready_queue, r) /\ ToSet(r) = ToSet(t) \cup {current_process}
    BY <1>1, <2>2, <2>3, <2>4, InsertTurn, insertProcQFacts
  <2> HIDE DEF r
  <2>6. QED  BY <1>1, <2>1, <2>4, <2>5 DEF Ordered
<1>4. QED  BY <1>2, <1>3

LEMMA IntervalTimerOrder ==
  ASSUME TypeInv, TypeInv', PlacedNow, SortedReady, IntervalTimer
  PROVE  Ordered
<1> DEFINE w == semd_h[PseudoClock]
           r == insertAll(p_prio, ready_queue, w)
<1>1. p_prio' = p_prio /\ Return(r)
  BY DEF IntervalTimer, ClockWaiters, pcbVars
<1>2. /\ w \in Seq(Pcb) /\ IsInjective(w) /\ ToSet(w) \cap ToSet(ready_queue) = {}
  BY NotReady DEF TypeInv, TypeOK, PlacedNow, Placed, Sem, KernelSem
<1>3. /\ p_prio \in [Pcb -> Int] /\ ready_queue \in Seq(Pcb)
      /\ IsInjective(ready_queue) /\ Sorted(p_prio, ready_queue)
  BY <1>1, PrioType, ReadyTurn DEF SortedReady
<1> HIDE DEF w
<1>4. r \in Seq(Pcb) /\ IsInjective(r) /\ Turn(p_prio, ready_queue, r)
  BY <1>2, <1>3, insertAllFacts, InsertAllTurn
<1> HIDE DEF r
<1>5. QED  BY <1>1, <1>4, ReturnOrder

\* Every step keeps the order.
LEMMA NextOrder ==
  ASSUME PlaceInv, PlaceInv', SortedReady, [Next]_vars
  PROVE  Ordered
<1>1. TypeInv /\ TypeInv' /\ FamilyTree /\ PlacedNow
  BY DEF PlaceInv
<1>2. ASSUME UNCHANGED vars PROVE Ordered
  BY <1>1, <1>2, ReadyTurn, StayOrder DEF vars, pcbVars, cpuVars
<1>3. ASSUME NEW prio \in Prio, NEW sup \in Supports \cup {NULL},
             create_process(prio, sup)
      PROVE  Ordered
  BY <1>1, <1>3, CreateOrder
<1>4. ASSUME NEW pid \in 0 .. MaxPid, terminate_process(pid) PROVE Ordered
  BY <1>1, <1>4, TerminateOrder
<1>5. ASSUME NEW s \in UserSem, Passeren(s) PROVE Ordered
  <2>1. p_prio' = p_prio
    BY <1>5 DEF Passeren, pcbVars
  <2>2. CASE BlockOn(s)
    BY <1>1, <2>1, <2>2, BlockOnOrder
  <2>3. CASE UNCHANGED cpuVars
    BY <1>1, <2>1, <2>3, ReadyTurn, StayOrder DEF cpuVars
  <2>4. QED  BY <1>5, <2>2, <2>3 DEF Passeren
<1>6. ASSUME NEW s \in UserSem, Verhogen(s) PROVE Ordered
  <2>1. p_prio' = p_prio /\ current_process' = current_process /\ s \in Sem
    BY <1>6 DEF Verhogen, pcbVars, Sem
  <2>2. \/ ready_queue' = ready_queue
        \/ /\ semd_h[s] # <<>>
           /\ ready_queue' = insertProcQ(p_prio, ready_queue, Head(semd_h[s]))
    BY <1>6 DEF Verhogen
  <2>3. QED  BY <1>1, <2>1, <2>2, ReadyTurn, WakeOrder, StayOrder
<1>7. ASSUME NEW d \in Device, DoIO(d) PROVE Ordered
  BY <1>1, <1>7, BlockOnOrder DEF DoIO, block_sync, pcbVars
<1>8. ASSUME NEW d \in Device, DeviceInterrupt(d) PROVE Ordered
  <2>1. p_prio' = p_prio /\ d \in Sem
    BY <1>8 DEF DeviceInterrupt, pcbVars, Sem, KernelSem
  <2>2. \/ Return(ready_queue)
        \/ /\ semd_h[d] # <<>>
           /\ Return(insertProcQ(p_prio, ready_queue, Head(semd_h[d])))
    BY <1>8 DEF DeviceInterrupt
  <2>3. QED  BY <1>1, <2>1, <2>2, ReadyTurn, WakeOrder, ReturnOrder
<1>9. ASSUME WaitForClock PROVE Ordered
  BY <1>1, <1>9, BlockOnOrder DEF WaitForClock, block_sync, pcbVars
<1>10. ASSUME PLTInterrupt PROVE Ordered
  <2>1. /\ p_prio' = p_prio /\ current_process \in Pcb
        /\ current_process \notin ToSet(ready_queue)
        /\ scheduler(SaveState, insertProcQ(p_prio, ready_queue, current_process))
    BY <1>1, <1>10, RunnerFree, NotReady DEF PLTInterrupt, pcbVars
  <2>2. QED  BY <1>1, <2>1, InsertOrder, SchedulerOrder
<1>11. QED
  BY <1>1, <1>2, <1>3, <1>4, <1>5, <1>6, <1>7, <1>8, <1>9, <1>10,
     YieldOrder, PassUpOrder, IntervalTimerOrder
     DEF Next

LEMMA OrderInvariant == Spec => []SortedReady
<1>1. Init => SortedReady
  BY EmptyFacts DEF Init, SortedReady, Sorted
<1>2. PlaceInv /\ PlaceInv' /\ SortedReady /\ [Next]_vars => SortedReady'
  BY NextOrder DEF Ordered, Turn, SortedReady
<1>3. QED  BY <1>1, <1>2, PlaceInvariant, PTL DEF Spec

\* In the ready queue a higher priority is always ahead, and among equals nobody is
\* overtaken, whatever is created, woken, killed, preempted or ticks.
THEOREM TurnTakingCorrect == Spec => TurnTaking
<1> DEFINE Step ==
      \A p, q \in ToSet(ready_queue') :
         \/ p_prio'[p] > p_prio'[q]
         \/ /\ p # q /\ p_prio'[p] = p_prio'[q]
            /\ p \in ToSet(ready_queue)
            /\ q \in ToSet(ready_queue) => Before(ready_queue, p, q)
         => Before(ready_queue', p, q)
<1>1. PlaceInv /\ PlaceInv' /\ SortedReady /\ [Next]_vars => [Step]_vars
  <2> SUFFICES ASSUME PlaceInv, PlaceInv', SortedReady, [Next]_vars PROVE Step
    OBVIOUS
  <2>1. Turn(p_prio', ready_queue, ready_queue')
    BY NextOrder DEF Ordered
  <2>2. p_prio' \in [Pcb -> Int] /\ ready_queue' \in Seq(Pcb)
    BY NumberAssumption DEF PlaceInv, TypeInv, TypeOK
  <2>3. \A p, q \in ToSet(ready_queue') :
           p_prio'[p] > p_prio'[q] => Before(ready_queue', p, q)
    BY <2>1, <2>2, SortedBefore DEF Turn
  <2>4. QED  BY <2>1, <2>3 DEF Turn
<1>2. QED  BY <1>1, PlaceInvariant, OrderInvariant, PTL DEF Spec, TurnTaking

\* Whoever takes over the CPU is outranked by nobody left in the ready queue, except
\* by the process that has just given the CPU away.
THEOREM HighestFirstCorrect == Spec => HighestFirst
<1> DEFINE Step ==
      current_process' \notin {NULL, current_process} =>
         \A q \in ToSet(ready_queue') :
            q = current_process \/ p_prio'[q] <= p_prio'[current_process']
<1>1. PlaceInv /\ PlaceInv' /\ SortedReady /\ [Next]_vars => [Step]_vars
  BY NextOrder DEF Ordered
<1>2. QED  BY <1>1, PlaceInvariant, OrderInvariant, PTL DEF Spec, HighestFirst

-----------------------------------------------------------------------------
\* The processes that wait on s, by the field p_semAdd.
Waiting(semAdd, s) == {p \in Pcb : semAdd[p] = s}

-----------------------------------------------------------------------------
(* Queues and descriptors *)

\* The queue of a semaphore is as long as p_semAdd says.
LEMMA QueueLength ==
  ASSUME NEW free, NEW semAdd, NEW qs \in [Sem -> Seq(Pcb)], NEW rq, NEW out,
         Placed(free, semAdd, qs, rq, out), NEW s \in Sem
  PROVE  /\ Len(qs[s]) = Cardinality(Waiting(semAdd, s))
         /\ IsFiniteSet(Waiting(semAdd, s))
         /\ Len(qs[s]) \in Nat
<1>1. qs[s] \in Seq(Pcb) /\ IsInjective(qs[s])
  BY DEF Placed
<1>2. ToSet(qs[s]) = Waiting(semAdd, s)
  BY SemAssumption DEF Placed, Waiting
<1>3. IsFiniteSet(Waiting(semAdd, s))
  BY PcbFinite DEF Waiting
<1>4. QED  BY <1>1, <1>2, <1>3, LengthCounts

\* While a process runs, fewer semaphores are active than there are PCBs:
\* insertBlocked finds a descriptor for it.
LEMMA Descriptors ==
  ASSUME TypeInv, PlacedNow, Running, NEW s \in Sem
  PROVE  ~NoDescriptor(s)
<1> DEFINE B == {p \in Pcb : p_semAdd[p] # NULL}
           Active == {t \in Sem : semd_h[t] # <<>>}
           f == [p \in B |-> p_semAdd[p]]
<1>1. B \in SUBSET (Pcb \ {current_process}) /\ current_process \in Pcb
  BY RunnerFree
<1>2. \A t \in Sem : /\ semd_h[t] \in Seq(Pcb)
                     /\ ToSet(semd_h[t]) = {p \in Pcb \ pcbFree : p_semAdd[p] = t}
  BY DEF TypeInv, TypeOK, PlacedNow, Placed
<1>3. \A t \in Active : \E p \in B : f[p] = t
  <2> TAKE t \in Active
  <2>1. Head(semd_h[t]) \in Pcb /\ Head(semd_h[t]) \in ToSet(semd_h[t])
    BY <1>2, HeadTailFacts
  <2>2. p_semAdd[Head(semd_h[t])] = t
    BY <1>2, <2>1
  <2>3. QED  BY <2>1, <2>2, SemAssumption
<1>4. \A p \in B : f[p] \in Active
  <2> TAKE p \in B
  <2>1. p_semAdd[p] \in Sem /\ p \notin pcbFree
    BY DEF TypeInv, TypeOK, PlacedNow, Placed
  <2>2. p \in ToSet(semd_h[p_semAdd[p]])
    BY <1>2, <2>1
  <2>3. semd_h[p_semAdd[p]] # <<>>
    BY <2>2, EmptyFacts
  <2>4. QED  BY <2>1, <2>3
<1>5. f \in Surjection(B, Active)
  BY <1>3, <1>4 DEF Surjection
<1>6. IsFiniteSet(B) /\ IsFiniteSet(Pcb \ {current_process})
  BY <1>1, PcbFinite, FS_RemoveElement, FS_Subset
<1>7. IsFiniteSet(Active) /\ Cardinality(Active) <= Cardinality(B)
  <2> HIDE DEF f, B, Active
  <2>1. QED  BY <1>5, <1>6, FS_Surjection
<1>8. Cardinality(B) <= Cardinality(Pcb \ {current_process})
  <2> HIDE DEF B
  <2>1. QED  BY <1>1, <1>6, FS_Subset
<1>9. Cardinality(Pcb \ {current_process}) = Cardinality(Pcb) - 1
  BY <1>1, PcbAssumption, FS_RemoveElement
<1>10. /\ Cardinality(Pcb) \in Nat /\ Cardinality(B) \in Nat
       /\ Cardinality(Active) \in Nat
  BY <1>6, <1>7, PcbAssumption, FS_CardinalityType
<1>11. Cardinality(Active) # Cardinality(Pcb)
  <2> HIDE DEF B, Active
  <2>1. QED  BY <1>7, <1>8, <1>9, <1>10
<1>12. QED  BY <1>11 DEF NoDescriptor, MAXPROC

-----------------------------------------------------------------------------
(* The semaphores *)

\* What the semaphore invariants say of one semaphore, by the length of its queue
\* and its value; a device's also by whether a command is in progress.
UserExact(n, v) == n = IF v < 0 THEN -v ELSE 0
DeviceExact(n, v, b) == v = (IF b THEN -1 ELSE 0) /\ n <= IF b THEN 1 ELSE 0
ClockExact(n, v) == n <= -v

SemInv == UserSemaphores /\ KernelSemaphores

LEMMA KernelParts ==
  KernelSemaphores <=>
    /\ \A d \in Device : DeviceExact(Len(semd_h[d]), semval[d], d \in busy)
    /\ ClockExact(Len(semd_h[PseudoClock]), semval[PseudoClock])
BY DEF KernelSemaphores, DeviceExact, ClockExact

LEMMA SemInvParts ==
  SemInv <=> KernelSemaphores /\ \A s \in UserSem : UserExact(Len(semd_h[s]), semval[s])
BY DEF SemInv, UserSemaphores, UserExact

\* What a step of the nucleus can do to a user semaphore with n waiters and value v:
\* k of them leave, woken or killed; a P waits, or goes on; a V finds nobody to wake.
UserStep(n, v, m, w) ==
    \/ \E k \in Nat : m = n - k /\ w = v + k
    \/ v <= 0 /\ m = n + 1 /\ w = v - 1
    \/ v > 0 /\ m = n /\ w = v - 1
    \/ (v >= 0 \/ n = 0) /\ m = n /\ w = v + 1

\* Such a step keeps a semaphore exact, and keeps it from having a debt that nobody
\* waits for.
LEMMA UserStepFacts ==
  ASSUME NEW n \in Nat, NEW v \in Int, NEW m \in Nat, NEW w \in Int, UserStep(n, v, m, w)
  PROVE  /\ UserExact(n, v) => UserExact(m, w)
         /\ n + v >= 0 => m + w >= 0
<1>1. CASE \E k \in Nat : m = n - k /\ w = v + k
  <2>1. PICK k \in Nat : m = n - k /\ w = v + k
    BY <1>1
  <2>2. QED  BY <2>1 DEF UserExact
<1>2. CASE v <= 0 /\ m = n + 1 /\ w = v - 1
  BY <1>2 DEF UserExact
<1>3. CASE v > 0 /\ m = n /\ w = v - 1
  BY <1>3 DEF UserExact
<1>4. CASE (v >= 0 \/ n = 0) /\ m = n /\ w = v + 1
  BY <1>4 DEF UserExact
<1>5. QED  BY <1>1, <1>2, <1>3, <1>4 DEF UserStep

\* A user semaphore that a step leaves alone, and one that a P is done on.
LEMMA UserStays ==
  ASSUME NEW n \in Nat, NEW v \in Int
  PROVE  /\ UserStep(n, v, n, v)
         /\ v > 0 => UserStep(n, v, n, v - 1)
         /\ v <= 0 => UserStep(n, v, n + 1, v - 1)
<1>1. 0 \in Nat /\ n = n - 0 /\ v = v + 0
  OBVIOUS
<1>2. UserStep(n, v, n, v)
  BY <1>1 DEF UserStep
<1>3. v > 0 => UserStep(n, v, n, v - 1)
  BY DEF UserStep
<1>4. v <= 0 => UserStep(n, v, n + 1, v - 1)
  BY DEF UserStep
<1>5. QED  BY <1>2, <1>3, <1>4

\* What every step does to the semaphores.
SemStep ==
    /\ KernelSemaphores'
    /\ \A s \in UserSem : UserStep(Len(semd_h[s]), semval[s], Len(semd_h'[s]), semval'[s])

\* The three kinds of semaphore are different, and typed.
LEMMA SemKinds ==
  ASSUME TypeInv
  PROVE  /\ \A s \in UserSem : s \in Sem /\ s \notin Device /\ s # PseudoClock
         /\ \A d \in Device : d \in Sem /\ d # PseudoClock
         /\ PseudoClock \in Sem
         /\ \A s \in Sem : /\ semd_h[s] \in Seq(Pcb) /\ semval[s] \in Int
                           /\ Len(semd_h[s]) \in Nat
BY SemAssumption DEF Sem, KernelSem, TypeInv, TypeOK

\* A handler that touches one semaphore, and the command of one device at most.
LEMMA OneTouched ==
  ASSUME TypeInv, KernelSemaphores, NEW x \in Sem,
         \A s \in Sem : s # x => semd_h'[s] = semd_h[s] /\ semval'[s] = semval[s],
         \A d \in Device : d # x => (d \in busy' <=> d \in busy),
         x \in UserSem => UserStep(Len(semd_h[x]), semval[x], Len(semd_h'[x]), semval'[x]),
         x \in Device => DeviceExact(Len(semd_h'[x]), semval'[x], x \in busy'),
         x = PseudoClock => ClockExact(Len(semd_h'[x]), semval'[x])
  PROVE  SemStep
<1>1. \A s \in UserSem : UserStep(Len(semd_h[s]), semval[s], Len(semd_h'[s]), semval'[s])
  BY UserStays, SemKinds
<1>2. \A d \in Device : DeviceExact(Len(semd_h'[d]), semval'[d], d \in busy')
  <2> TAKE d \in Device
  <2>1. CASE d = x
    BY <2>1
  <2>2. CASE d # x
    BY <2>2, KernelParts, SemKinds DEF DeviceExact
  <2>3. QED  BY <2>1, <2>2
<1>3. ClockExact(Len(semd_h'[PseudoClock]), semval'[PseudoClock])
  BY KernelParts, SemKinds
<1>4. KernelSemaphores'
  BY <1>2, <1>3 DEF KernelSemaphores, DeviceExact, ClockExact
<1>5. QED  BY <1>1, <1>4 DEF SemStep

\* subTree_killer takes its victims out of the queues, and corrects the user
\* semaphores by as many; a device's command goes on without its process.
LEMMA KillSemaphores ==
  ASSUME TypeInv, FamilyTree, PlacedNow, KernelSemaphores, NEW S \in SUBSET Live,
         subTree_killer(S)
  PROVE  SemStep
<1>1. /\ Placed(pcbFree, p_semAdd, semd_h, ready_queue, OnCpu)
      /\ Placed(pcbFree', p_semAdd', semd_h', OutReady(S), OnCpu \ S)
  BY KillPlaces DEF PlacedNow
<1>2. /\ \A p \in Pcb : p_semAdd'[p] = IF p \in S THEN NULL ELSE p_semAdd[p]
      /\ \A s \in Sem : semval'[s] = semval[s] + Cardinality(Refund(S, s))
      /\ busy' = busy
      /\ semd_h' = [s \in Sem |-> Without(semd_h[s], Blocked(S))]
  BY DEF subTree_killer
<1>3. semd_h \in [Sem -> Seq(Pcb)] /\ semd_h' \in [Sem -> Seq(Pcb)]
  BY <1>2, WithoutFacts DEF TypeInv, TypeOK
<1>4. \A s \in Sem : /\ Len(semd_h[s]) = Cardinality(Waiting(p_semAdd, s))
                     /\ Len(semd_h'[s]) = Cardinality(Waiting(p_semAdd', s))
                     /\ IsFiniteSet(Waiting(p_semAdd, s))
                     /\ Len(semd_h[s]) \in Nat /\ Len(semd_h'[s]) \in Nat
  BY <1>1, <1>3, QueueLength
<1>5. \A s \in Sem : Waiting(p_semAdd', s) = Waiting(p_semAdd, s) \ S
  BY <1>2, SemAssumption DEF Waiting
<1>6. \A s \in Sem :
         Len(semd_h'[s]) = Len(semd_h[s]) - Cardinality(Waiting(p_semAdd, s) \cap S)
  BY <1>4, <1>5, FS_Difference
<1>7. ASSUME NEW s \in UserSem
      PROVE  UserStep(Len(semd_h[s]), semval[s], Len(semd_h'[s]), semval'[s])
  <2>1. Refund(S, s) = Waiting(p_semAdd, s) \cap S
    <3>1. \A p \in Pcb : p_semAdd[p] = s => p # current_process /\ p_semAdd[p] # NULL
      BY SemKinds, SemAssumption, PcbAssumption DEF PlacedNow, Placed, OnCpu
    <3>2. S \in SUBSET Pcb
      BY DEF Live
    <3>3. QED  BY <3>1, <3>2 DEF Refund, Blocked, Waiting
  <2>2. Len(semd_h'[s]) = Len(semd_h[s]) - Cardinality(Refund(S, s))
    BY <1>6, <2>1, SemKinds
  <2>3. Cardinality(Refund(S, s)) \in Nat
    <3>1. Refund(S, s) \in SUBSET Pcb
      BY <2>1 DEF Waiting
    <3>2. QED  BY <3>1, PcbFinite
  <2>4. semval'[s] = semval[s] + Cardinality(Refund(S, s))
    BY <1>2, SemKinds
  <2>5. QED  BY <2>2, <2>3, <2>4 DEF UserStep
<1>8. \A s \in KernelSem : semval'[s] = semval[s] /\ Len(semd_h'[s]) <= Len(semd_h[s])
  <2> TAKE s \in KernelSem
  <2>1. s \in Sem /\ s \notin UserSem
    BY SemAssumption DEF Sem
  <2>2. Cardinality(Refund(S, s)) = 0
    BY <2>1, FS_EmptySet DEF Refund
  <2>3. Cardinality(Waiting(p_semAdd, s) \cap S) \in Nat
    <3>1. Waiting(p_semAdd, s) \cap S \in SUBSET Pcb
      BY DEF Waiting
    <3>2. QED  BY <3>1, PcbFinite
  <2>4. semval[s] \in Int /\ semval'[s] = semval[s] + Cardinality(Refund(S, s))
    BY <1>2, <2>1, SemKinds
  <2>5. /\ Len(semd_h[s]) \in Nat
        /\ Len(semd_h'[s]) = Len(semd_h[s]) - Cardinality(Waiting(p_semAdd, s) \cap S)
    BY <1>4, <1>6, <2>1
  <2>6. QED  BY <2>2, <2>3, <2>4, <2>5
<1>9. \A d \in Device : DeviceExact(Len(semd_h'[d]), semval'[d], d \in busy')
  <2> TAKE d \in Device
  <2>1. DeviceExact(Len(semd_h[d]), semval[d], d \in busy)
    BY KernelParts
  <2>2. /\ semval'[d] = semval[d] /\ Len(semd_h'[d]) <= Len(semd_h[d])
        /\ (d \in busy' <=> d \in busy)
    BY <1>2, <1>8 DEF KernelSem
  <2>3. Len(semd_h[d]) \in Nat /\ Len(semd_h'[d]) \in Nat
    BY <1>4, SemKinds
  <2>4. QED  BY <2>1, <2>2, <2>3 DEF DeviceExact
<1>10. ClockExact(Len(semd_h'[PseudoClock]), semval'[PseudoClock])
  <2>1. ClockExact(Len(semd_h[PseudoClock]), semval[PseudoClock])
    BY KernelParts
  <2>2. QED  BY <1>4, <1>8, <2>1, SemKinds DEF ClockExact, KernelSem
<1>11. KernelSemaphores'
  BY <1>9, <1>10 DEF KernelSemaphores, DeviceExact, ClockExact
<1>12. QED  BY <1>7, <1>11 DEF SemStep

\* A process that blocks makes the queue of its semaphore one longer.
LEMMA BlockOnLength ==
  ASSUME TypeInv, PlacedNow, Running, NEW s \in Sem, BlockOn(s)
  PROVE  /\ Len(semd_h'[s]) = Len(semd_h[s]) + 1
         /\ \A t \in Sem : t # s => semd_h'[t] = semd_h[t]
<1>1. semd_h' = [semd_h EXCEPT ![s] = Append(semd_h[s], current_process)]
  BY Descriptors DEF BlockOn, Enqueue
<1>2. semd_h \in [Sem -> Seq(Pcb)] /\ current_process \in Pcb
  BY RunnerFree DEF TypeInv, TypeOK
<1>3. Len(Append(semd_h[s], current_process)) = Len(semd_h[s]) + 1
  BY <1>2
<1>4. QED  BY <1>1, <1>2, <1>3

\* A process that is released makes it one shorter.
LEMMA RemoveLength ==
  ASSUME TypeInv, NEW s \in Sem, semd_h[s] # <<>>, RemoveBlocked(s)
  PROVE  /\ Len(semd_h'[s]) = Len(semd_h[s]) - 1
         /\ Len(semd_h[s]) > 0
         /\ \A t \in Sem : t # s => semd_h'[t] = semd_h[t]
<1>1. semd_h \in [Sem -> Seq(Pcb)]
  BY DEF TypeInv, TypeOK
<1>2. Len(Tail(semd_h[s])) = Len(semd_h[s]) - 1 /\ Len(semd_h[s]) > 0
  BY <1>1
<1>3. QED  BY <1>1, <1>2 DEF RemoveBlocked

\* A P waits if and only if the value goes below 0.
LEMMA PasserenSemaphores ==
  ASSUME TypeInv, PlacedNow, KernelSemaphores, NEW s \in UserSem, Passeren(s)
  PROVE  SemStep
<1>1. /\ s \in Sem /\ s \notin Device /\ s # PseudoClock
      /\ semval[s] \in Int /\ Len(semd_h[s]) \in Nat
  BY SemKinds
<1>2. /\ Running /\ busy' = busy
      /\ semval'[s] = semval[s] - 1
      /\ \A t \in Sem : t # s => semval'[t] = semval[t]
  BY <1>1 DEF Passeren, TypeInv, TypeOK
<1>3. /\ \A t \in Sem : t # s => semd_h'[t] = semd_h[t]
      /\ \/ semval[s] > 0 /\ Len(semd_h'[s]) = Len(semd_h[s])
         \/ semval[s] <= 0 /\ Len(semd_h'[s]) = Len(semd_h[s]) + 1
  <2>1. CASE semval[s] - 1 >= 0
    <3>1. semd_h' = semd_h
      BY <2>1 DEF Passeren
    <3>2. semval[s] > 0
      BY <1>1, <2>1
    <3>3. QED  BY <3>1, <3>2
  <2>2. CASE ~(semval[s] - 1 >= 0)
    <3>1. semval[s] <= 0
      BY <1>1, <2>2
    <3>2. BlockOn(s)
      BY <2>2 DEF Passeren
    <3>3. QED  BY <1>1, <1>2, <3>1, <3>2, BlockOnLength
  <2>3. QED  BY <2>1, <2>2
<1>4. UserStep(Len(semd_h[s]), semval[s], Len(semd_h'[s]), semval'[s])
  BY <1>1, <1>2, <1>3, UserStays
<1>5. QED  BY <1>1, <1>2, <1>3, <1>4, OneTouched

\* A V releases a process if one waits and the value does not deny it.
LEMMA VerhogenSemaphores ==
  ASSUME TypeInv, PlacedNow, KernelSemaphores, NEW s \in UserSem, Verhogen(s)
  PROVE  SemStep
<1>1. /\ s \in Sem /\ s \notin Device /\ s # PseudoClock
      /\ semval[s] \in Int /\ semd_h[s] \in Seq(Pcb) /\ Len(semd_h[s]) \in Nat
  BY SemKinds
<1>2. /\ busy' = busy
      /\ semval'[s] = semval[s] + 1
      /\ \A t \in Sem : t # s => semval'[t] = semval[t]
  BY <1>1 DEF Verhogen, TypeInv, TypeOK
<1>3. /\ \A t \in Sem : t # s => semd_h'[t] = semd_h[t]
      /\ \/ Len(semd_h'[s]) = Len(semd_h[s]) - 1
         \/ Len(semd_h'[s]) = Len(semd_h[s]) /\ (semval[s] >= 0 \/ Len(semd_h[s]) = 0)
  <2>1. CASE Wakes(semval[s] + 1) /\ semd_h[s] # <<>>
    BY <1>1, <2>1, RemoveLength DEF Verhogen
  <2>2. CASE ~(Wakes(semval[s] + 1) /\ semd_h[s] # <<>>)
    <3>1. semval[s] >= 0 \/ Len(semd_h[s]) = 0
      <4>1. CASE ~(semval[s] + 1 <= 0)
        BY <4>1, <1>1
      <4>2. CASE semd_h[s] = <<>>
        BY <4>2
      <4>3. QED  BY <2>2, <4>1, <4>2 DEF Wakes
    <3>2. semd_h' = semd_h
      BY <2>2 DEF Verhogen
    <3>3. QED  BY <3>1, <3>2
  <2>3. QED  BY <2>1, <2>2
<1>4. UserStep(Len(semd_h[s]), semval[s], Len(semd_h'[s]), semval'[s])
  <2>1. CASE Len(semd_h'[s]) = Len(semd_h[s]) - 1
    <3>1. 1 \in Nat
      OBVIOUS
    <3>2. QED  BY <1>2, <2>1, <3>1 DEF UserStep
  <2>2. CASE Len(semd_h'[s]) = Len(semd_h[s]) /\ (semval[s] >= 0 \/ Len(semd_h[s]) = 0)
    BY <1>2, <2>2 DEF UserStep
  <2>3. QED  BY <1>3, <2>1, <2>2
<1>5. QED  BY <1>1, <1>2, <1>3, <1>4, OneTouched

\* DOIO finds the semaphore of a device that is not busy at 0, and nobody there.
LEMMA DoIOSemaphores ==
  ASSUME TypeInv, PlacedNow, KernelSemaphores, NEW d \in Device, DoIO(d)
  PROVE  SemStep
<1>1. /\ d \in Sem /\ d \notin UserSem /\ d # PseudoClock
      /\ semval[d] \in Int /\ Len(semd_h[d]) \in Nat
      /\ DeviceExact(Len(semd_h[d]), semval[d], d \in busy)
  BY SemKinds, KernelParts
<1>2. /\ Running /\ d \notin busy /\ busy' = busy \cup {d} /\ BlockOn(d)
      /\ semval'[d] = semval[d] - 1
      /\ \A t \in Sem : t # d => semval'[t] = semval[t]
  BY <1>1 DEF DoIO, block_sync, TypeInv, TypeOK
<1>3. /\ \A t \in Sem : t # d => semd_h'[t] = semd_h[t]
      /\ Len(semd_h'[d]) = Len(semd_h[d]) + 1
  BY <1>1, <1>2, BlockOnLength
<1>4. DeviceExact(Len(semd_h'[d]), semval'[d], d \in busy')
  BY <1>1, <1>2, <1>3 DEF DeviceExact
<1>5. QED  BY <1>1, <1>2, <1>3, <1>4, OneTouched

\* The completion of a command brings its semaphore back to 0, and releases the
\* process that waits, if it is still there.
LEMMA DeviceSemaphores ==
  ASSUME TypeInv, PlacedNow, KernelSemaphores, NEW d \in Device, DeviceInterrupt(d)
  PROVE  SemStep
<1>1. /\ d \in Sem /\ d \notin UserSem /\ d # PseudoClock
      /\ semval[d] \in Int /\ semd_h[d] \in Seq(Pcb) /\ Len(semd_h[d]) \in Nat
      /\ DeviceExact(Len(semd_h[d]), semval[d], d \in busy)
  BY SemKinds, KernelParts
<1>2. /\ d \in busy /\ busy' = busy \ {d}
      /\ semval'[d] = semval[d] + 1
      /\ \A t \in Sem : t # d => semval'[t] = semval[t]
  BY <1>1 DEF DeviceInterrupt, TypeInv, TypeOK
<1>3. semval[d] = -1 /\ Len(semd_h[d]) <= 1
  BY <1>1, <1>2 DEF DeviceExact
<1>4. /\ \A t \in Sem : t # d => semd_h'[t] = semd_h[t]
      /\ Len(semd_h'[d]) = 0
  <2>1. Wakes(semval[d] + 1)
    BY <1>3 DEF Wakes
  <2>2. CASE semd_h[d] # <<>>
    BY <1>1, <1>3, <2>1, <2>2, RemoveLength DEF DeviceInterrupt
  <2>3. CASE semd_h[d] = <<>>
    <3>1. semd_h' = semd_h
      BY <2>3 DEF DeviceInterrupt
    <3>2. QED  BY <1>1, <2>3, <3>1
  <2>4. QED  BY <2>2, <2>3
<1>5. DeviceExact(Len(semd_h'[d]), semval'[d], d \in busy')
  BY <1>2, <1>3, <1>4 DEF DeviceExact
<1>6. QED  BY <1>1, <1>2, <1>4, <1>5, OneTouched

\* One process more that waits for the clock.
LEMMA ClockSemaphores ==
  ASSUME TypeInv, PlacedNow, KernelSemaphores, WaitForClock
  PROVE  SemStep
<1> DEFINE c == PseudoClock
<1>1. /\ c \in Sem /\ c \notin UserSem /\ c \notin Device
      /\ semval[c] \in Int /\ Len(semd_h[c]) \in Nat
      /\ ClockExact(Len(semd_h[c]), semval[c])
  BY SemKinds, KernelParts
<1>2. /\ Running /\ busy' = busy /\ BlockOn(c)
      /\ semval'[c] = semval[c] - 1
      /\ \A t \in Sem : t # c => semval'[t] = semval[t]
  BY <1>1 DEF WaitForClock, block_sync, TypeInv, TypeOK
<1>3. /\ \A t \in Sem : t # c => semd_h'[t] = semd_h[t]
      /\ Len(semd_h'[c]) = Len(semd_h[c]) + 1
  BY <1>1, <1>2, BlockOnLength
<1>4. ClockExact(Len(semd_h'[c]), semval'[c])
  BY <1>1, <1>2, <1>3 DEF ClockExact
<1>5. QED  BY <1>1, <1>2, <1>3, <1>4, OneTouched

\* A tick leaves nobody at the clock.
LEMMA IntervalTimerSemaphores ==
  ASSUME TypeInv, PlacedNow, KernelSemaphores, IntervalTimer
  PROVE  SemStep
<1> DEFINE c == PseudoClock
<1>1. /\ c \in Sem /\ c \notin UserSem /\ c \notin Device
      /\ semd_h[c] \in Seq(Pcb) /\ Len(semd_h[c]) \in Nat
      /\ semd_h \in [Sem -> Seq(Pcb)] /\ semval \in [Sem -> Int]
  BY SemKinds DEF TypeInv, TypeOK
<1>2. /\ busy' = busy
      /\ semval' = [semval EXCEPT ![c] = 0]
      /\ semd_h' = [semd_h EXCEPT ![c] = SubSeq(semd_h[c], Len(semd_h[c]) + 1, Len(semd_h[c]))]
  BY DEF IntervalTimer, unblock_pseudoclock, ClockWaiters
<1>3. Len(SubSeq(semd_h[c], Len(semd_h[c]) + 1, Len(semd_h[c]))) = 0
  BY <1>1
<1>4. ClockExact(Len(semd_h'[c]), semval'[c])
  BY <1>1, <1>2, <1>3 DEF ClockExact
<1>5. \A t \in Sem : t # c => semd_h'[t] = semd_h[t] /\ semval'[t] = semval[t]
  BY <1>1, <1>2
<1>6. QED  BY <1>1, <1>2, <1>4, <1>5, OneTouched

-----------------------------------------------------------------------------
(* The victims of a system call or an exception *)

\* TERMPROCESS kills processes that are alive, and what is below them.
LEMMA TerminateVictims ==
  ASSUME TypeInv, FamilyTree, PlacedNow, NEW pid \in 0 .. MaxPid,
         terminate_process(pid)
  PROVE  \E S \in SUBSET Live :
            subTree_killer(S) /\ \E rq : scheduler(Cleared(S), rq)
<1> DEFINE target == IF pid = 0 THEN {current_process} ELSE findByPid(pid)
           S == UNION {Subtree(p) : p \in target}
           rq == IF current_process \in S THEN OutReady(S)
                 ELSE insertProcQ(p_prio, OutReady(S), current_process)
<1>1. subTree_killer(S) /\ Running /\ scheduler(Cleared(S), rq)
  BY DEF terminate_process
<1>2. \A p \in target : p \in Live
  BY <1>1, PlacedIsOnePlace, TargetLive
<1>3. \A p \in target : Subtree(p) \in SUBSET Live
  BY <1>2, SubtreeLive
<1>4. S \in SUBSET Live
  <2> HIDE DEF target
  <2>1. QED  BY <1>3
<1> HIDE DEF S, rq
<1>5. QED  BY <1>1, <1>4

\* So does the death of a process without a support structure.
LEMMA PassUpVictims ==
  ASSUME TypeInv, FamilyTree, PlacedNow, passup_or_die
  PROVE  \/ UNCHANGED vars
         \/ \E S \in SUBSET Live :
               subTree_killer(S) /\ \E rq : scheduler(Cleared(S), rq)
<1>1. CASE p_supportStruct[current_process] # NULL
  BY <1>1 DEF passup_or_die
<1>2. CASE p_supportStruct[current_process] = NULL
  <2>1. /\ subTree_killer(Subtree(current_process)) /\ Running
        /\ scheduler(Cleared(Subtree(current_process)), OutReady(Subtree(current_process)))
    BY <1>2 DEF passup_or_die
  <2>2. current_process \in Live
    BY <2>1, RunnerFree, PcbAssumption DEF PlacedNow, Placed, OnCpu, Live
  <2>3. Subtree(current_process) \in SUBSET Live
    BY <2>2, SubtreeLive
  <2>4. QED  BY <2>1, <2>3
<1>3. QED  BY <1>1, <1>2

\* The semaphores at the start: device_sem is 0 and nobody waits.
LEMMA InitSemaphores == Init => SemInv
<1> SUFFICES ASSUME Init PROVE SemInv  OBVIOUS
<1>1. \A s \in Sem : Len(semd_h[s]) = 0
  BY DEF Init
<1>2. /\ \A s \in UserSem : s \in Sem /\ semval[s] >= 0 /\ semval[s] \in Int
      /\ \A s \in KernelSem : s \in Sem /\ semval[s] = 0
      /\ busy = {}
  BY NumberAssumption DEF Init, Sem
<1>3. \A s \in UserSem : ~(semval[s] < 0) /\ Len(semd_h[s]) = 0
  BY <1>1, <1>2
<1>4. /\ \A d \in Device : Len(semd_h[d]) = 0 /\ semval[d] = 0
      /\ Len(semd_h[PseudoClock]) = 0 /\ semval[PseudoClock] = 0
  BY <1>1, <1>2 DEF KernelSem
<1>5. QED  BY <1>2, <1>3, <1>4 DEF SemInv, UserSemaphores, KernelSemaphores

\* Every step keeps the devices' semaphores and the clock's, and does one of those
\* things to a user semaphore.
LEMMA SemSteps ==
  ASSUME PlaceInv, KernelSemaphores, [Next]_vars
  PROVE  SemStep
<1>1. TypeInv /\ FamilyTree /\ PlacedNow
  BY DEF PlaceInv
<1>2. ASSUME UNCHANGED <<semd_h, semval, busy>> PROVE SemStep
  <2>1. KernelSemaphores'
    BY <1>2 DEF KernelSemaphores
  <2>2. QED  BY <1>1, <1>2, <2>1, UserStays, SemKinds DEF SemStep
<1>3. ASSUME NEW S \in SUBSET Live, subTree_killer(S) PROVE SemStep
  BY <1>1, <1>3, KillSemaphores
<1>4. ASSUME NEW prio \in Prio, NEW sup \in Supports \cup {NULL},
             create_process(prio, sup)
      PROVE  SemStep
  BY <1>2, <1>4 DEF create_process, vars, semVars
<1>5. ASSUME NEW pid \in 0 .. MaxPid, terminate_process(pid) PROVE SemStep
  BY <1>1, <1>3, <1>5, TerminateVictims
<1>6. ASSUME NEW s \in UserSem, Passeren(s) \/ Verhogen(s) PROVE SemStep
  BY <1>1, <1>6, PasserenSemaphores, VerhogenSemaphores
<1>7. ASSUME NEW d \in Device, DoIO(d) \/ DeviceInterrupt(d) PROVE SemStep
  BY <1>1, <1>7, DoIOSemaphores, DeviceSemaphores
<1>8. ASSUME WaitForClock PROVE SemStep
  BY <1>1, <1>8, ClockSemaphores
<1>9. ASSUME Yield \/ PLTInterrupt \/ UNCHANGED vars PROVE SemStep
  BY <1>2, <1>9 DEF Yield, PLTInterrupt, vars, semVars
<1>10. ASSUME passup_or_die PROVE SemStep
  BY <1>1, <1>2, <1>3, <1>10, PassUpVictims DEF vars, semVars
<1>11. ASSUME IntervalTimer PROVE SemStep
  BY <1>1, <1>11, IntervalTimerSemaphores
<1>12. QED
  BY <1>4, <1>5, <1>6, <1>7, <1>8, <1>9, <1>10, <1>11 DEF Next

\* Every step keeps the semaphores exact.
LEMMA NextSemaphores ==
  ASSUME PlaceInv, PlaceInv', SemInv, [Next]_vars
  PROVE  SemInv'
<1>1. SemStep
  BY SemSteps DEF SemInv
<1>2. ASSUME NEW s \in UserSem PROVE UserExact(Len(semd_h'[s]), semval'[s])
  <2>1. UserExact(Len(semd_h[s]), semval[s])
    BY SemInvParts
  <2>2. /\ Len(semd_h[s]) \in Nat /\ semval[s] \in Int
        /\ Len(semd_h'[s]) \in Nat /\ semval'[s] \in Int
    BY DEF PlaceInv, TypeInv, TypeOK, Sem
  <2>3. UserStep(Len(semd_h[s]), semval[s], Len(semd_h'[s]), semval'[s])
    BY <1>1 DEF SemStep
  <2>4. QED  BY <2>1, <2>2, <2>3, UserStepFacts
<1>3. QED  BY <1>1, <1>2 DEF SemStep, SemInv, UserSemaphores, UserExact

LEMMA SemInvariant == Spec => []SemInv
<1>1. Init => SemInv
  BY InitSemaphores
<1>2. PlaceInv /\ PlaceInv' /\ SemInv /\ [Next]_vars => SemInv'
  BY NextSemaphores
<1>3. QED  BY <1>1, <1>2, PlaceInvariant, PTL DEF Spec

\* A negative user semaphore counts its waiters and any other has none, whatever
\* happened to those who waited: a P and a V never lose or invent a process, and
\* subTree_killer gives back exactly what its victims had taken.
THEOREM UserSemaphoresCorrect == Spec => []UserSemaphores
<1>1. SemInv => UserSemaphores
  BY DEF SemInv
<1>2. QED  BY <1>1, SemInvariant, PTL

\* The semaphore of a device is -1 while a command is in progress and 0
\* otherwise, with at most one process, also when that process was killed; the
\* clock's never hides a waiter.
THEOREM KernelSemaphoresCorrect == Spec => []KernelSemaphores
<1>1. SemInv => KernelSemaphores
  BY DEF SemInv
<1>2. QED  BY <1>1, SemInvariant, PTL

-----------------------------------------------------------------------------
(* The saved states of blocked processes *)

\* The process that the scheduler dispatches is not blocked.
LEMMA SchedulerSaves ==
  ASSUME TypeInv', PlacedNow', NEW ps \in [Pcb -> {"saved", "stale", "zero"}],
         NEW rq, scheduler(ps, rq),
         \A p \in Pcb : p_semAdd'[p] # NULL => ps[p] = "saved"
  PROVE  BlockedSaved'
<1>1. CASE Dispatch(ps, Head(rq), Tail(rq))
  <2>1. /\ current_process' = Head(rq) /\ cpu' = "run"
        /\ p_s' = [ps EXCEPT ![Head(rq)] = "stale"]
    BY <1>1 DEF Dispatch
  <2>2. Head(rq) # NULL /\ Head(rq) \in Pcb
    BY <2>1 DEF TypeInv, TypeOK, Running
  <2>3. p_semAdd'[Head(rq)] = NULL
    BY <2>1, <2>2 DEF PlacedNow, Placed, OnCpu
  <2>4. QED  BY <2>1, <2>2, <2>3 DEF BlockedSaved
<1>2. CASE p_s' = ps
  BY <1>2 DEF BlockedSaved
<1>3. QED  BY <1>1, <1>2 DEF scheduler

\* The victims of subTree_killer wait no more.
LEMMA KillSaves ==
  ASSUME TypeInv, TypeInv', PlacedNow', BlockedSaved, NEW S, subTree_killer(S),
         NEW rq, scheduler(Cleared(S), rq)
  PROVE  BlockedSaved'
<1>1. Cleared(S) \in [Pcb -> {"saved", "stale", "zero"}]
  BY DEF Cleared, TypeInv, TypeOK
<1>2. \A p \in Pcb : p_semAdd'[p] # NULL => Cleared(S)[p] = "saved"
  BY DEF Cleared, subTree_killer, BlockedSaved
<1>3. QED  BY <1>1, <1>2, SchedulerSaves

\* Only BlockOn makes a process wait, and it saves its state before.
LEMMA BlockOnSaves ==
  ASSUME TypeInv, PlacedNow, Running, TypeInv', PlacedNow', BlockedSaved,
         NEW s \in Sem, BlockOn(s)
  PROVE  BlockedSaved'
<1>1. /\ p_semAdd' = [p_semAdd EXCEPT ![current_process] = s]
      /\ scheduler(SaveState, ready_queue)
  BY Descriptors DEF BlockOn
<1>2. /\ SaveState \in [Pcb -> {"saved", "stale", "zero"}]
      /\ SaveState[current_process] = "saved"
      /\ \A p \in Pcb : p # current_process => SaveState[p] = p_s[p]
  BY RunnerFree DEF SaveState, TypeInv, TypeOK
<1>3. \A p \in Pcb : p_semAdd'[p] # NULL => SaveState[p] = "saved"
  BY <1>1, <1>2 DEF BlockedSaved, TypeInv, TypeOK
<1>4. QED  BY <1>1, <1>2, <1>3, SchedulerSaves

\* An interrupt blocks nobody.
LEMMA ReturnSaves ==
  ASSUME TypeInv, TypeInv', PlacedNow', BlockedSaved, NEW rq, Return(rq),
         \A p \in Pcb : p_semAdd'[p] # NULL => p_semAdd[p] # NULL
  PROVE  BlockedSaved'
<1>1. \A p \in Pcb : p_semAdd'[p] # NULL => p_s[p] = "saved"
  BY DEF BlockedSaved
<1>2. CASE p_s' = p_s
  BY <1>1, <1>2 DEF BlockedSaved
<1>3. CASE scheduler(p_s, rq)
  BY <1>1, <1>3, SchedulerSaves DEF TypeInv, TypeOK
<1>4. QED  BY <1>2, <1>3 DEF Return

\* Who is released waits no more, and nobody else is touched.
LEMMA RemoveSaves ==
  ASSUME TypeInv, NEW s, RemoveBlocked(s)
  PROVE  \A p \in Pcb : p_semAdd'[p] # NULL => p_semAdd[p] # NULL
BY DEF RemoveBlocked, TypeInv, TypeOK

\* The end of a slice and Yield both save the state and enter the scheduler: what
\* Yield dispatches would have been the head of the queue.
LEMMA GiveSchedules ==
  ASSUME TypeInv, PlacedNow, Yield \/ PLTInterrupt
  PROVE  \E rq : scheduler(SaveState, rq)
<1>1. CASE PLTInterrupt
  BY <1>1 DEF PLTInterrupt
<1>2. CASE Yield
  <2> DEFINE rest == insertProcQ(p_prio, Tail(ready_queue), current_process)
             q == <<Head(ready_queue)>> \o rest
  <2>1. CASE ready_queue = <<>>
    BY <1>2, <2>1 DEF Yield
  <2>2. CASE ready_queue # <<>> /\ Dispatch(SaveState, Head(ready_queue), rest)
    <3>1. ready_queue \in Seq(Pcb) /\ current_process \in Pcb
      BY <1>2, RunnerFree DEF Yield, TypeInv, TypeOK
    <3>2. Head(ready_queue) \in Pcb /\ rest \in Seq(Pcb)
      BY <2>2, <3>1, HeadTailFacts, insertProcQFacts
    <3> HIDE DEF rest
    <3>3. q # <<>> /\ Head(q) = Head(ready_queue) /\ Tail(q) = rest
      BY <3>2
    <3> HIDE DEF q
    <3>4. scheduler(SaveState, q)
      BY <2>2, <3>3 DEF scheduler
    <3>5. QED  BY <3>4
  <2>3. QED  BY <1>2, <2>1, <2>2 DEF Yield
<1>3. QED  BY <1>1, <1>2

\* Every step keeps the states of the blocked processes.
LEMMA NextSaves ==
  ASSUME PlaceInv, PlaceInv', BlockedSaved, [Next]_vars
  PROVE  BlockedSaved'
<1>1. /\ TypeInv /\ FamilyTree /\ PlacedNow
      /\ TypeInv' /\ PlacedNow'
  BY DEF PlaceInv
<1>2. ASSUME UNCHANGED <<p_semAdd, p_s>> PROVE BlockedSaved'
  BY <1>2 DEF BlockedSaved
<1>3. ASSUME NEW S \in SUBSET Live, subTree_killer(S),
             NEW rq, scheduler(Cleared(S), rq)
      PROVE  BlockedSaved'
  BY <1>1, <1>3, KillSaves
<1>4. ASSUME NEW prio \in Prio, NEW sup \in Supports \cup {NULL},
             create_process(prio, sup)
      PROVE  BlockedSaved'
  <2>1. CASE pcbFree = {}
    BY <1>2, <1>4, <2>1 DEF create_process, vars, semVars, cpuVars
  <2>2. CASE pcbFree # {}
    BY <1>1, <1>4, <2>2 DEF create_process, semVars, BlockedSaved, TypeInv, TypeOK
  <2>3. QED  BY <2>1, <2>2
<1>5. ASSUME NEW pid \in 0 .. MaxPid, terminate_process(pid) PROVE BlockedSaved'
  BY <1>1, <1>3, <1>5, TerminateVictims
<1>6. ASSUME NEW s \in UserSem, Passeren(s) PROVE BlockedSaved'
  <2>1. s \in Sem /\ Running
    BY <1>6 DEF Passeren, Sem
  <2>2. CASE BlockOn(s)
    BY <1>1, <2>1, <2>2, BlockOnSaves
  <2>3. CASE UNCHANGED <<p_semAdd, semd_h, cpuVars>>
    BY <1>2, <2>3 DEF cpuVars
  <2>4. QED  BY <1>6, <2>2, <2>3 DEF Passeren
<1>7. ASSUME NEW s \in UserSem, Verhogen(s) PROVE BlockedSaved'
  <2>1. \A p \in Pcb : p_semAdd'[p] # NULL => p_semAdd[p] # NULL
    BY <1>1, <1>7, RemoveSaves DEF Verhogen
  <2>2. QED  BY <1>7, <2>1 DEF Verhogen, BlockedSaved
<1>8. ASSUME NEW d \in Device, DoIO(d) PROVE BlockedSaved'
  BY <1>1, <1>8, BlockOnSaves DEF DoIO, block_sync, Sem, KernelSem
<1>9. ASSUME NEW d \in Device, DeviceInterrupt(d) PROVE BlockedSaved'
  <2>1. \A p \in Pcb : p_semAdd'[p] # NULL => p_semAdd[p] # NULL
    BY <1>1, <1>9, RemoveSaves DEF DeviceInterrupt
  <2>2. \E rq : Return(rq)
    BY <1>9 DEF DeviceInterrupt
  <2>3. QED  BY <1>1, <2>1, <2>2, ReturnSaves
<1>10. ASSUME WaitForClock PROVE BlockedSaved'
  BY <1>1, <1>10, BlockOnSaves DEF WaitForClock, block_sync, Sem, KernelSem
<1>11. ASSUME Yield \/ PLTInterrupt PROVE BlockedSaved'
  <2>1. Running /\ p_semAdd' = p_semAdd
    BY <1>11 DEF Yield, PLTInterrupt, semVars
  <2>2. /\ SaveState \in [Pcb -> {"saved", "stale", "zero"}]
        /\ \A p \in Pcb : p_semAdd'[p] # NULL => SaveState[p] = "saved"
    BY <1>1, <2>1, RunnerFree DEF SaveState, BlockedSaved, TypeInv, TypeOK
  <2>3. \E rq : scheduler(SaveState, rq)
    BY <1>1, <1>11, GiveSchedules
  <2>4. QED  BY <1>1, <2>2, <2>3, SchedulerSaves
<1>12. ASSUME passup_or_die PROVE BlockedSaved'
  BY <1>1, <1>2, <1>3, <1>12, PassUpVictims DEF vars, semVars, cpuVars
<1>13. ASSUME IntervalTimer PROVE BlockedSaved'
  <2>1. \A p \in Pcb : p_semAdd'[p] # NULL => p_semAdd[p] # NULL
    BY <1>13 DEF IntervalTimer, unblock_pseudoclock
  <2>2. \E rq : Return(rq)
    BY <1>13 DEF IntervalTimer
  <2>3. QED  BY <1>1, <2>1, <2>2, ReturnSaves
<1>14. ASSUME UNCHANGED vars PROVE BlockedSaved'
  BY <1>2, <1>14 DEF vars, semVars, cpuVars
<1>15. QED
  BY <1>4, <1>5, <1>6, <1>7, <1>8, <1>9, <1>10, <1>11, <1>12, <1>13, <1>14 DEF Next

\* What a process blocked on a semaphore has in its PCB is the state in which it
\* made the blocking call, whoever runs, dies or is dispatched in the meantime.
THEOREM BlockedSavedCorrect == Spec => []BlockedSaved
<1>1. Init => BlockedSaved
  BY DEF Init, BlockedSaved
<1>2. PlaceInv /\ PlaceInv' /\ BlockedSaved /\ [Next]_vars => BlockedSaved'
  BY NextSaves
<1>3. QED  BY <1>1, <1>2, PlaceInvariant, PTL DEF Spec

-----------------------------------------------------------------------------
(* The saved states of ready processes *)

\* What UnsavedSurvived says of one step.
UnsavedStep ==
    \A p \in ToSet(ready_queue') :
       \/ p_s'[p] = "saved"
       \/ p \in ToSet(ready_queue) /\ p_s[p] # "saved"
       \/ p = current_process /\ Survives

\* A step after which nobody is ready with a state other than the one in which it
\* lost the CPU who was not before.
SavedStep ==
    \A p \in ToSet(ready_queue') :
       \/ p_s'[p] = "saved"
       \/ p \in ToSet(ready_queue) /\ p_s[p] # "saved"

\* A process other than the one that is dispatched has what the scheduler is given.
LEMMA SchedulerLeaves ==
  ASSUME TypeInv', PlacedNow', NEW ps \in [Pcb -> {"saved", "stale", "zero"}],
         NEW rq, scheduler(ps, rq)
  PROVE  \A p \in ToSet(ready_queue') : p_s'[p] = ps[p]
<1>1. CASE Dispatch(ps, Head(rq), Tail(rq))
  <2>1. /\ current_process' = Head(rq) /\ cpu' = "run"
        /\ p_s' = [ps EXCEPT ![Head(rq)] = "stale"]
    BY <1>1 DEF Dispatch
  <2>2. Head(rq) # NULL
    BY <2>1 DEF TypeInv, Running
  <2>3. \A p \in ToSet(ready_queue') : p \in Pcb /\ p # Head(rq)
    BY <2>1, <2>2 DEF PlacedNow, Placed, OnCpu
  <2>4. QED  BY <2>1, <2>3
<1>2. CASE p_s' = ps
  BY <1>2
<1>3. QED  BY <1>1, <1>2 DEF scheduler

\* A step that creates nobody, and keeps the states of all that stay or become ready.
LEMMA OthersSaved ==
  ASSUME TypeInv, PlacedNow, TypeInv', PlacedNow', BlockedSaved,
         pcbFree \subseteq pcbFree',
         \A p \in ToSet(ready_queue') : p # current_process => p_s'[p] \in {"saved", p_s[p]},
         NEW p \in ToSet(ready_queue'), p # current_process, p_s'[p] # "saved"
  PROVE  p \in ToSet(ready_queue) /\ p_s[p] # "saved"
<1>1. p \in Pcb /\ p_s[p] # "saved"
  BY DEF PlacedNow, Placed
<1>2. p \notin pcbFree /\ p \notin pcbFree'
  BY DEF PlacedNow, Placed
<1>3. p_semAdd[p] = NULL
  BY <1>1 DEF BlockedSaved
<1>4. QED  BY <1>1, <1>2, <1>3 DEF PlacedNow, Placed, OnCpu

\* The running process saves its state or does not become ready.
LEMMA LeavesSaved ==
  ASSUME TypeInv, PlacedNow, TypeInv', PlacedNow', BlockedSaved,
         pcbFree \subseteq pcbFree',
         \A p \in ToSet(ready_queue') : p # current_process => p_s'[p] \in {"saved", p_s[p]},
         current_process \in ToSet(ready_queue') => p_s'[current_process] = "saved"
  PROVE  SavedStep
BY OthersSaved DEF SavedStep

\* Who stays keeps its state when others are killed.
LEMMA KillKeeps ==
  ASSUME TypeInv, PlacedNow, TypeInv', PlacedNow', BlockedSaved,
         NEW S \in SUBSET Live, subTree_killer(S), NEW rq, scheduler(Cleared(S), rq)
  PROVE  /\ pcbFree \subseteq pcbFree'
         /\ \A p \in ToSet(ready_queue') : p \notin S /\ p_s'[p] = p_s[p]
<1>1. Cleared(S) \in [Pcb -> {"saved", "stale", "zero"}]
  BY DEF Cleared, TypeInv, TypeOK
<1>2. pcbFree' = pcbFree \cup S
  BY DEF subTree_killer
<1>3. \A p \in ToSet(ready_queue') : p \in Pcb /\ p \notin S
  BY <1>2 DEF PlacedNow, Placed
<1>4. \A p \in ToSet(ready_queue') : p_s'[p] = p_s[p]
  <2>1. \A p \in ToSet(ready_queue') : p_s'[p] = Cleared(S)[p]
    BY <1>1, SchedulerLeaves
  <2>2. QED  BY <1>3, <2>1 DEF Cleared
<1>5. QED  BY <1>2, <1>3, <1>4

\* A caller that dies with its victims leaves nobody behind with a state that is not
\* its own.
LEMMA KillSaved ==
  ASSUME TypeInv, PlacedNow, TypeInv', PlacedNow', BlockedSaved,
         NEW S \in SUBSET Live, subTree_killer(S), NEW rq, scheduler(Cleared(S), rq),
         current_process \in S
  PROVE  SavedStep
BY KillKeeps, LeavesSaved

\* A caller that outlives them is the exception.
LEMMA KillSurvived ==
  ASSUME TypeInv, PlacedNow, TypeInv', PlacedNow', BlockedSaved,
         NEW S \in SUBSET Live, subTree_killer(S), NEW rq, scheduler(Cleared(S), rq),
         Survives
  PROVE  UnsavedStep
BY KillKeeps, OthersSaved DEF UnsavedStep

\* The process that blocks is not ready.
LEMMA BlockOnSaved ==
  ASSUME TypeInv, PlacedNow, Running, TypeInv', PlacedNow', BlockedSaved, pcbFree' = pcbFree,
         NEW s \in Sem, BlockOn(s)
  PROVE  SavedStep
<1>1. /\ p_semAdd' = [p_semAdd EXCEPT ![current_process] = s]
      /\ scheduler(SaveState, ready_queue)
  BY Descriptors DEF BlockOn
<1>2. /\ SaveState \in [Pcb -> {"saved", "stale", "zero"}]
      /\ \A p \in Pcb : p # current_process => SaveState[p] = p_s[p]
      /\ SaveState[current_process] = "saved"
  BY RunnerFree DEF SaveState, TypeInv, TypeOK
<1>3. \A p \in ToSet(ready_queue') : p \in Pcb /\ p_s'[p] = SaveState[p]
  <2>1. \A p \in ToSet(ready_queue') : p_s'[p] = SaveState[p]
    BY <1>1, <1>2, SchedulerLeaves
  <2>2. QED  BY <2>1 DEF PlacedNow, Placed
<1>4. QED  BY <1>2, <1>3, LeavesSaved

\* An interrupt leaves the running process where it is.
LEMMA ReturnSaved ==
  ASSUME TypeInv, PlacedNow, TypeInv', PlacedNow', BlockedSaved, pcbFree' = pcbFree,
         NEW rq, Return(rq)
  PROVE  SavedStep
<1>1. \A p \in ToSet(ready_queue') : p_s'[p] = p_s[p]
  <2>1. CASE p_s' = p_s
    BY <2>1
  <2>2. CASE scheduler(p_s, rq)
    BY <2>2, SchedulerLeaves DEF TypeInv, TypeOK
  <2>3. QED  BY <2>1, <2>2 DEF Return
<1>2. current_process \notin ToSet(ready_queue')
  <2>1. CASE current_process = NULL
    BY <2>1, PcbAssumption DEF PlacedNow, Placed
  <2>2. CASE current_process # NULL /\ current_process' = current_process
    BY <2>2 DEF PlacedNow, Placed, OnCpu
  <2>3. QED  BY <2>1, <2>2 DEF Return
<1>3. QED  BY <1>1, <1>2, LeavesSaved

\* A step that leaves the CPU alone.
LEMMA StaySaved ==
  ASSUME TypeInv, PlacedNow, TypeInv', PlacedNow', BlockedSaved, pcbFree' = pcbFree,
         UNCHANGED <<p_s, current_process>>
  PROVE  SavedStep
<1>1. current_process \notin ToSet(ready_queue')
  BY PcbAssumption DEF PlacedNow, Placed, OnCpu
<1>2. QED  BY <1>1, LeavesSaved

\* The new process starts with the state that its creator has given it.
LEMMA CreateSaved ==
  ASSUME TypeInv, PlacedNow, TypeInv', PlacedNow', BlockedSaved,
         NEW prio \in Prio, NEW sup \in Supports \cup {NULL}, create_process(prio, sup)
  PROVE  SavedStep
<1>1. CASE pcbFree = {}
  BY <1>1, StaySaved DEF create_process, vars, cpuVars, pcbVars
<1>2. CASE pcbFree # {}
  <2>1. PICK n \in pcbFree : /\ p_s' = [p_s EXCEPT ![n] = "saved"]
                             /\ pcbFree' = pcbFree \ {n}
    BY <1>2 DEF create_process
  <2>2. p_semAdd' = p_semAdd /\ current_process' = current_process
    BY <1>2 DEF create_process, semVars
  <2>3. SUFFICES ASSUME NEW p \in ToSet(ready_queue'), p_s'[p] # "saved"
                 PROVE  p \in ToSet(ready_queue) /\ p_s[p] # "saved"
    BY DEF SavedStep
  <2>4. p \in Pcb /\ p # n /\ p_s[p] # "saved"
    BY <2>1, <2>3 DEF PlacedNow, Placed, TypeInv, TypeOK
  <2>5. p \notin pcbFree /\ p_semAdd[p] = NULL /\ p \notin OnCpu
    BY <2>1, <2>2, <2>3, <2>4 DEF PlacedNow, Placed, OnCpu
  <2>6. QED  BY <2>4, <2>5 DEF PlacedNow, Placed
<1>3. QED  BY <1>1, <1>2

\* The caller of TERMPROCESS dies ...
LEMMA TerminateSaved ==
  ASSUME TypeInv, FamilyTree, PlacedNow, TypeInv', PlacedNow', BlockedSaved,
         NEW pid \in 0 .. MaxPid, terminate_process(pid), current_process \in pcbFree'
  PROVE  SavedStep
<1>1. PICK S \in SUBSET Live : subTree_killer(S) /\ \E rq : scheduler(Cleared(S), rq)
  BY TerminateVictims
<1>2. Running
  BY DEF terminate_process
<1>3. current_process \notin pcbFree
  BY <1>2, RunnerFree, PcbAssumption DEF PlacedNow, Placed, OnCpu
<1>4. current_process \in S
  BY <1>1, <1>3 DEF subTree_killer
<1>5. QED  BY <1>1, <1>4, KillSaved

\* ... or survives.
LEMMA TerminateUnsaved ==
  ASSUME TypeInv, FamilyTree, PlacedNow, TypeInv', PlacedNow', BlockedSaved,
         NEW pid \in 0 .. MaxPid, terminate_process(pid)
  PROVE  UnsavedStep
<1>1. CASE Survives
  BY <1>1, TerminateVictims, KillSurvived
<1>2. CASE ~Survives
  <2>1. current_process \in pcbFree'
    BY <1>2 DEF Survives
  <2>2. QED  BY <2>1, TerminateSaved DEF SavedStep, UnsavedStep
<1>3. QED  BY <1>1, <1>2

\* Who has no support structure dies of the exception.
LEMMA PassUpSaved ==
  ASSUME TypeInv, FamilyTree, PlacedNow, TypeInv', PlacedNow', BlockedSaved, passup_or_die
  PROVE  SavedStep
<1>1. CASE p_supportStruct[current_process] # NULL
  BY <1>1, StaySaved DEF passup_or_die, vars, cpuVars, pcbVars
<1>2. CASE p_supportStruct[current_process] = NULL
  <2>1. PICK S : /\ S = Subtree(current_process) /\ subTree_killer(S) /\ Running
                 /\ \E rq : scheduler(Cleared(S), rq)
    BY <1>2 DEF passup_or_die
  <2>2. current_process \in Live
    BY <2>1, RunnerFree, PcbAssumption DEF PlacedNow, Placed, OnCpu, Live
  <2>3. S \in SUBSET Live
    BY <2>1, <2>2, SubtreeLive
  <2>4. current_process \in S
    BY <2>1, <2>2 DEF Subtree, Live
  <2>5. QED  BY <2>1, <2>3, <2>4, KillSaved
<1>3. QED  BY <1>1, <1>2

\* Whoever gives the CPU away is saved before.
LEMMA GiveSaved ==
  ASSUME TypeInv, PlacedNow, TypeInv', PlacedNow', BlockedSaved, Yield \/ PLTInterrupt
  PROVE  SavedStep
<1>1. Running /\ pcbFree' = pcbFree
  BY DEF Yield, PLTInterrupt, pcbVars
<1>2. /\ SaveState \in [Pcb -> {"saved", "stale", "zero"}]
      /\ \A p \in Pcb : p # current_process => SaveState[p] = p_s[p]
      /\ SaveState[current_process] = "saved"
  BY <1>1, RunnerFree DEF SaveState, TypeInv, TypeOK
<1>3. \E rq : scheduler(SaveState, rq)
  BY GiveSchedules
<1>4. \A p \in ToSet(ready_queue') : p \in Pcb /\ p_s'[p] = SaveState[p]
  <2>1. \A p \in ToSet(ready_queue') : p_s'[p] = SaveState[p]
    BY <1>2, <1>3, SchedulerLeaves
  <2>2. QED  BY <2>1 DEF PlacedNow, Placed
<1>5. QED  BY <1>1, <1>2, <1>4, LeavesSaved

\* All that can happen but TERMPROCESS.
OtherNext ==
    \/ \E prio \in Prio, sup \in Supports \cup {NULL} : create_process(prio, sup)
    \/ \E s \in UserSem : Passeren(s) \/ Verhogen(s)
    \/ \E d \in Device : DoIO(d) \/ DeviceInterrupt(d)
    \/ WaitForClock
    \/ Yield
    \/ passup_or_die
    \/ PLTInterrupt
    \/ IntervalTimer

\* None of it makes a process ready that is not saved.
LEMMA OtherSaved ==
  ASSUME PlaceInv, PlaceInv', BlockedSaved, OtherNext
  PROVE  SavedStep
<1>1. /\ TypeInv /\ FamilyTree /\ PlacedNow
      /\ TypeInv' /\ PlacedNow'
  BY DEF PlaceInv
<1>2. ASSUME NEW prio \in Prio, NEW sup \in Supports \cup {NULL}, create_process(prio, sup)
      PROVE  SavedStep
  BY <1>1, <1>2, CreateSaved
<1>3. ASSUME NEW s \in UserSem, Passeren(s) PROVE SavedStep
  <2>1. s \in Sem /\ Running /\ pcbFree' = pcbFree
    BY <1>3 DEF Passeren, Sem, pcbVars
  <2>2. CASE BlockOn(s)
    BY <1>1, <2>1, <2>2, BlockOnSaved
  <2>3. CASE UNCHANGED <<p_semAdd, semd_h, cpuVars>>
    BY <1>1, <2>1, <2>3, StaySaved DEF cpuVars
  <2>4. QED  BY <1>3, <2>2, <2>3 DEF Passeren
<1>4. ASSUME NEW s \in UserSem, Verhogen(s) PROVE SavedStep
  BY <1>1, <1>4, StaySaved DEF Verhogen, pcbVars
<1>5. ASSUME NEW d \in Device, DoIO(d) PROVE SavedStep
  <2>1. d \in Sem /\ Running /\ pcbFree' = pcbFree /\ BlockOn(d)
    BY <1>5 DEF DoIO, block_sync, Sem, KernelSem, pcbVars
  <2>2. QED  BY <1>1, <2>1, BlockOnSaved
<1>6. ASSUME NEW d \in Device, DeviceInterrupt(d) PROVE SavedStep
  <2>1. pcbFree' = pcbFree /\ \E rq : Return(rq)
    BY <1>6 DEF DeviceInterrupt, pcbVars
  <2>2. QED  BY <1>1, <2>1, ReturnSaved
<1>7. ASSUME WaitForClock PROVE SavedStep
  <2>1. PseudoClock \in Sem /\ Running /\ pcbFree' = pcbFree /\ BlockOn(PseudoClock)
    BY <1>7 DEF WaitForClock, block_sync, Sem, KernelSem, pcbVars
  <2>2. QED  BY <1>1, <2>1, BlockOnSaved
<1>8. ASSUME Yield \/ PLTInterrupt PROVE SavedStep
  BY <1>1, <1>8, GiveSaved
<1>9. ASSUME passup_or_die PROVE SavedStep
  BY <1>1, <1>9, PassUpSaved
<1>10. ASSUME IntervalTimer PROVE SavedStep
  <2>1. pcbFree' = pcbFree /\ \E rq : Return(rq)
    BY <1>10 DEF IntervalTimer, pcbVars
  <2>2. QED  BY <1>1, <2>1, ReturnSaved
<1>11. QED
  BY <1>2, <1>3, <1>4, <1>5, <1>6, <1>7, <1>8, <1>9, <1>10 DEF OtherNext

\* Every step is of the kind that UnsavedSurvived allows.
LEMMA NextUnsaved ==
  ASSUME PlaceInv, PlaceInv', BlockedSaved, Next
  PROVE  UnsavedStep
<1>1. CASE OtherNext
  BY <1>1, OtherSaved DEF SavedStep, UnsavedStep
<1>2. ASSUME NEW pid \in 0 .. MaxPid, terminate_process(pid) PROVE UnsavedStep
  BY <1>2, TerminateUnsaved DEF PlaceInv
<1>3. QED  BY <1>1, <1>2 DEF Next, OtherNext

\* A process that is ready with a state other than the one in which it lost the CPU
\* is the caller of a TERMPROCESS that it has outlived: there is no second way in
\* which the nucleus sends a process back in time.
THEOREM UnsavedSurvivedCorrect == Spec => UnsavedSurvived
<1>1. PlaceInv /\ PlaceInv' /\ BlockedSaved /\ [Next]_vars => [UnsavedStep]_vars
  BY NextUnsaved
<1>2. QED
  BY <1>1, PlaceInvariant, BlockedSavedCorrect, PTL DEF Spec, UnsavedSurvived, UnsavedStep

\* As long as nobody outlives its own TERMPROCESS, every ready process has the state
\* in which it lost the CPU.
THEOREM ReadySavedCorrect == Init /\ [][Next /\ ~Survives]_vars => []ReadySaved
<1>1. Init => ReadySaved
  BY DEF Init, ReadySaved, ToSet
<1>2. PlaceInv /\ PlaceInv' /\ BlockedSaved /\ ReadySaved /\ [Next /\ ~Survives]_vars
        => ReadySaved'
  <2> SUFFICES ASSUME PlaceInv, PlaceInv', BlockedSaved, ReadySaved, [Next /\ ~Survives]_vars
               PROVE  ReadySaved'
    OBVIOUS
  <2>1. CASE Next /\ ~Survives
    <3>1. UnsavedStep
      BY <2>1, NextUnsaved
    <3>2. QED  BY <2>1, <3>1 DEF UnsavedStep, ReadySaved
  <2>2. CASE UNCHANGED vars
    BY <2>2 DEF ReadySaved, vars, cpuVars
  <2>3. QED  BY <2>1, <2>2
<1>3. Init /\ [][Next /\ ~Survives]_vars => Spec
  <2>1. [Next /\ ~Survives]_vars => [Next]_vars
    OBVIOUS
  <2>2. QED  BY <2>1, PTL DEF Spec
<1>4. QED  BY <1>1, <1>2, <1>3, PlaceInvariant, BlockedSavedCorrect, PTL

-----------------------------------------------------------------------------
(* The verdict of the scheduler *)

\* A state with a process on the CPU.
LEMMA RunVerdict ==
  ASSUME PlaceInv', cpu' = "run"
  PROVE  CpuVerdict'
<1>1. current_process' # NULL /\ current_process' \in Live'
  BY DEF PlaceInv, TypeInv, TypeOK, Running, PlacedNow, Placed, OnCpu, Live
<1>2. Live' # {}
  BY <1>1
<1>3. QED  BY <1>1, <1>2 DEF CpuVerdict, Running

\* With an empty ready queue, the counters and the semaphores tell the scheduler
\* the truth about the processes that are left.
LEMMA IdleVerdict ==
  ASSUME PlaceInv', CountersExact', KernelSemaphores',
         current_process' = NULL, ready_queue' = <<>>,
         cpu' = Verdict(process_counter', soft_block_counter')
  PROVE  CpuVerdict'
<1> DEFINE soft == {p \in Pcb : p_semAdd'[p] \in KernelSem}
<1>1. /\ process_counter' = Cardinality(Live') /\ IsFiniteSet(Live')
      /\ Cardinality(Live') \in Nat
      /\ soft_block_counter' = Cardinality(soft) /\ IsFiniteSet(soft)
      /\ Cardinality(soft) \in Nat
  <2>1. Live' \in SUBSET Pcb /\ soft \in SUBSET Pcb
    BY DEF Live
  <2>2. QED  BY <2>1, PcbFinite DEF CountersExact
<1>2. /\ Cardinality(Live') = 0 <=> Live' = {}
      /\ Cardinality(soft) = 0 <=> soft = {}
  <2> HIDE DEF soft
  <2>1. QED  BY <1>1, FS_EmptySet
<1>3. \A p \in Live' : p_semAdd'[p] \in Sem
  <2>1. ToSet(ready_queue') = {}
    BY EmptyFacts
  <2>2. \A p \in Live' : p \in Pcb /\ p_semAdd'[p] # NULL
    BY <2>1 DEF PlaceInv, PlacedNow, Placed, OnCpu, Live
  <2>3. QED  BY <2>2 DEF PlaceInv, TypeInv, TypeOK
<1>4. \A p \in soft : /\ p \in Live'
                      /\ p_semAdd'[p] = PseudoClock \/ p_semAdd'[p] \in busy'
  <2> TAKE p \in soft
  <2>1. p \in Live'
    BY SemAssumption DEF PlaceInv, PlacedNow, Placed, Live, Sem
  <2>2. CASE p_semAdd'[p] = PseudoClock
    BY <2>1, <2>2
  <2>3. CASE p_semAdd'[p] \in Device
    <3> DEFINE d == p_semAdd'[p]
    <3>1. semd_h'[d] \in Seq(Pcb) /\ p \in ToSet(semd_h'[d])
      BY <2>1, <2>3 DEF PlaceInv, TypeInv, TypeOK, PlacedNow, Placed, Live, Sem, KernelSem
    <3>2. Len(semd_h'[d]) # 0
      <4>1. semd_h'[d] # <<>>
        BY <3>1, EmptyFacts
      <4> HIDE DEF d
      <4>2. QED  BY <3>1, <4>1
    <3>3. Len(semd_h'[d]) \in Nat /\ Len(semd_h'[d]) <= IF d \in busy' THEN 1 ELSE 0
      BY <2>3, <3>1 DEF KernelSemaphores
    <3> HIDE DEF d
    <3>4. d \in busy'
      BY <3>2, <3>3
    <3>5. QED  BY <2>1, <3>4 DEF d
  <2>4. QED  BY <2>2, <2>3 DEF KernelSem
<1> HIDE DEF soft
<1>5. cpu' = (IF Live' = {} THEN "halt" ELSE IF soft # {} THEN "wait" ELSE "panic")
  BY <1>1, <1>2 DEF Verdict
<1>6. soft = {} => \A p \in Live' : p_semAdd'[p] \in UserSem
  BY <1>3 DEF soft, Sem, Live
<1>7. QED  BY <1>3, <1>4, <1>5, <1>6 DEF CpuVerdict, Running

LEMMA SchedulerVerdict ==
  ASSUME PlaceInv', CountersExact', KernelSemaphores', NEW ps, NEW rq, scheduler(ps, rq)
  PROVE  CpuVerdict'
BY RunVerdict, IdleVerdict DEF scheduler, Dispatch

\* An interrupt, which finds the CPU running or waiting.
LEMMA ReturnVerdict ==
  ASSUME PlaceInv', CountersExact', KernelSemaphores', CpuVerdict,
         cpu \in {"run", "wait"}, NEW rq, Return(rq)
  PROVE  CpuVerdict'
<1>1. CASE current_process # NULL
  <2>1. cpu' = "run"
    BY <1>1 DEF Return, CpuVerdict, Running
  <2>2. QED  BY <2>1, RunVerdict
<1>2. CASE current_process = NULL
  BY <1>2, SchedulerVerdict DEF Return
<1>3. QED  BY <1>1, <1>2

\* A process that blocks leaves the CPU to the scheduler.
LEMMA BlockOnVerdict ==
  ASSUME TypeInv, PlacedNow, Running, PlaceInv', CountersExact', KernelSemaphores',
         NEW s \in Sem, BlockOn(s)
  PROVE  CpuVerdict'
BY Descriptors, SchedulerVerdict DEF BlockOn

\* Every step leaves a CPU that runs, or a verdict that is right.
LEMMA NextVerdict ==
  ASSUME PlaceInv, PlaceInv', CountersExact', KernelSemaphores', CpuVerdict, [Next]_vars
  PROVE  CpuVerdict'
<1>1. TypeInv /\ FamilyTree /\ PlacedNow
  BY DEF PlaceInv
<1>2. ASSUME Running, cpu' = cpu PROVE CpuVerdict'
  BY <1>2, RunVerdict DEF Running
<1>3. ASSUME UNCHANGED vars PROVE CpuVerdict'
  BY <1>3 DEF CpuVerdict, Running, Live, vars, pcbVars, semVars, cpuVars, counters
<1>4. ASSUME NEW ps, NEW rq, scheduler(ps, rq) PROVE CpuVerdict'
  BY <1>4, SchedulerVerdict
<1>5. ASSUME NEW prio \in Prio, NEW sup \in Supports \cup {NULL},
             create_process(prio, sup)
      PROVE  CpuVerdict'
  BY <1>2, <1>5 DEF create_process, vars, cpuVars
<1>6. ASSUME NEW pid \in 0 .. MaxPid, terminate_process(pid) PROVE CpuVerdict'
  BY <1>1, <1>4, <1>6, TerminateVictims
<1>7. ASSUME NEW s \in UserSem, Passeren(s) PROVE CpuVerdict'
  <2>1. s \in Sem /\ Running
    BY <1>7 DEF Passeren, Sem
  <2>2. CASE BlockOn(s)
    BY <1>1, <2>1, <2>2, BlockOnVerdict
  <2>3. CASE UNCHANGED <<p_semAdd, semd_h, cpuVars>>
    BY <1>2, <2>1, <2>3 DEF cpuVars
  <2>4. QED  BY <1>7, <2>2, <2>3 DEF Passeren
<1>8. ASSUME NEW s \in UserSem, Verhogen(s) PROVE CpuVerdict'
  BY <1>2, <1>8 DEF Verhogen
<1>9. ASSUME NEW d \in Device, DoIO(d) PROVE CpuVerdict'
  BY <1>1, <1>9, BlockOnVerdict DEF DoIO, block_sync, Sem, KernelSem
<1>10. ASSUME NEW d \in Device, DeviceInterrupt(d) PROVE CpuVerdict'
  <2>1. cpu \in {"run", "wait"} /\ \E rq : Return(rq)
    BY <1>10 DEF DeviceInterrupt
  <2>2. QED  BY <2>1, ReturnVerdict
<1>11. ASSUME WaitForClock PROVE CpuVerdict'
  BY <1>1, <1>11, BlockOnVerdict DEF WaitForClock, block_sync, Sem, KernelSem
<1>12. ASSUME Yield PROVE CpuVerdict'
  <2>1. (\E rq : scheduler(SaveState, rq)) \/ cpu' = "run"
    BY <1>12 DEF Yield, Dispatch
  <2>2. QED  BY <1>4, <2>1, RunVerdict
<1>13. ASSUME PLTInterrupt PROVE CpuVerdict'
  BY <1>4, <1>13 DEF PLTInterrupt
<1>14. ASSUME passup_or_die PROVE CpuVerdict'
  BY <1>1, <1>3, <1>4, <1>14, PassUpVictims
<1>15. ASSUME IntervalTimer PROVE CpuVerdict'
  <2>1. cpu \in {"run", "wait"} /\ \E rq : Return(rq)
    BY <1>15 DEF IntervalTimer
  <2>2. QED  BY <2>1, ReturnVerdict
<1>16. QED
  BY <1>3, <1>5, <1>6, <1>7, <1>8, <1>9, <1>10, <1>11, <1>12, <1>13, <1>14, <1>15
     DEF Next

\* The CPU halts if and only if no process is left, panics only when every process
\* waits for a V that no process is left to do, and waits only while nothing can
\* run and an interrupt will release somebody; scheduler never returns.
THEOREM CpuVerdictCorrect == Spec => []CpuVerdict
<1>1. Init => CpuVerdict
  <2> SUFFICES ASSUME Init PROVE CpuVerdict  OBVIOUS
  <2>1. cpu = "run" /\ current_process # NULL /\ current_process \in Live
    BY PcbAssumption DEF Init, Live
  <2>2. QED  BY <2>1 DEF CpuVerdict, Running
<1>2. /\ PlaceInv /\ PlaceInv' /\ CountersExact' /\ KernelSemaphores' /\ CpuVerdict
      /\ [Next]_vars
      => CpuVerdict'
  BY NextVerdict
<1>3. SemInv => KernelSemaphores
  BY DEF SemInv
<1>4. QED
  BY <1>1, <1>2, <1>3, PlaceInvariant, CountersCorrect, SemInvariant, PTL DEF Spec

-----------------------------------------------------------------------------
(* The user semaphores implement counting semaphores *)

\* The abstract state.
Permits == [s \in UserSem |-> IF semval[s] > 0 THEN semval[s] ELSE 0]
Waiters == [s \in UserSem |-> semd_h[s]]

\* The same operation, in this module and in the abstract specification.
LEMMA SameWithout == ASSUME NEW q, NEW X PROVE Abstract!Without(q, X) = Without(q, X)
BY DEF Abstract!Without, Without

\* A step that does not touch the user semaphores is a stutter.
LEMMA Untouched ==
  ASSUME TypeInv,
         \A s \in UserSem : semd_h'[s] = semd_h[s] /\ semval'[s] = semval[s]
  PROVE  UNCHANGED Abstract!svars
<1>1. Permits' = Permits
  BY DEF Permits
<1>2. Waiters' = Waiters
  BY DEF Waiters
<1>3. QED  BY <1>1, <1>2 DEF Permits, Waiters, Abstract!svars

\* A step that touches one of them.
LEMMA TouchOne ==
  ASSUME NEW x \in UserSem, NEW c, NEW q,
         c = (IF semval'[x] > 0 THEN semval'[x] ELSE 0), q = semd_h'[x],
         \A s \in UserSem : s # x => semd_h'[s] = semd_h[s] /\ semval'[s] = semval[s]
  PROVE  /\ Permits' = [Permits EXCEPT ![x] = c]
         /\ Waiters' = [Waiters EXCEPT ![x] = q]
BY DEF Permits, Waiters

\* The running process waits for nothing.
LEMMA RunnerWaitsNot ==
  ASSUME TypeInv, PlacedNow, Running
  PROVE  ~Abstract!Waits(current_process)
<1>1. \A s \in UserSem : ToSet(semd_h[s]) = {p \in Pcb \ pcbFree : p_semAdd[p] = s}
  BY SemKinds DEF PlacedNow, Placed
<1>2. p_semAdd[current_process] = NULL /\ NULL \notin UserSem
  BY RunnerFree, SemAssumption DEF Sem
<1>3. \A s \in UserSem : current_process \notin ToSet(semd_h[s])
  BY <1>1, <1>2
<1>4. QED  BY <1>3 DEF Abstract!Waits, ToSet

\* PASSEREN is P: a permit is taken, or the process waits behind the others.
LEMMA PasserenRefines ==
  ASSUME TypeInv, PlacedNow, SemInv, NEW s \in UserSem, Passeren(s)
  PROVE  Abstract!P(current_process, s)
<1>1. /\ s \in Sem /\ semval[s] \in Int /\ Running
      /\ semval' = [semval EXCEPT ![s] = semval[s] - 1]
      /\ semval \in [Sem -> Int] /\ semd_h \in [Sem -> Seq(Pcb)]
  BY SemKinds DEF Passeren, TypeInv, TypeOK
<1>2. /\ semval'[s] = semval[s] - 1
      /\ \A t \in UserSem : t # s => semval'[t] = semval[t]
  BY <1>1, SemKinds
<1>3. ~Abstract!Waits(current_process)
  BY <1>1, RunnerWaitsNot
<1>4. CASE semval[s] - 1 >= 0
  <2>1. semd_h' = semd_h
    BY <1>4 DEF Passeren
  <2>2. semval[s] > 0 /\ Permits[s] = semval[s]
    BY <1>1, <1>4 DEF Permits
  <2>3. Permits[s] - 1 = (IF semval'[s] > 0 THEN semval'[s] ELSE 0)
    BY <1>1, <1>2, <1>4, <2>2
  <2>4. /\ Permits' = [Permits EXCEPT ![s] = Permits[s] - 1]
        /\ Waiters' = [Waiters EXCEPT ![s] = semd_h[s]]
    BY <1>2, <2>1, <2>3, TouchOne
  <2>5. Waiters' = Waiters
    BY <2>1 DEF Waiters
  <2>6. QED  BY <1>3, <2>2, <2>4, <2>5 DEF Abstract!P, Permits, Waiters
<1>5. CASE ~(semval[s] - 1 >= 0)
  <2>1. semd_h' = [semd_h EXCEPT ![s] = Append(semd_h[s], current_process)]
    BY <1>1, <1>5, Descriptors DEF Passeren, BlockOn, Enqueue
  <2>2. /\ Permits[s] = 0
        /\ 0 = (IF semval'[s] > 0 THEN semval'[s] ELSE 0)
    BY <1>1, <1>2, <1>5 DEF Permits
  <2>3. /\ semd_h'[s] = Append(Waiters[s], current_process)
        /\ \A t \in UserSem : t # s => semd_h'[t] = semd_h[t]
    BY <1>1, <2>1, SemKinds DEF Waiters
  <2>4. /\ Permits' = [Permits EXCEPT ![s] = 0]
        /\ Waiters' = [Waiters EXCEPT ![s] = Append(Waiters[s], current_process)]
    BY <1>2, <2>2, <2>3, TouchOne
  <2>5. Permits' = Permits
    BY <2>2, <2>4 DEF Permits
  <2>6. ~(Permits[s] > 0)
    BY <2>2
  <2>7. QED  BY <1>3, <2>4, <2>5, <2>6 DEF Abstract!P, Permits, Waiters
<1>6. QED  BY <1>4, <1>5

\* VERHOGEN is V: the permit goes to the process that has waited longest.
LEMMA VerhogenRefines ==
  ASSUME TypeInv, PlacedNow, SemInv, NEW s \in UserSem, Verhogen(s)
  PROVE  Abstract!V(s)
<1>1. /\ s \in Sem /\ semval[s] \in Int /\ semd_h[s] \in Seq(Pcb)
      /\ Len(semd_h[s]) \in Nat /\ UserExact(Len(semd_h[s]), semval[s])
      /\ semval \in [Sem -> Int] /\ semd_h \in [Sem -> Seq(Pcb)]
  BY SemKinds, SemInvParts DEF TypeInv, TypeOK
<1>2. /\ semval'[s] = semval[s] + 1
      /\ \A t \in UserSem : t # s => semval'[t] = semval[t]
  BY <1>1, SemKinds DEF Verhogen
<1>3. CASE semd_h[s] # <<>>
  <2>1. semval[s] < 0
    <3>1. Len(semd_h[s]) # 0
      BY <1>1, <1>3
    <3>2. QED  BY <1>1, <3>1 DEF UserExact
  <2>2. Wakes(semval[s] + 1)
    BY <1>1, <2>1 DEF Wakes
  <2>3. semd_h' = [semd_h EXCEPT ![s] = Tail(semd_h[s])]
    BY <1>3, <2>2 DEF Verhogen, RemoveBlocked
  <2>4. /\ semd_h'[s] = Tail(Waiters[s])
        /\ \A t \in UserSem : t # s => semd_h'[t] = semd_h[t]
    BY <1>1, <2>3, SemKinds DEF Waiters
  <2>5. Permits[s] = 0 /\ 0 = (IF semval'[s] > 0 THEN semval'[s] ELSE 0)
    BY <1>1, <1>2, <2>1 DEF Permits
  <2>6. /\ Permits' = [Permits EXCEPT ![s] = 0]
        /\ Waiters' = [Waiters EXCEPT ![s] = Tail(Waiters[s])]
    BY <1>2, <2>4, <2>5, TouchOne
  <2>7. Permits' = Permits /\ Waiters[s] # <<>>
    BY <1>3, <2>5, <2>6 DEF Permits, Waiters
  <2>8. QED  BY <2>6, <2>7 DEF Abstract!V, Permits, Waiters
<1>4. CASE semd_h[s] = <<>>
  <2>1. semd_h' = semd_h
    BY <1>4 DEF Verhogen
  <2>2. semval[s] >= 0
    BY <1>1, <1>4 DEF UserExact
  <2>3. Permits[s] + 1 = (IF semval'[s] > 0 THEN semval'[s] ELSE 0)
    BY <1>1, <1>2, <2>2 DEF Permits
  <2>4. /\ Permits' = [Permits EXCEPT ![s] = Permits[s] + 1]
        /\ Waiters' = [Waiters EXCEPT ![s] = semd_h[s]]
    BY <1>2, <2>1, <2>3, TouchOne
  <2>5. Waiters' = Waiters /\ Waiters[s] = <<>>
    BY <1>4, <2>1 DEF Waiters
  <2>6. QED  BY <2>4, <2>5 DEF Abstract!V, Permits, Waiters
<1>5. QED  BY <1>3, <1>4

\* A death is a Leave: the victims give back what they had taken, which is no
\* permit for anybody else.
LEMMA KillRefines ==
  ASSUME TypeInv, PlacedNow, SemInv, NEW S \in SUBSET Live, subTree_killer(S)
  PROVE  \E B \in SUBSET Pcb : Abstract!Leave(B)
<1>1. ASSUME NEW s \in UserSem
      PROVE  (IF semval'[s] > 0 THEN semval'[s] ELSE 0)
                = (IF semval[s] > 0 THEN semval[s] ELSE 0)
  <2>1. /\ Len(semd_h[s]) = Cardinality(Waiting(p_semAdd, s))
        /\ IsFiniteSet(Waiting(p_semAdd, s))
    BY SemKinds, QueueLength DEF PlacedNow, TypeInv, TypeOK
  <2>2. Refund(S, s) \in SUBSET Waiting(p_semAdd, s)
    BY DEF Refund, Blocked, Waiting, Live
  <2>3. /\ Cardinality(Refund(S, s)) \in Nat
        /\ Cardinality(Refund(S, s)) <= Len(semd_h[s])
    BY <2>1, <2>2, FS_Subset, FS_CardinalityType
  <2>4. /\ UserExact(Len(semd_h[s]), semval[s]) /\ semval[s] \in Int
        /\ Len(semd_h[s]) \in Nat
        /\ semval'[s] = semval[s] + Cardinality(Refund(S, s))
    BY SemKinds, SemInvParts DEF subTree_killer
  <2>5. QED  BY <2>3, <2>4 DEF UserExact
<1>2. Permits' = Permits
  BY <1>1 DEF Permits
<1>3. PICK B \in SUBSET Pcb : B = Blocked(S)
  BY DEF Blocked, Live
<1>4. \A s \in UserSem : semd_h'[s] = Without(Waiters[s], B)
  BY <1>3, SemKinds DEF subTree_killer, Waiters
<1>5. Waiters' = [s \in UserSem |-> Abstract!Without(Waiters[s], B)]
  BY <1>4, SameWithout DEF Waiters
<1>6. Abstract!Leave(B)
  BY <1>2, <1>5 DEF Abstract!Leave, Permits, Waiters
<1>7. QED  BY <1>6

\* A handler that waits on device_sem leaves the user semaphores alone.
LEMMA BlockSyncUntouched ==
  ASSUME TypeInv, NEW d \in KernelSem, block_sync(d)
  PROVE  \A s \in UserSem : semd_h'[s] = semd_h[s] /\ semval'[s] = semval[s]
<1>1. \A s \in UserSem : s \in Sem /\ s # d
  BY SemKinds DEF KernelSem
<1>2. semval' = [semval EXCEPT ![d] = semval[d] - 1]
  BY DEF block_sync
<1>3. \/ semd_h' = semd_h
      \/ semd_h' = [semd_h EXCEPT ![d] = Enqueue(semd_h[d], current_process)]
  BY DEF block_sync, BlockOn
<1>4. QED  BY <1>1, <1>2, <1>3 DEF TypeInv, TypeOK

\* So do the interrupts.
LEMMA InterruptUntouched ==
  ASSUME TypeInv, IntervalTimer \/ \E d \in Device : DeviceInterrupt(d)
  PROVE  \A s \in UserSem : semd_h'[s] = semd_h[s] /\ semval'[s] = semval[s]
<1>1. PICK d \in KernelSem :
         /\ \E v : semval' = [semval EXCEPT ![d] = v]
         /\ semd_h' = semd_h \/ \E q : semd_h' = [semd_h EXCEPT ![d] = q]
  BY DEF IntervalTimer, unblock_pseudoclock, DeviceInterrupt, RemoveBlocked, KernelSem
<1>2. \A s \in UserSem : s \in Sem /\ s # d
  BY SemKinds DEF KernelSem
<1>3. QED  BY <1>1, <1>2 DEF TypeInv, TypeOK

\* Every step of the nucleus is a step of counting semaphores, or none.
LEMMA NextRefines ==
  ASSUME PlaceInv, SemInv, [Next]_vars
  PROVE  [Abstract!Next]_(Abstract!svars)
<1>1. TypeInv /\ FamilyTree /\ PlacedNow
  BY DEF PlaceInv
<1>2. ASSUME UNCHANGED semVars PROVE UNCHANGED Abstract!svars
  BY <1>1, <1>2, Untouched DEF semVars
<1>3. ASSUME NEW S \in SUBSET Live, subTree_killer(S) PROVE Abstract!Next
  BY <1>1, <1>3, KillRefines DEF Abstract!Next
<1>4. ASSUME NEW s \in UserSem, Passeren(s) \/ Verhogen(s) PROVE Abstract!Next
  <2>1. CASE Passeren(s)
    <3>1. current_process \in Pcb
      BY <1>1, <2>1, RunnerFree DEF Passeren
    <3>2. Abstract!P(current_process, s)
      BY <1>1, <2>1, PasserenRefines
    <3>3. QED  BY <3>1, <3>2 DEF Abstract!Next
  <2>2. CASE Verhogen(s)
    BY <1>1, <2>2, VerhogenRefines DEF Abstract!Next
  <2>3. QED  BY <1>4, <2>1, <2>2
<1>5. ASSUME NEW pid \in 0 .. MaxPid, terminate_process(pid) PROVE Abstract!Next
  BY <1>1, <1>3, <1>5, TerminateVictims
<1>6. ASSUME passup_or_die PROVE Abstract!Next \/ UNCHANGED Abstract!svars
  BY <1>1, <1>2, <1>3, <1>6, PassUpVictims DEF vars, semVars
<1>7. ASSUME NEW d \in Device, DoIO(d) PROVE UNCHANGED Abstract!svars
  BY <1>1, <1>7, BlockSyncUntouched, Untouched DEF DoIO, KernelSem
<1>8. ASSUME WaitForClock PROVE UNCHANGED Abstract!svars
  BY <1>1, <1>8, BlockSyncUntouched, Untouched DEF WaitForClock, KernelSem
<1>9. ASSUME IntervalTimer \/ \E d \in Device : DeviceInterrupt(d)
      PROVE  UNCHANGED Abstract!svars
  BY <1>1, <1>9, InterruptUntouched, Untouched
<1>10. ASSUME NEW prio \in Prio, NEW sup \in Supports \cup {NULL},
              create_process(prio, sup)
       PROVE  UNCHANGED Abstract!svars
  BY <1>2, <1>10 DEF create_process, vars
<1>11. ASSUME Yield \/ PLTInterrupt \/ UNCHANGED vars PROVE UNCHANGED Abstract!svars
  BY <1>2, <1>11 DEF Yield, PLTInterrupt, vars
<1>12. QED
  BY <1>4, <1>5, <1>6, <1>7, <1>8, <1>9, <1>10, <1>11 DEF Next

\* For any number of PCBs and semaphores, PASSEREN, VERHOGEN and the correction that
\* subTree_killer makes implement counting semaphores with first-come first-served
\* queues, whatever is killed, dispatched or interrupted around them.
THEOREM AbstractSemaphoresCorrect == Spec => AbstractSemaphores
<1>1. Init => Abstract!Init
  <2> SUFFICES ASSUME Init PROVE Abstract!Init  OBVIOUS
  <2>1. \A s \in UserSem : s \in Sem
    BY DEF Sem
  <2>2. \A s \in UserSem : semval[s] \in 0 .. MaxVal /\ semd_h[s] = <<>>
    BY <2>1 DEF Init
  <2>3. \A s \in UserSem : (IF semval[s] > 0 THEN semval[s] ELSE 0) \in Nat
    BY <2>2, NumberAssumption
  <2>4. QED  BY <2>2, <2>3 DEF Abstract!Init
<1>2. PlaceInv /\ SemInv /\ [Next]_vars => [Abstract!Next]_(Abstract!svars)
  BY NextRefines
<1>3. QED
  BY <1>1, <1>2, PlaceInvariant, SemInvariant, PTL
     DEF Spec, AbstractSemaphores, Abstract!Spec
=============================================================================
