----------------------------- MODULE PoolProofs -----------------------------
(***************************************************************************)
(* Virtual memory, for any number of processes, pages and frames: one      *)
(* process at a time works on the swap pool, no frame is shared, the TLB   *)
(* agrees with the page tables; and, while the flash devices do not fail,  *)
(* the table is exact and a process reads what it wrote.                   *)
(*                                                                         *)
(* Everything rests on the mutual exclusion: an invariant of the table     *)
(* that the pager suspends for the frame it works on is suspended for one  *)
(* frame only, and nobody but the process that works on it can tell.       *)
(***************************************************************************)
EXTENDS SwapPool, QueueTheorems

mutexQueue == queue[swapPoolSemaphore]
mutexCount == count[swapPoolSemaphore]

\* a is between P and V on swapPoolSemaphore.
Working(a) == at[a] \in InPool /\ a \notin ToSet(mutexQueue)

-----------------------------------------------------------------------------
(* Page numbers *)

\* The two computations of a page table index are inverse to Vpn.
LEMMA VpnFacts ==
  ASSUME NEW p \in Page
  PROVE  vpnToPage(Vpn(p)) = p /\ pageMissing(Vpn(p)) = p
<1>1. p \in 0 .. 31
  BY PageAssumption
<1>2. CASE p = 31
  <2>1. 786431 % 256 = 255 /\ 786431 % 262144 = 262143
    OBVIOUS
  <2>2. QED  BY <1>2, <2>1 DEF Vpn, vpnToPage, pageMissing
<1>3. CASE p # 31
  <2>1. (524288 + p) % 256 = p /\ (524288 + p) % 262144 = p
    BY <1>1
  <2>2. QED  BY <1>1, <1>3, <2>1 DEF Vpn, vpnToPage, pageMissing
<1>4. QED  BY <1>2, <1>3

\* The page that the locals of the pager are reset to.
LEMMA FirstPageType == FirstPage \in Page
<1>1. Page \in SUBSET Nat /\ Page # {}
  BY PageAssumption
<1>2. \E m \in Page : \A k \in Page : m <= k
  BY <1>1, LeastElement
<1>3. QED  BY <1>2 DEF FirstPage

LEMMA NextVictimType == ASSUME NEW f \in Frame PROVE NextVictim(f) \in Frame
<1>1. f + 1 \in Nat /\ POOLSIZE \in Nat \ {0}
  BY PoolAssumption DEF Frame
<1>2. (f + 1) % POOLSIZE \in 0 .. POOLSIZE - 1
  BY <1>1
<1>3. QED  BY <1>2 DEF NextVictim, Frame

-----------------------------------------------------------------------------
(* Types *)

\* What processes do, here and in the modules built on SwapPool, where the
\* memory is the same.
Doing ==
    InCode \cup InPool \cup Elsewhere
    \cup {"absent", "signalled", "created", "join"}
    \cup {"wait", "transmit", "sent", "receive", "receiving", "panic"}

MemTypes ==
    /\ at \in [Process -> Doing]
    /\ back \in [Asid -> InCode]
    /\ missingPage \in [Asid -> Page]
    /\ frameVictim \in [Asid -> Frame]
    /\ swapPoolTable \in [Frame -> SwapEntry \cup {NULL}]
    /\ fifoPages \in Frame
    /\ pte \in [Key -> Frame \cup {NULL}]
    /\ tlb \in [Key -> Frame \cup {NULL, OUT}]
    /\ frames \in [Key -> SUBSET Frame]
    /\ flash \in SUBSET Key
    /\ count \in [Semaphore -> Nat]
    /\ queue \in [Semaphore -> Seq(Process)]

LEMMA DoingFacts == InCode \cup InPool \cup Elsewhere \subseteq Doing
BY DEF Doing

\* A frame that is being written back belongs to some page.
Evicting == \A a \in Asid : at[a] = "evict" => swapPoolTable[frameVictim[a]] # NULL

LEMMA NamesDistinct ==
  /\ Asid \subseteq Process /\ swapPoolSemaphore \in Semaphore
  /\ NULL \notin Frame /\ OUT \notin Frame /\ OUT # NULL /\ 0 \in Frame
BY NameAssumption, PoolAssumption DEF Frame

LEMMA InitType == Init => MemTypes
BY NamesDistinct, FirstPageType
   DEF Init, InitPool, MemTypes, Doing, InCode, InPool, Elsewhere, Frame

LEMMA GoType ==
  ASSUME MemTypes, NEW a \in Asid, NEW w \in InCode \cup InPool \cup Elsewhere, Go(a, w)
  PROVE  at' \in [Process -> Doing]
BY NamesDistinct, DoingFacts DEF Go, MemTypes

LEMMA ReturnType ==
  ASSUME MemTypes, NEW a \in Asid, Return(a)
  PROVE  /\ back' \in [Asid -> InCode] /\ missingPage' \in [Asid -> Page]
         /\ frameVictim' \in [Asid -> Frame]
BY NamesDistinct, FirstPageType DEF Return, MemTypes, InCode

\* P takes the permit, or waits.
LEMMA PStep ==
  ASSUME count \in [Semaphore -> Nat], queue \in [Semaphore -> Seq(Process)],
         NEW s \in Semaphore, NEW a \in Process, Sem!P(a, s)
  PROVE  /\ count' \in [Semaphore -> Nat] /\ queue' \in [Semaphore -> Seq(Process)]
         /\ \A t \in Semaphore : t # s => count'[t] = count[t] /\ queue'[t] = queue[t]
         /\ \/ count[s] # 0 /\ count'[s] = count[s] - 1 /\ queue'[s] = queue[s]
            \/ count[s] = 0 /\ count'[s] = 0 /\ queue'[s] = Append(queue[s], a)
<1>1. count[s] \in Nat /\ queue[s] \in Seq(Process)
  OBVIOUS
<1>2. CASE count[s] > 0
  <2>1. count' = [count EXCEPT ![s] = count[s] - 1] /\ queue' = queue
    BY <1>2 DEF Sem!P
  <2>2. count[s] # 0 /\ count[s] - 1 \in Nat
    BY <1>1, <1>2
  <2>3. QED  BY <1>1, <2>1, <2>2
<1>3. CASE ~(count[s] > 0)
  <2>1. Append(queue[s], a) \in Seq(Process)
    BY <1>1, AppendFacts
  <2>2. queue' = [queue EXCEPT ![s] = Append(queue[s], a)] /\ count' = count
    BY <1>3 DEF Sem!P
  <2>3. QED  BY <1>1, <1>3, <2>1, <2>2
<1>4. QED  BY <1>2, <1>3

\* V lets the one that has waited longest go on, or leaves a permit.
LEMMA VStep ==
  ASSUME count \in [Semaphore -> Nat], queue \in [Semaphore -> Seq(Process)],
         NEW s \in Semaphore, Sem!V(s)
  PROVE  /\ count' \in [Semaphore -> Nat] /\ queue' \in [Semaphore -> Seq(Process)]
         /\ \A t \in Semaphore : t # s => count'[t] = count[t] /\ queue'[t] = queue[t]
         /\ \/ queue[s] # <<>> /\ count'[s] = count[s] /\ queue'[s] = Tail(queue[s])
            \/ queue[s] = <<>> /\ count'[s] = count[s] + 1 /\ queue'[s] = queue[s]
<1>1. count[s] \in Nat /\ queue[s] \in Seq(Process)
  OBVIOUS
<1>2. CASE queue[s] # <<>>
  <2>1. Tail(queue[s]) \in Seq(Process)
    BY <1>1, <1>2, HeadTailFacts
  <2>2. queue' = [queue EXCEPT ![s] = Tail(queue[s])] /\ count' = count
    BY <1>2 DEF Sem!V
  <2>3. QED  BY <1>2, <2>1, <2>2
<1>3. CASE queue[s] = <<>>
  <2>1. count' = [count EXCEPT ![s] = count[s] + 1] /\ queue' = queue
    BY <1>3 DEF Sem!V
  <2>2. QED  BY <1>1, <1>3, <2>1
<1>4. QED  BY <1>2, <1>3

LEMMA PType ==
  ASSUME MemTypes, NEW a \in Asid, Sem!P(a, swapPoolSemaphore)
  PROVE  count' \in [Semaphore -> Nat] /\ queue' \in [Semaphore -> Seq(Process)]
BY NamesDistinct, PStep DEF MemTypes

LEMMA VType ==
  ASSUME MemTypes, Sem!V(swapPoolSemaphore)
  PROVE  count' \in [Semaphore -> Nat] /\ queue' \in [Semaphore -> Seq(Process)]
BY NamesDistinct, VStep DEF MemTypes

LEMMA RefreshType ==
  ASSUME MemTypes, NEW k \in Key, NEW e \in Frame \cup {NULL}, atomicRefresh(k, e)
  PROVE  pte' \in [Key -> Frame \cup {NULL}] /\ tlb' \in [Key -> Frame \cup {NULL, OUT}]
BY DEF atomicRefresh, MemTypes

\* What a process does in its own code has its type.
LEMMA CodeType ==
  ASSUME MemTypes, NEW a \in Asid, Code(a)
  PROVE  MemTypes'
<1>1. PICK p \in Page : uTLB_RefillHandler(a, p) \/ Store(a, p) \/ PageFault(a, p)
  BY DEF Code
<1>2. <<a, p>> \in Key /\ vpnToPage(Vpn(p)) = p /\ pageMissing(Vpn(p)) = p
  BY VpnFacts DEF Key
<1>3. CASE uTLB_RefillHandler(a, p)
  BY <1>2, <1>3
     DEF uTLB_RefillHandler, MemTypes, pagerVars, poolVars, dataVars, semVars
<1>4. CASE Store(a, p)
  BY <1>2, <1>4 DEF Store, MemTypes, pagerVars, poolVars, mmuVars, semVars
<1>5. CASE PageFault(a, p)
  <2>1. at' \in [Process -> Doing]
    BY <1>5, GoType DEF PageFault, Elsewhere
  <2>2. /\ back' = [back EXCEPT ![a] = at[a]] /\ at[a] \in InCode
        /\ missingPage' = [missingPage EXCEPT ![a] = p]
    BY <1>2, <1>5 DEF PageFault
  <2>3. back' \in [Asid -> InCode] /\ missingPage' \in [Asid -> Page]
    BY <2>2 DEF MemTypes
  <2>4. QED
    BY <1>5, <2>1, <2>3
       DEF PageFault, MemTypes, poolVars, mmuVars, dataVars, semVars
<1>6. QED  BY <1>1, <1>3, <1>4, <1>5

\* What it does in the pager.
LEMMA ChooseType ==
  ASSUME MemTypes, NEW a \in Asid, ChooseFrame(a)
  PROVE  MemTypes'
<1>1. CASE Free # {} /\ Go(a, "load") /\ UNCHANGED <<fifoPages, mmuVars>>
  <2>1. at' \in [Process -> Doing]
    BY <1>1, GoType DEF InPool
  <2>2. frameVictim' \in [Asid -> Frame]
    <3>1. \/ \E f \in Free : frameVictim' = [frameVictim EXCEPT ![a] = f]
          \/ frameVictim' = [frameVictim EXCEPT ![a] = fifoPages]
      BY DEF ChooseFrame
    <3>2. QED  BY <3>1 DEF MemTypes, Free
  <2>3. QED
    BY <1>1, <2>1, <2>2 DEF ChooseFrame, MemTypes, mmuVars, dataVars, semVars
<1>2. CASE /\ Free = {} /\ Go(a, "evict")
           /\ frameVictim' = [frameVictim EXCEPT ![a] = fifoPages]
           /\ fifoPages' = NextVictim(fifoPages)
           /\ atomicRefresh(swapPoolTable[fifoPages].sw_pte, NULL)
  <2>1. at' \in [Process -> Doing]
    BY <1>2, GoType DEF InPool
  <2>2. swapPoolTable[fifoPages].sw_pte \in Key
    BY <1>2 DEF Free, MemTypes, SwapEntry
  <2>3. pte' \in [Key -> Frame \cup {NULL}] /\ tlb' \in [Key -> Frame \cup {NULL, OUT}]
    BY <1>2, <2>2, RefreshType
  <2>4. frameVictim' \in [Asid -> Frame] /\ fifoPages' \in Frame
    BY <1>2, NextVictimType DEF MemTypes
  <2>5. QED
    BY <2>1, <2>3, <2>4 DEF ChooseFrame, MemTypes, dataVars, semVars
<1>3. QED  BY <1>1, <1>2 DEF ChooseFrame

LEMMA WriteBackType ==
  ASSUME MemTypes, Evicting, NEW a \in Asid, WriteBack(a)
  PROVE  MemTypes'
<1>1. at' \in [Process -> Doing]
  BY GoType DEF WriteBack, InPool
<1>2. Block(swapPoolTable[frameVictim[a]]) \in Key
  <2>1. swapPoolTable[frameVictim[a]] \in SwapEntry
    BY DEF MemTypes, Evicting, WriteBack
  <2>2. \A e \in SwapEntry : Block(e) \in Key
    BY VpnFacts DEF SwapEntry, Block, Key
  <2>3. QED  BY <2>1, <2>2
<1>3. flash' \in SUBSET Key
  BY <1>2 DEF WriteBack, MemTypes
<1>4. QED
  BY <1>1, <1>3 DEF WriteBack, MemTypes, pagerVars, poolVars, mmuVars, semVars

\* What a frame may hold after a read.
LEMMA ReadIntoType ==
  ASSUME MemTypes, NEW f \in Frame, NEW k, NEW ok, ReadInto(f, k, ok)
  PROVE  frames' \in [Key -> SUBSET Frame]
BY DEF ReadInto, MemTypes

LEMMA ReadInType ==
  ASSUME MemTypes, NEW a \in Asid, ReadIn(a)
  PROVE  MemTypes'
<1> DEFINE f == frameVictim[a]
           k == <<a, missingPage[a]>>
           e == [sw_asid |-> a, sw_pageNo |-> Vpn(missingPage[a]), sw_pte |-> k]
<1>1. /\ f \in Frame /\ missingPage[a] \in Page /\ k \in Key /\ back[a] \in InCode
  BY DEF MemTypes, Key
<1>2. e \in SwapEntry
  BY <1>1 DEF SwapEntry
<1>3. at' \in [Process -> Doing]
  BY <1>1, GoType DEF ReadIn
<1>4. swapPoolTable' \in [Frame -> SwapEntry \cup {NULL}]
  <2>1. swapPoolTable' = [swapPoolTable EXCEPT ![f] = e]
    BY DEF ReadIn
  <2> HIDE DEF e, f
  <2>2. QED  BY <1>1, <1>2, <2>1 DEF MemTypes
<1>5. pte' \in [Key -> Frame \cup {NULL}] /\ tlb' \in [Key -> Frame \cup {NULL, OUT}]
  BY <1>1, RefreshType DEF ReadIn
<1>6. frames' \in [Key -> SUBSET Frame]
  BY <1>1, ReadIntoType DEF ReadIn
<1>7. count' \in [Semaphore -> Nat] /\ queue' \in [Semaphore -> Seq(Process)]
  BY VType DEF ReadIn
<1>8. /\ back' \in [Asid -> InCode] /\ missingPage' \in [Asid -> Page]
      /\ frameVictim' \in [Asid -> Frame]
  BY ReturnType DEF ReadIn
<1>9. fifoPages' \in Frame /\ flash' \in SUBSET Key
  BY DEF ReadIn, MemTypes
<1>10. QED  BY <1>3, <1>4, <1>5, <1>6, <1>7, <1>8, <1>9 DEF MemTypes

LEMMA PagerType ==
  ASSUME MemTypes, Evicting, NEW a \in Asid, pager(a)
  PROVE  MemTypes'
<1>1. CASE EnterPool(a)
  <2>1. /\ at' \in [Process -> Doing]
        /\ count' \in [Semaphore -> Nat] /\ queue' \in [Semaphore -> Seq(Process)]
    BY <1>1, GoType, PType DEF EnterPool, InPool
  <2>2. QED
    BY <1>1, <2>1 DEF EnterPool, MemTypes, pagerVars, poolVars, mmuVars, dataVars
<1>2. CASE ReadFails(a)
  <2>1. at' \in [Process -> Doing]
    BY <1>2, GoType DEF ReadFails, InPool
  <2>2. frames' \in [Key -> SUBSET Frame]
    BY <1>2, ReadIntoType DEF ReadFails, MemTypes
  <2>3. QED
    BY <1>2, <2>1, <2>2 DEF ReadFails, MemTypes, pagerVars, poolVars, mmuVars, semVars
<1>3. CASE Trap(a)
  <2>1. /\ at' \in [Process -> Doing]
        /\ count' \in [Semaphore -> Nat] /\ queue' \in [Semaphore -> Seq(Process)]
    BY <1>3, GoType, VType DEF Trap, Elsewhere
  <2>2. /\ back' \in [Asid -> InCode] /\ missingPage' \in [Asid -> Page]
        /\ frameVictim' \in [Asid -> Frame]
    BY <1>3, ReturnType DEF Trap
  <2>3. QED
    BY <1>3, <2>1, <2>2 DEF Trap, MemTypes, poolVars, mmuVars, dataVars
<1>4. QED
  BY <1>1, <1>2, <1>3, ChooseType, WriteBackType, ReadInType DEF pager

\* And on its way to its end, and back.
LEMMA LifeType ==
  ASSUME MemTypes, NEW a \in Asid, Terminate(a) \/ Quit(a) \/ Restart(a)
  PROVE  MemTypes'
<1>1. CASE Terminate(a)
  <2>1. at' \in [Process -> Doing]
    BY <1>1, GoType DEF Terminate, Elsewhere
  <2>2. QED
    BY <1>1, <2>1
       DEF Terminate, MemTypes, pagerVars, poolVars, mmuVars, dataVars, semVars
<1>2. CASE EnterFree(a)
  <2>1. /\ at' \in [Process -> Doing]
        /\ count' \in [Semaphore -> Nat] /\ queue' \in [Semaphore -> Seq(Process)]
    BY <1>2, GoType, PType DEF EnterFree, InPool
  <2>2. QED
    BY <1>2, <2>1 DEF EnterFree, MemTypes, pagerVars, poolVars, mmuVars, dataVars
<1>3. CASE freeFrames(a)
  <2>1. /\ at' \in [Process -> Doing]
        /\ count' \in [Semaphore -> Nat] /\ queue' \in [Semaphore -> Seq(Process)]
    BY <1>3, GoType, VType DEF freeFrames, Elsewhere
  <2>2. /\ pte' \in [Key -> Frame \cup {NULL}] /\ tlb' \in [Key -> Frame \cup {NULL, OUT}]
        /\ swapPoolTable' \in [Frame -> SwapEntry \cup {NULL}]
    BY <1>3 DEF freeFrames, MemTypes
  <2>3. QED
    BY <1>3, <2>1, <2>2 DEF freeFrames, MemTypes, pagerVars, dataVars
<1>4. CASE Restart(a)
  <2>1. at' \in [Process -> Doing]
    BY <1>4, GoType DEF Restart, InCode
  <2>2. /\ pte' \in [Key -> Frame \cup {NULL}] /\ tlb' = tlb
        /\ frames' \in [Key -> SUBSET Frame] /\ flash' \in SUBSET Key
    BY <1>4 DEF Restart, initSupportStructure, MemTypes
  <2>3. QED
    BY <1>4, <2>1, <2>2 DEF Restart, MemTypes, pagerVars, poolVars, semVars
<1>5. QED  BY <1>1, <1>2, <1>3, <1>4 DEF Quit

\* Every step keeps the types.
LEMMA NextType ==
  ASSUME MemTypes, Evicting, [Next]_vars
  PROVE  MemTypes'
<1>1. CASE Next
  BY <1>1, CodeType, PagerType, LifeType DEF Next
<1>2. CASE UNCHANGED vars
  BY <1>2 DEF MemTypes, vars, pagerVars, poolVars, mmuVars, dataVars, semVars
<1>3. QED  BY <1>1, <1>2

-----------------------------------------------------------------------------
(* Mutual exclusion *)

\* The permit of swapPoolSemaphore is free and nobody is in the pool, or one
\* process works there and those that wait are about to.
Mutex ==
    /\ \A s \in Semaphore \ {swapPoolSemaphore} : \A a \in Asid :
          at[a] \in InPool => a \notin ToSet(queue[s])
    /\ IsInjective(mutexQueue)
    /\ \A p \in ToSet(mutexQueue) : p \in Asid /\ at[p] \in {"choose", "free"}
    /\ \/ /\ mutexCount = 1 /\ mutexQueue = <<>>
          /\ \A a \in Asid : at[a] \notin InPool
       \/ /\ mutexCount = 0
          /\ \E a \in Asid : Working(a) /\ \A b \in Asid : Working(b) => b = a

LEMMA EmptyQueue == ToSet(<<>>) = {} /\ IsInjective(<<>>)
BY DEF ToSet, IsInjective

LEMMA QueueTypes ==
  ASSUME MemTypes
  PROVE  /\ mutexQueue \in Seq(Process) /\ mutexCount \in Nat
          /\ InPool \cap InCode = {} /\ InPool \cap Elsewhere = {}
         /\ InCode \cap Elsewhere = {}
BY NamesDistinct DEF MemTypes, mutexQueue, mutexCount, InPool, InCode, Elsewhere

\* Processes that have come to the pool wait for nothing else.
LEMMA WaitsFacts ==
  ASSUME Mutex, NEW a \in Asid, at[a] \in InPool
  PROVE  Sem!Waits(a) <=> a \in ToSet(mutexQueue)
<1>1. \A s \in Semaphore : s # swapPoolSemaphore => a \notin ToSet(queue[s])
  BY DEF Mutex
<1>2. Sem!Waits(a) <=> \E s \in Semaphore : a \in ToSet(queue[s])
  BY DEF Sem!Waits, ToSet
<1>3. QED  BY <1>1, <1>2, NamesDistinct DEF mutexQueue

\* Two processes are never at work together.
LEMMA OneWorks ==
  ASSUME Mutex, NEW a \in Asid, NEW b \in Asid, Working(a), Working(b)
  PROVE  a = b
BY DEF Mutex, Working

\* A process that does not touch the semaphore stays in the pool, or out of it.
LEMMA MoveMutex ==
  ASSUME MemTypes, Mutex, NEW a \in Asid,
         NEW w, Go(a, w), UNCHANGED semVars,
         (at[a] \notin InPool /\ w \notin InPool) \/ (Working(a) /\ w \in InPool)
  PROVE  Mutex'
<1>1. /\ \A b \in Asid : at'[b] = IF b = a THEN w ELSE at[b]
      /\ count' = count /\ queue' = queue
      /\ mutexQueue' = mutexQueue /\ mutexCount' = mutexCount
  BY NamesDistinct DEF Go, MemTypes, semVars, mutexQueue, mutexCount
<1>2. a \notin ToSet(mutexQueue)
  BY DEF Mutex, Working, InPool
<1>3. \A b \in Asid : Working(b)' <=> Working(b)
  BY <1>1, <1>2 DEF Working
<1>4. \A p \in ToSet(mutexQueue) : at'[p] = at[p]
  BY <1>1, <1>2 DEF Mutex
<1>5. (\A b \in Asid : at[b] \notin InPool) => \A b \in Asid : at'[b] \notin InPool
  BY <1>1 DEF Working
<1>6. \A b \in Asid : at'[b] \in InPool => at[b] \in InPool
  BY <1>1 DEF Working
<1>7. QED  BY <1>1, <1>3, <1>4, <1>5, <1>6 DEF Mutex

\* P: a process that comes works, or waits for the one that does.
LEMMA EnterMutex ==
  ASSUME MemTypes, Mutex, NEW a \in Asid, NEW w \in {"choose", "free"}, Go(a, w),
         Sem!P(a, swapPoolSemaphore), at[a] \notin InPool
  PROVE  Mutex'
<1>1. /\ \A b \in Asid : at'[b] = IF b = a THEN w ELSE at[b]
      /\ w \in InPool
  BY NamesDistinct DEF Go, MemTypes, InPool
<1>2. /\ mutexQueue \in Seq(Process) /\ a \in Process
      /\ a \notin ToSet(mutexQueue) /\ \A s \in Semaphore : a \notin ToSet(queue[s])
  BY QueueTypes, NamesDistinct DEF Sem!P, Sem!Waits, ToSet, mutexQueue
<1>3. CASE mutexCount > 0
  <2>1. /\ mutexCount = 1 /\ mutexQueue = <<>>
        /\ \A b \in Asid : at[b] \notin InPool
    BY <1>3 DEF Mutex
  <2>2. /\ queue' = queue /\ mutexQueue' = mutexQueue /\ mutexCount' = 0
    BY <1>3, <2>1, NamesDistinct DEF Sem!P, mutexQueue, mutexCount, MemTypes
  <2>3. Working(a)' /\ \A b \in Asid : Working(b)' => b = a
    BY <1>1, <2>1, <2>2, EmptyQueue DEF Working
  <2>4. \A b \in Asid : at'[b] \in InPool => b = a
    BY <1>1, <2>1
  <2>5. QED  BY <1>2, <2>1, <2>2, <2>3, <2>4, EmptyQueue DEF Mutex
<1>4. CASE ~(mutexCount > 0)
  <2>1. /\ mutexCount = 0
        /\ \E c \in Asid : Working(c) /\ \A b \in Asid : Working(b) => b = c
    BY <1>4 DEF Mutex
  <2>2. /\ count' = count /\ mutexCount' = mutexCount
        /\ mutexQueue' = Append(mutexQueue, a)
        /\ \A s \in Semaphore : s # swapPoolSemaphore => queue'[s] = queue[s]
    BY <1>4, NamesDistinct DEF Sem!P, mutexQueue, mutexCount, MemTypes
  <2>3. ToSet(mutexQueue') = ToSet(mutexQueue) \cup {a} /\ IsInjective(mutexQueue')
    BY <1>2, <2>2, AppendFacts DEF Mutex
  <2>4. \A b \in Asid : Working(b)' <=> Working(b)
    BY <1>1, <2>3 DEF Working
  <2>5. \A p \in ToSet(mutexQueue') : p \in Asid /\ at'[p] \in {"choose", "free"}
    BY <1>1, <2>3 DEF Mutex
  <2>6. \A s \in Semaphore \ {swapPoolSemaphore} : \A b \in Asid :
           at'[b] \in InPool => b \notin ToSet(queue'[s])
    BY <1>1, <1>2, <2>2 DEF Mutex
  <2>7. QED  BY <2>1, <2>2, <2>3, <2>4, <2>5, <2>6 DEF Mutex
<1>5. QED  BY <1>3, <1>4

\* V: a process that goes leaves the pool to the one that has waited longest.
LEMMA LeaveMutex ==
  ASSUME MemTypes, Mutex, NEW a \in Asid, NEW w, w \notin InPool, Go(a, w),
         Sem!V(swapPoolSemaphore), Working(a)
  PROVE  Mutex'
<1>1. \A b \in Asid : at'[b] = IF b = a THEN w ELSE at[b]
  BY NamesDistinct DEF Go, MemTypes
<1>2. /\ mutexCount = 0 /\ \A b \in Asid : Working(b) => b = a
      /\ mutexQueue \in Seq(Process) /\ a \notin ToSet(mutexQueue)
  BY QueueTypes DEF Mutex, Working
<1>3. CASE mutexQueue = <<>>
  <2>1. queue' = queue /\ mutexQueue' = <<>> /\ mutexCount' = 1
    BY <1>2, <1>3, NamesDistinct DEF Sem!V, mutexQueue, mutexCount, MemTypes
  <2>2. \A b \in Asid : at'[b] \notin InPool
    BY <1>1, <1>2, <1>3, EmptyQueue DEF Working
  <2>3. QED  BY <2>1, <2>2, EmptyQueue DEF Mutex
<1>4. CASE mutexQueue # <<>>
  <2>1. /\ mutexCount' = mutexCount /\ mutexQueue' = Tail(mutexQueue)
        /\ \A s \in Semaphore : s # swapPoolSemaphore => queue'[s] = queue[s]
    BY <1>4, NamesDistinct DEF Sem!V, mutexQueue, mutexCount, MemTypes
  <2>2. PICK h \in ToSet(mutexQueue) :
           /\ h \notin ToSet(mutexQueue')
           /\ ToSet(mutexQueue) = ToSet(mutexQueue') \cup {h}
           /\ IsInjective(mutexQueue')
    BY <1>2, <1>4, <2>1, HeadTailFacts DEF Mutex
  <2>3. h \in Asid /\ at[h] \in {"choose", "free"} /\ h # a
    BY <1>2 DEF Mutex
  <2>4. Working(h)'
    BY <1>1, <2>2, <2>3 DEF Working, InPool
  <2>5. \A b \in Asid : Working(b)' => b = h
    BY <1>1, <1>2, <2>2 DEF Working
  <2>6. \A p \in ToSet(mutexQueue') : p \in Asid /\ at'[p] \in {"choose", "free"}
    BY <1>1, <1>2, <2>2 DEF Mutex
  <2>7. \E c \in Asid : Working(c)' /\ \A b \in Asid : Working(b)' => b = c
    BY <2>3, <2>4, <2>5
  <2>8. /\ \A s \in Semaphore \ {swapPoolSemaphore} : \A b \in Asid :
              at'[b] \in InPool => b \notin ToSet(queue'[s])
        /\ mutexCount' = 0
    BY <1>1, <1>2, <2>1 DEF Mutex
  <2>9. QED  BY <2>2, <2>6, <2>7, <2>8 DEF Mutex
<1>5. QED  BY <1>3, <1>4

\* Whoever has chosen a frame works.
LEMMA WorkerFacts ==
  ASSUME MemTypes, Mutex, NEW a \in Asid
  PROVE  /\ at[a] \in {"evict", "load", "trap"} => Working(a)
         /\ at[a] \in InPool /\ ~Sem!Waits(a) => Working(a)
BY WaitsFacts DEF Mutex, Working, InPool

\* Every step keeps the mutual exclusion.
LEMMA NextMutex ==
  ASSUME MemTypes, Mutex, [Next]_vars
  PROVE  Mutex'
<1>1. CASE UNCHANGED vars
  BY <1>1 DEF Mutex, Working, mutexQueue, mutexCount, vars, semVars
<1>2. ASSUME NEW a \in Asid, Code(a) PROVE Mutex'
  <2>1. CASE UNCHANGED <<at, semVars>>
    BY <2>1 DEF Mutex, Working, mutexQueue, mutexCount, semVars
  <2>2. CASE \E p \in Page : PageFault(a, p)
    <3>1. /\ at[a] \notin InPool /\ UNCHANGED semVars
          /\ \E w \in Elsewhere : w \notin InPool /\ Go(a, w)
      BY <2>2 DEF PageFault, InCode, InPool, Elsewhere
    <3>2. QED  BY <3>1, MoveMutex
  <2>3. QED
    BY <1>2, <2>1, <2>2 DEF Code, uTLB_RefillHandler, Store
<1>3. ASSUME NEW a \in Asid, pager(a) PROVE Mutex'
  <2>1. CASE EnterPool(a)
    BY <2>1, EnterMutex DEF EnterPool, InPool
  <2>2. CASE ChooseFrame(a)
    <3>1. Working(a) /\ UNCHANGED semVars /\ \E w \in InPool : Go(a, w)
      BY <2>2, WorkerFacts DEF ChooseFrame, InPool
    <3>2. QED  BY <3>1, MoveMutex
  <2>3. CASE WriteBack(a)
    <3>1. Working(a) /\ UNCHANGED semVars /\ \E w \in InPool : Go(a, w)
      BY <2>3, WorkerFacts DEF WriteBack, InPool
    <3>2. QED  BY <3>1, MoveMutex
  <2>4. CASE ReadIn(a)
    BY <2>4, WorkerFacts, LeaveMutex, QueueTypes DEF ReadIn, MemTypes
  <2>5. CASE ReadFails(a)
    <3>1. Working(a) /\ UNCHANGED semVars /\ \E w \in InPool : Go(a, w)
      BY <2>5, WorkerFacts DEF ReadFails, InPool
    <3>2. QED  BY <3>1, MoveMutex
  <2>6. CASE Trap(a)
    BY <2>6, WorkerFacts, LeaveMutex DEF Trap, InPool
  <2>7. QED  BY <1>3, <2>1, <2>2, <2>3, <2>4, <2>5, <2>6 DEF pager
<1>4. ASSUME NEW a \in Asid, Terminate(a) \/ Restart(a) PROVE Mutex'
  <2>1. /\ at[a] \notin InPool /\ UNCHANGED semVars
        /\ \E w \in InCode \cup Elsewhere : w \notin InPool /\ Go(a, w)
    BY <1>4 DEF Terminate, Restart, InPool, InCode, Elsewhere
  <2>2. QED  BY <2>1, MoveMutex
<1>5. ASSUME NEW a \in Asid, Quit(a) PROVE Mutex'
  <2>1. CASE EnterFree(a)
    BY <2>1, EnterMutex DEF EnterFree, InPool
  <2>2. CASE freeFrames(a)
    BY <2>2, WorkerFacts, LeaveMutex DEF freeFrames, InPool
  <2>3. QED  BY <1>5, <2>1, <2>2 DEF Quit
<1>6. QED  BY <1>1, <1>2, <1>3, <1>4, <1>5 DEF Next

\* The semaphore knows how many work on the pool.
LEMMA MutexCounts ==
  ASSUME MemTypes, Mutex
  PROVE  PoolExclusive
<1>1. Holders = {a \in Asid : Working(a)}
  BY WaitsFacts DEF Holders, Working
<1>2. CASE mutexCount = 1 /\ \A a \in Asid : at[a] \notin InPool
  <2>1. Holders = {}
    BY <1>1, <1>2 DEF Working
  <2>2. QED  BY <1>2, <2>1, FS_EmptySet DEF PoolExclusive, mutexCount
<1>3. CASE /\ mutexCount = 0
           /\ \E a \in Asid : Working(a) /\ \A b \in Asid : Working(b) => b = a
  <2>1. PICK a \in Asid : Holders = {a}
    BY <1>1, <1>3
  <2>2. Cardinality(Holders) = 1
    BY <2>1, FS_Singleton
  <2>3. QED  BY <1>3, <2>2 DEF PoolExclusive, mutexCount
<1>4. QED  BY <1>2, <1>3 DEF Mutex

-----------------------------------------------------------------------------
(* The swap pool table, the page tables and the TLB *)

\* An entry of the table names a page of the process it names.
Entries ==
    \A f \in Frame : swapPoolTable[f] # NULL =>
        /\ swapPoolTable[f].sw_pte[1] = swapPoolTable[f].sw_asid
        /\ swapPoolTable[f].sw_pageNo = Vpn(swapPoolTable[f].sw_pte[2])

\* While the pager works on a frame no PTE points there, nor does that of the
\* page which is written back point elsewhere.
Victims ==
    \A a \in Asid :
        /\ at[a] \in {"evict", "load"} => \A k \in Key : pte[k] # frameVictim[a]
        /\ at[a] = "evict" => /\ swapPoolTable[frameVictim[a]] # NULL
                              /\ pte[swapPoolTable[frameVictim[a]].sw_pte] = NULL

\* A process that has given back its frames has none, and is over soon.
Over == {"freed", "signalled", "absent"}
Freed ==
    \A a \in Asid : at[a] \in Over =>
        \A f \in Frame : swapPoolTable[f] # NULL => swapPoolTable[f].sw_asid # a

\* The page that the pager is about to load is not valid.
Faults ==
    \A a \in Asid :
        at[a] \in {"fault", "choose", "evict", "load"} => pte[<<a, missingPage[a]>>] = NULL

TableInv ==
    Entries /\ FrameExclusive /\ TLBCoherent /\ Victims /\ Freed /\ Faults

\* No page of a freed process is valid.
LEMMA FreedPages ==
  ASSUME MemTypes, TableInv, NEW a \in Asid, at[a] \in Over, NEW k \in Key, k[1] = a
  PROVE  pte[k] = NULL
<1>1. SUFFICES ASSUME pte[k] # NULL PROVE FALSE  OBVIOUS
<1>2. /\ pte[k] \in Frame /\ swapPoolTable[pte[k]] # NULL
      /\ swapPoolTable[pte[k]].sw_pte = k
  BY <1>1 DEF TableInv, FrameExclusive, MemTypes
<1>3. swapPoolTable[pte[k]].sw_asid = a
  BY <1>2 DEF TableInv, Entries
<1>4. QED  BY <1>2, <1>3 DEF TableInv, Freed

\* A process that moves, while the table and the PTEs stay.
LEMMA MoveTables ==
  ASSUME MemTypes, TableInv, NEW a \in Asid, NEW w, Go(a, w),
         UNCHANGED <<swapPoolTable, mmuVars>>,
         \A b \in Asid : b # a => /\ frameVictim'[b] = frameVictim[b]
                                 /\ missingPage'[b] = missingPage[b],
         w # "evict", w \in Over => at[a] \in Over,
         w = "load" => at[a] = "evict" /\ frameVictim'[a] = frameVictim[a],
         w \in {"fault", "choose", "load"} => pte[<<a, missingPage'[a]>>] = NULL
  PROVE  TableInv'
<1>1. /\ \A b \in Asid : at'[b] = IF b = a THEN w ELSE at[b]
      /\ pte' = pte /\ tlb' = tlb /\ swapPoolTable' = swapPoolTable
  BY NamesDistinct DEF Go, MemTypes, mmuVars
<1>2. (Entries /\ FrameExclusive /\ TLBCoherent)'
  BY <1>1 DEF TableInv, Entries, FrameExclusive, TLBCoherent
<1>3. Victims'
  BY <1>1 DEF TableInv, Victims
<1>4. Freed'
  BY <1>1 DEF TableInv, Freed
<1>5. Faults'
  BY <1>1 DEF TableInv, Faults
<1>6. QED  BY <1>2, <1>3, <1>4, <1>5 DEF TableInv

\* What a process does in its own code.
LEMMA CodeTables ==
  ASSUME MemTypes, TableInv, NEW a \in Asid, Code(a)
  PROVE  TableInv'
<1>1. PICK p \in Page : uTLB_RefillHandler(a, p) \/ Store(a, p) \/ PageFault(a, p)
  BY DEF Code
<1>2. <<a, p>> \in Key /\ vpnToPage(Vpn(p)) = p /\ pageMissing(Vpn(p)) = p
  BY VpnFacts DEF Key
<1>3. CASE uTLB_RefillHandler(a, p)
  <2>1. TLBCoherent'
    <3>1. PICK other \in Key :
             tlb' = [tlb EXCEPT ![other] = OUT, ![<<a, p>>] = pte[<<a, p>>]]
      BY <1>2, <1>3 DEF uTLB_RefillHandler
    <3>2. pte' = pte
      BY <1>3 DEF uTLB_RefillHandler
    <3>3. \A k \in Key : tlb'[k] \in {OUT, pte[k], tlb[k]}
      BY <1>2, <3>1 DEF MemTypes
    <3>4. QED  BY <3>2, <3>3 DEF TableInv, TLBCoherent
  <2>2. UNCHANGED <<at, swapPoolTable, pte, frameVictim, missingPage>>
    BY <1>3 DEF uTLB_RefillHandler, pagerVars, poolVars
  <2>3. QED
    BY <2>1, <2>2 DEF TableInv, Entries, FrameExclusive, Victims, Freed, Faults
<1>4. CASE Store(a, p)
  <2>1. UNCHANGED <<at, swapPoolTable, pte, tlb, frameVictim, missingPage>>
    BY <1>4 DEF Store, pagerVars, poolVars, mmuVars
  <2>2. QED
    BY <2>1 DEF TableInv, Entries, FrameExclusive, TLBCoherent, Victims, Freed, Faults
<1>5. CASE PageFault(a, p)
  <2>1. pte[<<a, p>>] = NULL
    BY <1>2, <1>5, NamesDistinct DEF PageFault, TableInv, TLBCoherent
  <2>2. /\ Go(a, "fault") /\ UNCHANGED <<swapPoolTable, mmuVars, frameVictim>>
        /\ missingPage'[a] = p
        /\ \A b \in Asid : b # a => missingPage'[b] = missingPage[b]
    BY <1>2, <1>5 DEF PageFault, poolVars, MemTypes
  <2>3. QED  BY <2>1, <2>2, MoveTables DEF Over
<1>6. QED  BY <1>1, <1>3, <1>4, <1>5

\* The pager takes the first free frame, or takes one away from its page.
LEMMA ChooseTables ==
  ASSUME MemTypes, Mutex, TableInv, NEW a \in Asid, ChooseFrame(a)
  PROVE  TableInv'
<1>1. /\ at[a] = "choose" /\ Working(a) /\ UNCHANGED <<swapPoolTable, missingPage>>
      /\ pte[<<a, missingPage[a]>>] = NULL
  BY WorkerFacts DEF ChooseFrame, InPool, TableInv, Faults
<1>2. CASE /\ Free # {} /\ Go(a, "load") /\ UNCHANGED <<fifoPages, mmuVars>>
           /\ \E f \in Free : frameVictim' = [frameVictim EXCEPT ![a] = f]
  <2>1. PICK f \in Frame : /\ swapPoolTable[f] = NULL
                           /\ frameVictim' = [frameVictim EXCEPT ![a] = f]
    BY <1>2 DEF Free
  <2>2. \A k \in Key : pte[k] # f
    BY <2>1, NamesDistinct DEF TableInv, FrameExclusive
  <2>3. /\ \A b \in Asid : at'[b] = IF b = a THEN "load" ELSE at[b]
        /\ \A b \in Asid : frameVictim'[b] = IF b = a THEN f ELSE frameVictim[b]
        /\ pte' = pte /\ tlb' = tlb
    BY <1>2, <2>1, NamesDistinct DEF Go, MemTypes, mmuVars
  <2>4. (Entries /\ FrameExclusive /\ TLBCoherent)'
    BY <1>1, <2>3 DEF TableInv, Entries, FrameExclusive, TLBCoherent
  <2>5. Victims'
    BY <1>1, <2>2, <2>3 DEF TableInv, Victims
  <2>6. (Freed /\ Faults)'
    BY <1>1, <2>3 DEF TableInv, Freed, Faults, Over
  <2>7. QED  BY <2>4, <2>5, <2>6 DEF TableInv
<1>3. CASE /\ Free = {} /\ Go(a, "evict")
           /\ frameVictim' = [frameVictim EXCEPT ![a] = fifoPages]
           /\ atomicRefresh(swapPoolTable[fifoPages].sw_pte, NULL)
  <2> DEFINE f == fifoPages
             v == swapPoolTable[f].sw_pte
  <2>1. f \in Frame /\ swapPoolTable[f] # NULL /\ v \in Key
    BY <1>3 DEF Free, MemTypes, SwapEntry
  <2>2. /\ \A k \in Key : pte'[k] = IF k = v THEN NULL ELSE pte[k]
        /\ \A k \in Key : tlb'[k] = IF k = v /\ tlb[k] # OUT THEN NULL ELSE tlb[k]
    BY <1>3, <2>1 DEF atomicRefresh, MemTypes
  <2>3. /\ \A b \in Asid : at'[b] = IF b = a THEN "evict" ELSE at[b]
        /\ \A b \in Asid : frameVictim'[b] = IF b = a THEN f ELSE frameVictim[b]
    BY <1>3, NamesDistinct DEF Go, MemTypes
  <2>4. f # NULL
    BY <2>1, NamesDistinct
  <2>5. \A k \in Key : pte[k] = f => k = v
    BY <2>4 DEF TableInv, FrameExclusive
  <2>6. \A b \in Asid : b # a => at[b] \notin {"evict", "load"}
    BY <1>1, WorkerFacts, OneWorks
  <2> HIDE DEF v, f
  <2>7. Entries'
    BY <1>1 DEF TableInv, Entries
  <2>8. FrameExclusive'
    BY <1>1, <2>2 DEF TableInv, FrameExclusive
  <2>9. TLBCoherent'
    BY <2>2 DEF TableInv, TLBCoherent
  <2>10. Victims'
    <3>1. \A k \in Key : pte'[k] # f
      BY <2>2, <2>4, <2>5
    <3>2. swapPoolTable'[f] # NULL /\ pte'[swapPoolTable'[f].sw_pte] = NULL
      BY <1>1, <2>1, <2>2 DEF v
    <3>3. QED  BY <2>3, <2>6, <3>1, <3>2 DEF Victims
  <2>11. Freed'
    BY <1>1, <2>3 DEF TableInv, Freed, Over
  <2>12. Faults'
    <3>1. \A b \in Asid : <<b, missingPage[b]>> \in Key
      BY DEF MemTypes, Key
    <3>2. \A b \in Asid : at'[b] \in {"fault", "choose", "evict", "load"}
                           => at[b] \in {"fault", "choose", "evict", "load"}
      BY <1>1, <2>3
    <3>3. QED  BY <1>1, <2>2, <3>1, <3>2 DEF TableInv, Faults
  <2>13. QED  BY <2>7, <2>8, <2>9, <2>10, <2>11, <2>12 DEF TableInv
<1>4. QED  BY <1>2, <1>3 DEF ChooseFrame

\* The page that is read gets the frame, in the table and in its PTE.
LEMMA ReadInTables ==
  ASSUME MemTypes, Mutex, TableInv, NEW a \in Asid, ReadIn(a)
  PROVE  TableInv'
<1> DEFINE f == frameVictim[a]
           m == missingPage[a]
           k == <<a, m>>
           e == [sw_asid |-> a, sw_pageNo |-> Vpn(m), sw_pte |-> k]
<1>1. /\ at[a] = "load" /\ Working(a) /\ f \in Frame /\ m \in Page /\ k \in Key
      /\ back[a] \in InCode
  BY WorkerFacts DEF ReadIn, MemTypes, Key
<1>2. e \in SwapEntry /\ e # NULL
  BY <1>1, EntryAssumption DEF SwapEntry
<1>3. /\ e.sw_pte = k /\ e.sw_asid = a /\ e.sw_pageNo = Vpn(m) /\ k[1] = a /\ k[2] = m
  OBVIOUS
<1>4. \A j \in Key : pte[j] # f
  BY <1>1 DEF TableInv, Victims
<1>5. \A b \in Asid : b # a => at[b] \notin {"evict", "load"}
  BY <1>1, WorkerFacts, OneWorks
<1>6. \A b \in Asid : at'[b] = IF b = a THEN back[a] ELSE at[b]
  BY NamesDistinct DEF ReadIn, Go, MemTypes
<1>7. \A b \in Asid : b # a => missingPage'[b] = missingPage[b]
  BY DEF ReadIn, Return, MemTypes
<1>8. /\ \A j \in Key : pte'[j] = IF j = k THEN f ELSE pte[j]
      /\ \A j \in Key : tlb'[j] = IF j = k /\ tlb[j] # OUT THEN f ELSE tlb[j]
  <2>1. atomicRefresh(k, f)
    BY DEF ReadIn
  <2> HIDE DEF k, f
  <2>2. QED  BY <1>1, <2>1 DEF atomicRefresh, MemTypes
<1>9. \A g \in Frame : swapPoolTable'[g] = IF g = f THEN e ELSE swapPoolTable[g]
  <2>1. swapPoolTable' = [swapPoolTable EXCEPT ![f] = e]
    BY DEF ReadIn
  <2> HIDE DEF e, f
  <2>2. QED  BY <2>1 DEF MemTypes
<1> HIDE DEF e, k, f, m
<1>10. Entries'
  BY <1>3, <1>9 DEF TableInv, Entries
<1>11. FrameExclusive'
  <2>1. SUFFICES ASSUME NEW j \in Key, pte'[j] # NULL
                 PROVE  swapPoolTable'[pte'[j]] # NULL /\ swapPoolTable'[pte'[j]].sw_pte = j
    BY DEF FrameExclusive
  <2>2. CASE j = k
    BY <1>1, <1>2, <1>3, <1>8, <1>9, <2>2
  <2>3. CASE j # k
    <3>1. pte'[j] = pte[j] /\ pte[j] # f /\ pte[j] \in Frame
      BY <1>4, <1>8, <2>1, <2>3 DEF MemTypes
    <3>2. QED  BY <1>9, <2>1, <3>1 DEF TableInv, FrameExclusive
  <2>4. QED  BY <2>2, <2>3
<1>12. TLBCoherent'
  BY <1>8 DEF TableInv, TLBCoherent
<1>13. Victims'
  BY <1>1, <1>5, <1>6 DEF Victims, InCode
<1>14. Freed'
  <2>1. \A b \in Asid : at'[b] \in Over => at[b] \in Over /\ b # a
    BY <1>1, <1>6 DEF InCode, Over
  <2>2. QED  BY <1>3, <1>9, <2>1 DEF TableInv, Freed
<1>15. Faults'
  <2>1. \A b \in Asid : at'[b] \in {"fault", "choose", "evict", "load"}
           => b # a /\ at[b] \in {"fault", "choose", "evict", "load"}
    BY <1>1, <1>6 DEF InCode
  <2>2. \A b \in Asid : <<b, missingPage[b]>> \in Key /\ (b # a => <<b, missingPage[b]>> # k)
    BY DEF MemTypes, Key, k
  <2>3. QED  BY <1>7, <1>8, <2>1, <2>2 DEF TableInv, Faults
<1>16. QED  BY <1>10, <1>11, <1>12, <1>13, <1>14, <1>15 DEF TableInv

LEMMA PagerTables ==
  ASSUME MemTypes, Mutex, TableInv, NEW a \in Asid, pager(a)
  PROVE  TableInv'
<1>1. at[a] \in {"fault", "evict", "load"} => pte[<<a, missingPage[a]>>] = NULL
  BY DEF TableInv, Faults
<1>2. CASE EnterPool(a)
  <2>1. /\ at[a] = "fault" /\ Go(a, "choose")
        /\ UNCHANGED <<swapPoolTable, mmuVars, frameVictim, missingPage>>
    BY <1>2 DEF EnterPool, pagerVars, poolVars
  <2>2. QED  BY <1>1, <2>1, MoveTables DEF Over
<1>3. CASE WriteBack(a)
  <2>1. /\ at[a] = "evict" /\ (Go(a, "load") \/ Go(a, "trap"))
        /\ UNCHANGED <<swapPoolTable, mmuVars, frameVictim, missingPage>>
    BY <1>3 DEF WriteBack, pagerVars, poolVars
  <2>2. QED  BY <1>1, <2>1, MoveTables DEF Over
<1>4. CASE ReadFails(a)
  <2>1. Go(a, "trap") /\ UNCHANGED <<swapPoolTable, mmuVars, frameVictim, missingPage>>
    BY <1>4 DEF ReadFails, pagerVars, poolVars
  <2>2. QED  BY <2>1, MoveTables DEF Over
<1>5. CASE Trap(a)
  <2>1. /\ Go(a, "quit") /\ UNCHANGED <<swapPoolTable, mmuVars>>
        /\ \A b \in Asid : b # a => /\ frameVictim'[b] = frameVictim[b]
                                   /\ missingPage'[b] = missingPage[b]
    BY <1>5 DEF Trap, Return, poolVars, MemTypes
  <2>2. QED  BY <2>1, MoveTables DEF Over
<1>6. QED
  BY <1>2, <1>3, <1>4, <1>5, ChooseTables, ReadInTables DEF pager

\* freeFrames takes the frames of a process away, with the PTEs that point there.
LEMMA FreeTables ==
  ASSUME MemTypes, Mutex, TableInv, NEW a \in Asid, freeFrames(a)
  PROVE  TableInv'
<1> DEFINE gone == {swapPoolTable[f].sw_pte : f \in FramesOf(a)}
<1>1. /\ at[a] = "free" /\ Working(a) /\ missingPage' = missingPage
      /\ \A b \in Asid : at'[b] = IF b = a THEN "freed" ELSE at[b]
  BY WorkerFacts, NamesDistinct DEF freeFrames, InPool, pagerVars, Go, MemTypes
<1>2. /\ \A k \in Key : pte'[k] = IF k \in gone THEN NULL ELSE pte[k]
      /\ \A k \in Key : tlb'[k] = IF k \in gone /\ tlb[k] # OUT THEN NULL ELSE tlb[k]
      /\ \A f \in Frame : swapPoolTable'[f] =
             IF f \in FramesOf(a) THEN NULL ELSE swapPoolTable[f]
  BY DEF freeFrames
<1>3. \A b \in Asid : at'[b] \notin {"evict", "load"}
  BY <1>1, WorkerFacts, OneWorks
<1>4. Entries'
  BY <1>2 DEF TableInv, Entries
<1>5. FrameExclusive'
  <2>1. SUFFICES ASSUME NEW j \in Key, pte'[j] # NULL
                 PROVE  swapPoolTable'[pte'[j]] # NULL /\ swapPoolTable'[pte'[j]].sw_pte = j
    BY DEF FrameExclusive
  <2>2. j \notin gone /\ pte'[j] = pte[j] /\ pte[j] \in Frame
    BY <1>2, <2>1 DEF MemTypes
  <2>3. swapPoolTable[pte[j]] # NULL /\ swapPoolTable[pte[j]].sw_pte = j
    BY <2>1, <2>2 DEF TableInv, FrameExclusive
  <2>4. pte[j] \notin FramesOf(a)
    BY <2>2, <2>3
  <2>5. QED  BY <1>2, <2>2, <2>3, <2>4
<1> HIDE DEF gone
<1>6. TLBCoherent'
  BY <1>2 DEF TableInv, TLBCoherent
<1>7. Victims'
  BY <1>3 DEF Victims
<1>8. Freed'
  <2>1. \A f \in Frame : swapPoolTable'[f] # NULL =>
           swapPoolTable'[f] = swapPoolTable[f] /\ swapPoolTable[f].sw_asid # a
    BY <1>2 DEF FramesOf
  <2>2. QED  BY <1>1, <2>1 DEF TableInv, Freed
<1>9. Faults'
  <2>1. \A b \in Asid : <<b, missingPage[b]>> \in Key
    BY DEF MemTypes, Key
  <2>2. QED  BY <1>1, <1>2, <2>1 DEF TableInv, Faults
<1>10. QED  BY <1>4, <1>5, <1>6, <1>7, <1>8, <1>9 DEF TableInv

\* The page table of a process that starts again has no valid entry already.
LEMMA RestartPages ==
  ASSUME MemTypes, TableInv, NEW a \in Asid, at[a] \in Over, initSupportStructure(a)
  PROVE  UNCHANGED <<pte, tlb>>
<1>1. /\ tlb' = tlb
      /\ pte' = [k \in Key |-> IF k[1] = a THEN NULL ELSE pte[k]]
  BY DEF initSupportStructure
<1>2. \A k \in Key : pte'[k] = pte[k]
  BY <1>1, FreedPages
<1>3. QED  BY <1>1, <1>2 DEF MemTypes

LEMMA LifeTables ==
  ASSUME MemTypes, Mutex, TableInv, NEW a \in Asid,
         Terminate(a) \/ Quit(a) \/ Restart(a)
  PROVE  TableInv'
<1>1. CASE Terminate(a)
  <2>1. Go(a, "quit") /\ UNCHANGED <<swapPoolTable, mmuVars, frameVictim, missingPage>>
    BY <1>1 DEF Terminate, pagerVars, poolVars
  <2>2. QED  BY <2>1, MoveTables DEF Over
<1>2. CASE EnterFree(a)
  <2>1. Go(a, "free") /\ UNCHANGED <<swapPoolTable, mmuVars, frameVictim, missingPage>>
    BY <1>2 DEF EnterFree, pagerVars, poolVars
  <2>2. QED  BY <2>1, MoveTables DEF Over
<1>3. CASE Restart(a)
  <2>1. Go(a, "user") /\ UNCHANGED <<swapPoolTable, mmuVars, frameVictim, missingPage>>
    BY <1>3, RestartPages DEF Restart, Over, pagerVars, poolVars, mmuVars
  <2>2. QED  BY <2>1, MoveTables DEF Over
<1>4. QED  BY <1>1, <1>2, <1>3, FreeTables DEF Quit

\* What every state satisfies, whatever the flash devices do.
PoolInv == MemTypes /\ Mutex /\ TableInv

LEMMA InitPoolInv == Init => PoolInv
<1> SUFFICES ASSUME Init PROVE PoolInv  OBVIOUS
<1>1. MemTypes
  BY InitType
<1>2. /\ \A a \in Asid : at[a] = "user" /\ at[a] \notin InPool
      /\ \A s \in Semaphore : queue[s] = <<>>
      /\ mutexQueue = <<>> /\ mutexCount = 1
  BY NamesDistinct DEF Init, InitPool, InPool, mutexQueue, mutexCount
<1>3. Mutex
  BY <1>2, EmptyQueue DEF Mutex
<1>4. TableInv
  BY <1>2 DEF Init, InitPool, TableInv, Entries, FrameExclusive, TLBCoherent,
              Victims, Freed, Faults
<1>5. QED  BY <1>1, <1>3, <1>4 DEF PoolInv

LEMMA NextPoolInv == ASSUME PoolInv, [Next]_vars PROVE PoolInv'
<1>1. MemTypes /\ Mutex /\ TableInv /\ Evicting
  BY DEF PoolInv, TableInv, Victims, Evicting
<1>2. MemTypes' /\ Mutex'
  BY <1>1, NextType, NextMutex
<1>3. TableInv'
  <2>1. CASE Next
    BY <1>1, <2>1, CodeTables, PagerTables, LifeTables DEF Next
  <2>2. CASE UNCHANGED vars
    BY <1>1, <2>2
       DEF vars, pagerVars, poolVars, mmuVars, TableInv, Entries, FrameExclusive,
           TLBCoherent, Victims, Freed, Faults
  <2>3. QED  BY <2>1, <2>2
<1>4. QED  BY <1>2, <1>3 DEF PoolInv

\* A step of a module built on SwapPool, beside the memory: who is in the pager, or
\* in the pool, stays there, and nobody comes.
PagerStates == InPool \cup {"fault"}

BesidePager ==
    /\ at' \in [Process -> Doing]
    /\ count' \in [Semaphore -> Nat] /\ queue' \in [Semaphore -> Seq(Process)]
    /\ \A a \in Asid : at'[a] = at[a] \/ (at[a] \notin PagerStates /\ at'[a] \notin PagerStates)
    /\ \A a \in Asid : at'[a] \in Over => at[a] \in Over
    /\ mutexCount' = mutexCount
    /\ IsInjective(mutexQueue') /\ ToSet(mutexQueue') = ToSet(mutexQueue)
    /\ \A s \in Semaphore \ {swapPoolSemaphore} : \A a \in Asid :
          at[a] \in InPool /\ a \notin ToSet(queue[s]) => a \notin ToSet(queue'[s])

LEMMA NobodyElse == ASSUME NEW S, NEW q \in Seq(S), ToSet(q) = {} PROVE q = <<>>
BY HeadTailFacts

LEMMA BesidePool ==
  ASSUME PoolInv, BesidePager, UNCHANGED <<pagerVars, poolVars, mmuVars>>,
         frames' \in [Key -> SUBSET Frame], flash' \in SUBSET Key
  PROVE  PoolInv'
<1>1. MemTypes /\ Mutex /\ TableInv
  BY DEF PoolInv
<1>2. /\ UNCHANGED <<back, missingPage, frameVictim, swapPoolTable, fifoPages, pte, tlb>>
      /\ UNCHANGED <<swapPoolTable, pte, tlb, frameVictim, missingPage>>
  BY DEF pagerVars, poolVars, mmuVars
<1>3. MemTypes'
  BY <1>1, <1>2 DEF MemTypes, BesidePager
<1>4. /\ \A a \in Asid : at'[a] \in InPool \/ at[a] \in InPool => at'[a] = at[a]
      /\ \A a \in Asid : Working(a)' <=> Working(a)
  BY DEF BesidePager, PagerStates, Working
<1>5. Mutex'
  <2>1. mutexQueue = <<>> => mutexQueue' = <<>>
    <3>1. mutexQueue' \in Seq(Process)
      BY NamesDistinct DEF BesidePager, mutexQueue
    <3>2. QED  BY <3>1, NobodyElse, EmptyQueue DEF BesidePager
  <2>2. \A p \in ToSet(mutexQueue') : p \in Asid /\ at'[p] \in {"choose", "free"}
    BY <1>1, <1>4 DEF Mutex, BesidePager, InPool
  <2>3. \A s \in Semaphore \ {swapPoolSemaphore} : \A a \in Asid :
           at'[a] \in InPool => a \notin ToSet(queue'[s])
    BY <1>1, <1>4 DEF Mutex, BesidePager
  <2>4. \/ /\ mutexCount' = 1 /\ mutexQueue' = <<>>
           /\ \A a \in Asid : at'[a] \notin InPool
        \/ /\ mutexCount' = 0
           /\ \E a \in Asid : Working(a)' /\ \A b \in Asid : Working(b)' => b = a
    <3>1. mutexCount' = mutexCount
      BY DEF BesidePager
    <3>2. QED  BY <1>1, <1>4, <2>1, <3>1 DEF Mutex
  <2>5. IsInjective(mutexQueue')
    BY DEF BesidePager
  <2>6. QED  BY <2>2, <2>3, <2>4, <2>5 DEF Mutex
<1>6. TableInv'
  <2>1. \A a \in Asid : /\ at'[a] \in PagerStates => at'[a] = at[a]
                        /\ at'[a] \in Over => at[a] \in Over
    BY DEF BesidePager
  <2>2. (Entries /\ FrameExclusive /\ TLBCoherent)'
    BY <1>1, <1>2 DEF TableInv, Entries, FrameExclusive, TLBCoherent
  <2>3. Victims' /\ Faults'
    BY <1>1, <1>2, <2>1 DEF TableInv, Victims, Faults, PagerStates, InPool
  <2>4. Freed'
    BY <1>1, <1>2, <2>1 DEF TableInv, Freed
  <2>5. QED  BY <2>2, <2>3, <2>4 DEF TableInv
<1>7. QED  BY <1>3, <1>5, <1>6 DEF PoolInv

\* Such is a step of one process outside the pager, with a P or a V elsewhere.
LEMMA MoveBeside ==
  ASSUME PoolInv, NEW a \in Process, NEW w \in Doing \ PagerStates, Go(a, w),
         NEW s \in Semaphore \ {swapPoolSemaphore},
         Sem!P(a, s) \/ Sem!V(s) \/ UNCHANGED semVars,
         at[a] \notin PagerStates, w \in Over => at[a] \in Over
  PROVE  BesidePager
<1>1. /\ Mutex /\ at \in [Process -> Doing]
      /\ count \in [Semaphore -> Nat] /\ queue \in [Semaphore -> Seq(Process)]
  BY DEF PoolInv, MemTypes
<1>2. /\ \A b \in Process : at'[b] = IF b = a THEN w ELSE at[b]
      /\ at' \in [Process -> Doing]
  BY <1>1 DEF Go
<1>3. /\ count' \in [Semaphore -> Nat] /\ queue' \in [Semaphore -> Seq(Process)]
      /\ \A t \in Semaphore : t # s => count'[t] = count[t] /\ queue'[t] = queue[t]
      /\ ToSet(queue'[s]) \subseteq ToSet(queue[s]) \cup {a}
  <2>1. CASE Sem!P(a, s)
    <3>1. ToSet(Append(queue[s], a)) = ToSet(queue[s]) \cup {a}
      BY <1>1, AppendFacts
    <3>2. QED  BY <1>1, <2>1, <3>1, PStep
  <2>2. CASE Sem!V(s)
    <3>1. queue[s] # <<>> => ToSet(Tail(queue[s])) \subseteq ToSet(queue[s])
      BY <1>1, HeadTailFacts
    <3>2. QED  BY <1>1, <2>2, <3>1, VStep
  <2>3. CASE UNCHANGED semVars
    BY <1>1, <2>3 DEF semVars
  <2>4. QED  BY <2>1, <2>2, <2>3
<1>4. /\ mutexCount' = mutexCount /\ mutexQueue' = mutexQueue /\ IsInjective(mutexQueue)
  BY <1>1, <1>3, NamesDistinct DEF mutexCount, mutexQueue, Mutex
<1>5. \A t \in Semaphore \ {swapPoolSemaphore} : \A b \in Asid :
         at[b] \in InPool /\ b \notin ToSet(queue[t]) => b \notin ToSet(queue'[t])
  BY <1>3 DEF PagerStates
<1>6. \A b \in Asid : /\ at'[b] = at[b] \/ (at[b] \notin PagerStates /\ at'[b] \notin PagerStates)
                      /\ at'[b] \in Over => at[b] \in Over
  BY <1>2, NamesDistinct
<1>7. QED  BY <1>2, <1>3, <1>4, <1>5, <1>6 DEF BesidePager

\* What the invariant says to a reader of SwapPool.
LEMMA PoolFacts ==
  ASSUME PoolInv
  PROVE  PoolExclusive /\ FrameExclusive /\ TLBCoherent
BY MutexCounts DEF PoolInv, TableInv

LEMMA PoolInvariant == Spec => []PoolInv
<1>1. Init => PoolInv
  BY InitPoolInv
<1>2. PoolInv /\ [Next]_vars => PoolInv'
  BY NextPoolInv
<1>3. QED  BY <1>1, <1>2, PTL DEF Spec

\* The processes of SwapPool do what SwapPool says.
AtHere == at \in [Process -> InCode \cup InPool \cup Elsewhere]

LEMMA StayHere ==
  ASSUME MemTypes, AtHere, [Next]_vars
  PROVE  AtHere'
<1> DEFINE W == InCode \cup InPool \cup Elsewhere
<1>1. ASSUME NEW a \in Asid,
             Code(a) \/ pager(a) \/ Terminate(a) \/ Quit(a) \/ Restart(a)
      PROVE  at' = at \/ \E w \in W : Go(a, w)
  <2>1. back[a] \in InCode
    BY DEF MemTypes
  <2>2. CASE Code(a)
    BY <2>2 DEF Code, uTLB_RefillHandler, Store, PageFault, Elsewhere
  <2>3. CASE EnterPool(a) \/ ChooseFrame(a) \/ WriteBack(a) \/ ReadFails(a)
    BY <2>3 DEF EnterPool, ChooseFrame, WriteBack, ReadFails, InPool
  <2>4. CASE ReadIn(a) \/ Trap(a)
    BY <2>1, <2>4 DEF ReadIn, Trap, Elsewhere
  <2>5. CASE Terminate(a) \/ Quit(a) \/ Restart(a)
    BY <2>5 DEF Terminate, Quit, EnterFree, freeFrames, Restart, InCode, InPool, Elsewhere
  <2>6. QED  BY <1>1, <2>2, <2>3, <2>4, <2>5 DEF pager
<1>2. CASE UNCHANGED vars
  BY <1>2 DEF vars, AtHere
<1>3. CASE Next
  <2>1. \E a \in Asid : at' = at \/ \E w \in W : Go(a, w)
    BY <1>1, <1>3 DEF Next
  <2>2. QED  BY <2>1 DEF Go, AtHere
<1>4. QED  BY <1>2, <1>3

\* Every variable of the support level's memory has its type; in particular only
\* frames that belong to a page are ever written back, to a block that exists.
THEOREM PoolTypeCorrect == Spec => []TypeOK
<1>1. Init => AtHere
  BY DEF Init, InCode, AtHere
<1>2. PoolInv /\ AtHere /\ [Next]_vars => AtHere'
  BY StayHere DEF PoolInv
<1>3. PoolInv /\ AtHere => TypeOK
  BY DEF PoolInv, MemTypes, TypeOK, AtHere
<1>4. QED  BY <1>1, <1>2, <1>3, PoolInvariant, PTL DEF Spec

\* At most one process is at work on the swap pool, and the semaphore knows, for
\* any number of processes that fault, fail and terminate.
THEOREM PoolExclusiveCorrect == Spec => []PoolExclusive
<1>1. PoolInv => PoolExclusive
  BY MutexCounts DEF PoolInv
<1>2. QED  BY <1>1, PoolInvariant, PTL

\* A valid PTE is that of the page that the table has in its frame: no frame is
\* shared, also after errors of the flash devices.
THEOREM FrameExclusiveCorrect == Spec => []FrameExclusive
<1>1. PoolInv => FrameExclusive
  BY DEF PoolInv, TableInv
<1>2. QED  BY <1>1, PoolInvariant, PTL

\* The TLB never has an entry that differs from the page table's, through
\* evictions by others, and the death and the return of an ASID.
THEOREM TLBCoherentCorrect == Spec => []TLBCoherent
<1>1. PoolInv => TLBCoherent
  BY DEF PoolInv, TableInv
<1>2. QED  BY <1>1, PoolInvariant, PTL

-----------------------------------------------------------------------------
(* Without errors of the flash devices *)

\* The PTE of the page that the table has in a frame points there, except while
\* the pager works on the frame.
Exact ==
    \A f \in Frame : swapPoolTable[f] # NULL =>
        \/ pte[swapPoolTable[f].sw_pte] = f
        \/ \E a \in Asid : at[a] \in {"evict", "load"} /\ frameVictim[a] = f

\* A valid page is in its frame.
Resident == \A k \in Key : pte[k] # NULL => pte[k] \in frames[k]

\* Any other page is on the flash, unless it is on its way there or of no use.
Stored ==
    \A k \in Key : pte[k] = NULL =>
        \/ k \in flash
        \/ at[k[1]] \in Over
        \/ \E a \in Asid : at[a] = "evict" /\ swapPoolTable[frameVictim[a]].sw_pte = k

\* What is on its way there is the page.
Leaving ==
    \A a \in Asid : at[a] = "evict" =>
        frameVictim[a] \in frames[swapPoolTable[frameVictim[a]].sw_pte]

DataInv ==
    /\ \A a \in Asid : at[a] # "trap"
    /\ Exact /\ Resident /\ Stored /\ Leaving

\* Nobody else works on a frame.
LEMMA Alone ==
  ASSUME MemTypes, Mutex, NEW a \in Asid, Working(a)
  PROVE  \A b \in Asid : b # a => at[b] \notin {"evict", "load"}
BY WorkerFacts, OneWorks

\* A process that moves, while tables and data stay.
LEMMA MoveData ==
  ASSUME MemTypes, DataInv, NEW a \in Asid, NEW w, Go(a, w),
         UNCHANGED <<swapPoolTable, pte, dataVars>>,
         \A b \in Asid : b # a => frameVictim'[b] = frameVictim[b],
         at[a] \notin {"evict", "load"}, w \notin {"evict", "trap"},
         at[a] \in Over => w \in Over
  PROVE  DataInv'
<1>1. /\ \A b \in Asid : at'[b] = IF b = a THEN w ELSE at[b]
      /\ \A k \in Key : k[1] \in Asid
      /\ pte' = pte /\ swapPoolTable' = swapPoolTable
      /\ frames' = frames /\ flash' = flash
  BY NamesDistinct DEF Go, MemTypes, dataVars, Key
<1>2. (\A b \in Asid : at[b] # "trap")' /\ Resident'
  BY <1>1 DEF DataInv, Resident
<1>3. Exact'
  BY <1>1 DEF DataInv, Exact
<1>4. Stored'
  BY <1>1 DEF DataInv, Stored
<1>5. Leaving'
  BY <1>1 DEF DataInv, Leaving
<1>6. QED  BY <1>2, <1>3, <1>4, <1>5 DEF DataInv

\* A write through the TLB.
WriteTo(k) ==
    /\ frames' = [j \in Key |-> IF j = k THEN {tlb[k]} ELSE frames[j] \ {tlb[k]}]
    /\ flash' = flash \ {k}

\* It reaches the frame of its page, and no page that is being written back.
LEMMA WriteData ==
  ASSUME MemTypes, TableInv, DataInv, NEW k \in Key, tlb[k] \in Frame, WriteTo(k),
         UNCHANGED <<frameVictim, swapPoolTable, pte>>,
         \A b \in Asid : /\ at'[b] = at[b] \/ (at[b] \notin PagerStates /\ at'[b] \notin PagerStates)
                         /\ at[b] \in Over => at'[b] \in Over
  PROVE  DataInv'
<1> DEFINE f == tlb[k]
<1>1. f \in Frame /\ f # NULL /\ pte[k] = f
  BY NamesDistinct DEF TableInv, TLBCoherent
<1>2. /\ \A j \in Key : frames'[j] = IF j = k THEN {f} ELSE frames[j] \ {f}
      /\ flash' = flash \ {k}
      /\ UNCHANGED <<frameVictim, swapPoolTable, pte>>
  BY DEF WriteTo
<1>3. /\ \A b \in Asid : at'[b] \in {"evict", "load", "trap"} \/ at[b] \in {"evict", "load", "trap"}
                             => at'[b] = at[b]
      /\ \A j \in Key : j[1] \in Asid /\ (at[j[1]] \in Over => at'[j[1]] \in Over)
  BY DEF PagerStates, InPool, Key
<1> HIDE DEF f
<1>4. \A j \in Key : j # k => pte[j] # f
  BY <1>1 DEF TableInv, FrameExclusive
<1>5. Resident'
  BY <1>1, <1>2, <1>4 DEF DataInv, Resident
<1>6. Stored'
  BY <1>1, <1>2, <1>3 DEF DataInv, Stored
<1>7. Leaving'
  <2>1. SUFFICES ASSUME NEW b \in Asid, at[b] = "evict"
                 PROVE  frameVictim[b] \in frames'[swapPoolTable[frameVictim[b]].sw_pte]
    BY <1>2, <1>3 DEF Leaving
  <2>2. PICK v : v = swapPoolTable[frameVictim[b]].sw_pte
    OBVIOUS
  <2>3. v \in Key /\ pte[v] = NULL /\ frameVictim[b] # f
    <3>1. /\ swapPoolTable[frameVictim[b]] # NULL /\ pte[v] = NULL
          /\ frameVictim[b] # f
      BY <1>1, <2>1, <2>2 DEF TableInv, Victims
    <3>2. swapPoolTable[frameVictim[b]] \in SwapEntry
      BY <3>1 DEF MemTypes
    <3>3. QED  BY <2>2, <3>1, <3>2 DEF SwapEntry
  <2>4. frameVictim[b] \in frames[v]
    BY <2>1, <2>2 DEF DataInv, Leaving
  <2>5. QED  BY <1>1, <1>2, <2>2, <2>3, <2>4
<1>8. Exact' /\ \A b \in Asid : at'[b] # "trap"
  BY <1>2, <1>3 DEF DataInv, Exact
<1>9. QED  BY <1>5, <1>6, <1>7, <1>8 DEF DataInv

\* A process starts with its program on the flash.
LEMMA StartData ==
  ASSUME MemTypes, TableInv, DataInv, NEW a \in Asid, at[a] \in Over, initSupportStructure(a),
         UNCHANGED <<frameVictim, swapPoolTable>>,
         \A b \in Asid : /\ at'[b] = at[b] \/ (at[b] \notin PagerStates /\ at'[b] \notin PagerStates)
                         /\ at[b] \in Over => b = a \/ at'[b] \in Over
  PROVE  DataInv'
<1>1. /\ \A b \in Asid : at'[b] \in {"evict", "load", "trap"} \/ at[b] \in {"evict", "load", "trap"}
                             => at'[b] = at[b]
      /\ \A k \in Key : k[1] \in Asid /\ (at[k[1]] \in Over => k[1] = a \/ at'[k[1]] \in Over)
      /\ pte' = pte
  BY RestartPages DEF PagerStates, InPool, Key
<1>2. /\ \A k \in Key : k[1] # a => frames'[k] = frames[k]
      /\ flash' = flash \cup {k \in Key : k[1] = a}
  BY DEF initSupportStructure
<1>3. \A k \in Key : k[1] = a => pte[k] = NULL
  BY FreedPages
<1>4. Exact' /\ \A b \in Asid : at'[b] # "trap"
  BY <1>1 DEF DataInv, Exact
<1>5. Resident'
  BY <1>1, <1>2, <1>3 DEF DataInv, Resident
<1>6. Stored'
  BY <1>1, <1>2 DEF DataInv, Stored
<1>7. Leaving'
  <2>1. SUFFICES ASSUME NEW b \in Asid, at[b] = "evict"
                 PROVE  frameVictim[b] \in frames'[swapPoolTable[frameVictim[b]].sw_pte]
    BY <1>1 DEF Leaving
  <2>2. PICK g \in Frame : g = frameVictim[b] /\ swapPoolTable[g] # NULL
    BY <2>1 DEF MemTypes, TableInv, Victims
  <2>3. swapPoolTable[g].sw_pte \in Key /\ swapPoolTable[g].sw_pte[1] # a
    <3>1. swapPoolTable[g] \in SwapEntry
      BY <2>2 DEF MemTypes
    <3>2. swapPoolTable[g].sw_asid # a
      BY <2>2 DEF TableInv, Freed
    <3>3. QED  BY <2>2, <3>1, <3>2 DEF SwapEntry, TableInv, Entries
  <2>4. QED  BY <1>2, <2>1, <2>2, <2>3 DEF DataInv, Leaving
<1>8. QED  BY <1>4, <1>5, <1>6, <1>7 DEF DataInv

\* A step of a module built on SwapPool, beside the memory.
LEMMA BesideData ==
  ASSUME DataInv, BesidePager, UNCHANGED <<pagerVars, poolVars, mmuVars, dataVars>>,
         \A b \in Asid : at[b] \in Over => at'[b] \in Over
  PROVE  DataInv'
<1>1. /\ \A b \in Asid : at'[b] \in {"evict", "load", "trap"} \/ at[b] \in {"evict", "load", "trap"}
                             => at'[b] = at[b]
      /\ \A k \in Key : k[1] \in Asid
      /\ UNCHANGED <<frameVictim, swapPoolTable, pte, frames, flash>>
  BY DEF BesidePager, PagerStates, InPool, Key, pagerVars, poolVars, mmuVars, dataVars
<1>2. Exact' /\ \A b \in Asid : at'[b] # "trap"
  BY <1>1 DEF DataInv, Exact
<1>3. Resident' /\ Leaving'
  BY <1>1 DEF DataInv, Resident, Leaving
<1>4. Stored'
  BY <1>1 DEF DataInv, Stored
<1>5. QED  BY <1>2, <1>3, <1>4 DEF DataInv

LEMMA CodeData ==
  ASSUME MemTypes, TableInv, DataInv, NEW a \in Asid, Code(a)
  PROVE  DataInv'
<1>1. PICK p \in Page : uTLB_RefillHandler(a, p) \/ Store(a, p) \/ PageFault(a, p)
  BY DEF Code
<1>2. CASE uTLB_RefillHandler(a, p)
  BY <1>2 DEF uTLB_RefillHandler, pagerVars, poolVars, dataVars,
              DataInv, Exact, Resident, Stored, Leaving
<1>3. CASE PageFault(a, p)
  <2>1. /\ Go(a, "fault") /\ at[a] \notin {"evict", "load"} \cup Over
        /\ UNCHANGED <<swapPoolTable, pte, dataVars, frameVictim>>
    BY <1>3 DEF PageFault, InCode, Over, poolVars, mmuVars
  <2>2. QED  BY <2>1, MoveData DEF Over
<1>4. CASE Store(a, p)
  <2>1. <<a, p>> \in Key /\ tlb[<<a, p>>] \in Frame /\ WriteTo(<<a, p>>)
        /\ UNCHANGED <<at, frameVictim, swapPoolTable, pte>>
    BY <1>4 DEF Store, WriteTo, Key, pagerVars, poolVars, mmuVars
  <2>2. QED  BY <2>1, WriteData
<1>5. QED  BY <1>1, <1>2, <1>3, <1>4

\* A victim was in its frame until now.
LEMMA ChooseData ==
  ASSUME MemTypes, Mutex, TableInv, DataInv, NEW a \in Asid, ChooseFrame(a)
  PROVE  DataInv'
<1>1. at[a] = "choose" /\ Working(a) /\ UNCHANGED <<swapPoolTable, dataVars>>
  BY WorkerFacts DEF ChooseFrame, InPool
<1>2. \A b \in Asid : at[b] \notin {"evict", "load"}
  BY <1>1, Alone
<1>3. CASE /\ Free # {} /\ Go(a, "load") /\ UNCHANGED <<fifoPages, mmuVars>>
           /\ \E f \in Free : frameVictim' = [frameVictim EXCEPT ![a] = f]
  <2>1. /\ UNCHANGED <<swapPoolTable, pte, dataVars>>
        /\ \A b \in Asid : b # a => frameVictim'[b] = frameVictim[b]
    BY <1>1, <1>3 DEF mmuVars, MemTypes
  <2>2. QED  BY <1>1, <1>3, <2>1, MoveData DEF Over
<1>4. CASE /\ Free = {} /\ Go(a, "evict")
           /\ frameVictim' = [frameVictim EXCEPT ![a] = fifoPages]
           /\ atomicRefresh(swapPoolTable[fifoPages].sw_pte, NULL)
  <2> DEFINE f == fifoPages
             v == swapPoolTable[f].sw_pte
  <2>1. f \in Frame /\ swapPoolTable[f] # NULL /\ v \in Key /\ f # NULL
    BY <1>4, NamesDistinct DEF Free, MemTypes, SwapEntry
  <2>2. \A k \in Key : pte'[k] = IF k = v THEN NULL ELSE pte[k]
    BY <1>4, <2>1 DEF atomicRefresh, MemTypes
  <2>3. /\ \A b \in Asid : at'[b] = IF b = a THEN "evict" ELSE at[b]
        /\ frameVictim'[a] = f
        /\ swapPoolTable' = swapPoolTable /\ frames' = frames /\ flash' = flash
        /\ \A k \in Key : k[1] \in Asid
    BY <1>1, <1>4, NamesDistinct DEF Go, MemTypes, dataVars, Key
  <2>4. \A g \in Frame : swapPoolTable[g] # NULL => pte[swapPoolTable[g].sw_pte] = g
    BY <1>2 DEF DataInv, Exact
  <2>5. pte[v] = f /\ swapPoolTable'[f].sw_pte = v
    BY <2>1, <2>3, <2>4
  <2>6. \A g \in Frame : swapPoolTable[g] # NULL /\ g # f =>
           swapPoolTable[g].sw_pte \in Key \ {v}
    <3>1. \A g \in Frame : swapPoolTable[g] # NULL => swapPoolTable[g].sw_pte \in Key
      BY DEF MemTypes, SwapEntry
    <3>2. QED  BY <2>4, <2>5, <3>1
  <2> HIDE DEF v, f
  <2>7. Exact'
    BY <2>2, <2>3, <2>4, <2>6 DEF Exact
  <2>8. Resident'
    BY <2>2, <2>3 DEF DataInv, Resident
  <2>9. Stored'
    <3>1. SUFFICES ASSUME NEW k \in Key, pte'[k] = NULL
                   PROVE  \/ k \in flash
                          \/ at'[k[1]] \in Over
                          \/ \E b \in Asid : /\ at'[b] = "evict"
                                             /\ swapPoolTable'[frameVictim'[b]].sw_pte = k
      BY <2>3 DEF Stored
    <3>2. CASE k = v
      BY <2>3, <2>5, <3>2
    <3>3. CASE k # v
      <4>1. k \in flash \/ at[k[1]] \in Over
        BY <1>2, <2>2, <3>1, <3>3 DEF DataInv, Stored
      <4>2. QED  BY <1>1, <2>3, <4>1 DEF Over
    <3>4. QED  BY <3>2, <3>3
  <2>10. Leaving'
    <3>1. f \in frames[v]
      BY <2>1, <2>5 DEF DataInv, Resident
    <3>2. \A b \in Asid : at'[b] = "evict" => b = a
      BY <1>2, <2>3
    <3>3. QED  BY <2>3, <2>5, <3>1, <3>2 DEF Leaving
  <2>11. \A b \in Asid : at'[b] # "trap"
    BY <2>3 DEF DataInv
  <2>12. QED  BY <2>7, <2>8, <2>9, <2>10, <2>11 DEF DataInv
<1>5. QED  BY <1>3, <1>4 DEF ChooseFrame

\* It is written to its own block.
LEMMA WriteBackData ==
  ASSUME MemTypes, Mutex, TableInv, DataInv, IOErrors = FALSE,
         NEW a \in Asid, WriteBack(a)
  PROVE  DataInv'
<1> DEFINE f == frameVictim[a]
           v == swapPoolTable[f].sw_pte
<1>1. /\ at[a] = "evict" /\ Working(a) /\ f \in Frame /\ swapPoolTable[f] # NULL
  BY WorkerFacts DEF WriteBack, MemTypes, TableInv, Victims
<1>2. v \in Key /\ Block(swapPoolTable[f]) = v
  <2>1. swapPoolTable[f] \in SwapEntry
    BY <1>1 DEF MemTypes
  <2>2. /\ v \in Key /\ v = <<v[1], v[2]>> /\ v[2] \in Page
        /\ swapPoolTable[f].sw_asid = v[1] /\ swapPoolTable[f].sw_pageNo = Vpn(v[2])
    BY <1>1, <2>1 DEF SwapEntry, Key, TableInv, Entries
  <2> HIDE DEF v, f
  <2>3. QED  BY <2>2, VpnFacts DEF Block
<1>3. f \in frames[v]
  BY <1>1 DEF DataInv, Leaving
<1>4. flash' = flash \cup {v} /\ Go(a, "load")
  BY <1>2, <1>3 DEF WriteBack
<1>5. /\ \A b \in Asid : at'[b] = IF b = a THEN "load" ELSE at[b]
      /\ UNCHANGED <<frameVictim, swapPoolTable, pte, frames>>
      /\ \A k \in Key : k[1] \in Asid
  BY <1>4, NamesDistinct DEF WriteBack, Go, MemTypes, pagerVars, poolVars, mmuVars, Key
<1>6. \A b \in Asid : at'[b] # "evict"
  BY <1>1, <1>5, Alone
<1>7. Exact' /\ \A b \in Asid : at'[b] # "trap"
  BY <1>5 DEF DataInv, Exact
<1>8. Resident' /\ Leaving'
  BY <1>5, <1>6 DEF DataInv, Resident, Leaving
<1>9. Stored'
  <2>1. \A k \in Key : pte[k] = NULL => k \in flash \/ at[k[1]] \in Over \/ k = v
    BY <1>1, Alone DEF DataInv, Stored
  <2>2. QED  BY <1>1, <1>4, <1>5, <2>1 DEF Stored, Over
<1>10. QED  BY <1>7, <1>8, <1>9 DEF DataInv

\* The page that is read is there.
LEMMA ReadInData ==
  ASSUME MemTypes, Mutex, TableInv, DataInv, NEW a \in Asid, ReadIn(a)
  PROVE  DataInv'
<1> DEFINE f == frameVictim[a]
           m == missingPage[a]
           k == <<a, m>>
           e == [sw_asid |-> a, sw_pageNo |-> Vpn(m), sw_pte |-> k]
<1>1. /\ at[a] = "load" /\ Working(a) /\ f \in Frame /\ f # NULL
      /\ k \in Key /\ k[1] = a /\ back[a] \in InCode
  BY WorkerFacts, NamesDistinct DEF ReadIn, MemTypes, Key
<1>2. \A b \in Asid : b # a => at[b] \notin {"evict", "load"}
  BY <1>1, Alone
<1>3. pte[k] = NULL /\ \A j \in Key : pte[j] # f
  BY <1>1 DEF TableInv, Faults, Victims
<1>4. k \in flash
  BY <1>1, <1>2, <1>3 DEF DataInv, Stored, Over
<1>5. e.sw_pte = k
  OBVIOUS
<1>6. /\ \A b \in Asid : at'[b] = IF b = a THEN back[a] ELSE at[b]
      /\ flash' = flash /\ \A j \in Key : j[1] \in Asid
  BY NamesDistinct DEF ReadIn, Go, MemTypes, Key
<1>7. /\ \A j \in Key : pte'[j] = IF j = k THEN f ELSE pte[j]
      /\ \A j \in Key : frames'[j] = IF j = k THEN frames[j] \cup {f} ELSE frames[j] \ {f}
  <2>1. atomicRefresh(k, f) /\ ReadInto(f, k, TRUE)
    BY DEF ReadIn
  <2> HIDE DEF k, f
  <2>2. QED  BY <1>1, <1>4, <2>1 DEF atomicRefresh, ReadInto, MemTypes
<1>8. \A g \in Frame : swapPoolTable'[g] = IF g = f THEN e ELSE swapPoolTable[g]
  <2>1. swapPoolTable' = [swapPoolTable EXCEPT ![f] = e]
    BY DEF ReadIn
  <2> HIDE DEF e, f
  <2>2. QED  BY <2>1 DEF MemTypes
<1> HIDE DEF e, k, f, m
<1>9. \A b \in Asid : at'[b] \notin {"evict", "load", "trap"}
  BY <1>1, <1>2, <1>6 DEF InCode, DataInv
<1>10. Exact'
  <2>1. \A g \in Frame : g # f /\ swapPoolTable[g] # NULL =>
           pte[swapPoolTable[g].sw_pte] = g /\ swapPoolTable[g].sw_pte \in Key
    <3>1. \A g \in Frame : g # f /\ swapPoolTable[g] # NULL =>
             pte[swapPoolTable[g].sw_pte] = g
      BY <1>2 DEF DataInv, Exact, f
    <3>2. QED  BY <3>1 DEF MemTypes, SwapEntry
  <2>2. \A g \in Frame : g # NULL
    BY NamesDistinct
  <2>3. QED  BY <1>1, <1>3, <1>5, <1>7, <1>8, <2>1, <2>2 DEF Exact
<1>11. Resident'
  BY <1>1, <1>3, <1>7 DEF DataInv, Resident
<1>12. Stored'
  <2>1. \A j \in Key : pte'[j] = NULL => j \in flash \/ at[j[1]] \in Over
    BY <1>1, <1>2, <1>7 DEF DataInv, Stored
  <2>2. QED  BY <1>1, <1>6, <2>1 DEF Stored, Over
<1>13. Leaving'
  BY <1>9 DEF Leaving
<1>14. QED  BY <1>9, <1>10, <1>11, <1>12, <1>13 DEF DataInv

LEMMA PagerData ==
  ASSUME MemTypes, Mutex, TableInv, DataInv, IOErrors = FALSE, NEW a \in Asid, pager(a)
  PROVE  DataInv'
<1>1. CASE EnterPool(a)
  <2>1. /\ at[a] = "fault" /\ Go(a, "choose")
        /\ UNCHANGED <<swapPoolTable, pte, dataVars, frameVictim>>
    BY <1>1 DEF EnterPool, pagerVars, poolVars, mmuVars
  <2>2. QED  BY <2>1, MoveData DEF Over
<1>2. ~ReadFails(a) /\ ~Trap(a)
  BY DEF ReadFails, Trap, DataInv
<1>3. QED
  BY <1>1, <1>2, ChooseData, WriteBackData, ReadInData DEF pager

\* Who gives its frames back does not touch those of others, and finds its
\* program on the flash when it starts again.
LEMMA LifeData ==
  ASSUME MemTypes, Mutex, TableInv, DataInv, NEW a \in Asid,
         Terminate(a) \/ Quit(a) \/ Restart(a)
  PROVE  DataInv'
<1>1. CASE Terminate(a)
  <2>1. /\ at[a] = "user" /\ Go(a, "quit")
        /\ UNCHANGED <<swapPoolTable, pte, dataVars, frameVictim>>
    BY <1>1 DEF Terminate, pagerVars, poolVars, mmuVars
  <2>2. QED  BY <2>1, MoveData DEF Over
<1>2. CASE EnterFree(a)
  <2>1. /\ at[a] = "quit" /\ Go(a, "free")
        /\ UNCHANGED <<swapPoolTable, pte, dataVars, frameVictim>>
    BY <1>2 DEF EnterFree, pagerVars, poolVars, mmuVars
  <2>2. QED  BY <2>1, MoveData DEF Over
<1>3. CASE freeFrames(a)
  <2> DEFINE gone == {swapPoolTable[f].sw_pte : f \in FramesOf(a)}
  <2>1. /\ at[a] = "free" /\ Working(a) /\ UNCHANGED <<frames, flash, frameVictim>>
        /\ \A b \in Asid : at'[b] = IF b = a THEN "freed" ELSE at[b]
        /\ \A k \in Key : k[1] \in Asid
    BY <1>3, WorkerFacts, NamesDistinct
       DEF freeFrames, InPool, pagerVars, dataVars, Go, MemTypes, Key
  <2>2. /\ \A k \in Key : pte'[k] = IF k \in gone THEN NULL ELSE pte[k]
        /\ \A f \in Frame : swapPoolTable'[f] =
               IF f \in FramesOf(a) THEN NULL ELSE swapPoolTable[f]
    BY <1>3 DEF freeFrames
  <2>3. \A b \in Asid : at[b] \notin {"evict", "load"}
    BY <2>1, Alone
  <2>4. \A k \in gone : k[1] = a
    BY DEF FramesOf, TableInv, Entries
  <2>5. \A f \in Frame : swapPoolTable[f] # NULL /\ f \notin FramesOf(a) =>
           swapPoolTable[f].sw_pte \in Key \ gone
    <3>1. \A f \in Frame : swapPoolTable[f] # NULL => swapPoolTable[f].sw_pte \in Key
      BY DEF MemTypes, SwapEntry
    <3>2. \A f \in Frame : swapPoolTable[f] # NULL /\ f \notin FramesOf(a) =>
             swapPoolTable[f].sw_pte[1] # a
      BY DEF FramesOf, TableInv, Entries
    <3>3. QED  BY <2>4, <3>1, <3>2
  <2> HIDE DEF gone
  <2>6. Exact'
    BY <2>2, <2>3, <2>5 DEF DataInv, Exact
  <2>7. Resident'
    BY <2>1, <2>2 DEF DataInv, Resident
  <2>8. Stored'
    <3>1. \A k \in Key : pte'[k] = NULL =>
             k \in flash \/ at[k[1]] \in Over \/ k[1] = a
      BY <2>2, <2>3, <2>4 DEF DataInv, Stored
    <3>2. QED  BY <2>1, <3>1 DEF Stored, Over
  <2>9. Leaving' /\ \A b \in Asid : at'[b] # "trap"
    BY <2>1, <2>3 DEF DataInv, Leaving
  <2>10. QED  BY <2>6, <2>7, <2>8, <2>9 DEF DataInv
<1>4. CASE Restart(a)
  <2>1. /\ at[a] \in Over /\ initSupportStructure(a) /\ UNCHANGED <<frameVictim, swapPoolTable>>
        /\ "user" \notin PagerStates /\ at[a] \notin PagerStates
        /\ \A b \in Asid : at'[b] = IF b = a THEN "user" ELSE at[b]
    BY <1>4, NamesDistinct
       DEF Restart, Over, PagerStates, InPool, Go, MemTypes, pagerVars, poolVars
  <2>2. QED  BY <2>1, StartData
<1>5. QED  BY <1>1, <1>2, <1>3, <1>4 DEF Quit

LEMMA InitDataInv == Init => DataInv
BY NamesDistinct DEF Init, InitPool, DataInv, Exact, Resident, Stored, Leaving

LEMMA NextDataInv ==
  ASSUME IOErrors = FALSE, PoolInv, DataInv, [Next]_vars
  PROVE  DataInv'
<1>1. MemTypes /\ Mutex /\ TableInv
  BY DEF PoolInv
<1>2. CASE Next
  BY <1>1, <1>2, CodeData, PagerData, LifeData DEF Next
<1>3. CASE UNCHANGED vars
  BY <1>3 DEF vars, pagerVars, poolVars, mmuVars, dataVars,
              DataInv, Exact, Resident, Stored, Leaving
<1>4. QED  BY <1>2, <1>3

LEMMA DataInvariant == ASSUME IOErrors = FALSE PROVE Spec => []DataInv
<1>1. Init => DataInv
  BY InitDataInv
<1>2. PoolInv /\ DataInv /\ [Next]_vars => DataInv'
  BY NextDataInv
<1>3. QED  BY <1>1, <1>2, PoolInvariant, PTL DEF Spec

LEMMA DataFacts ==
  ASSUME PoolInv, DataInv
  PROVE  TableExact /\ ReadsLastWrite
<1>1. TableExact
  <2>1. SUFFICES ASSUME Holders = {}, NEW f \in Frame, swapPoolTable[f] # NULL
                 PROVE  pte[swapPoolTable[f].sw_pte] = f
    BY DEF TableExact
  <2>2. \A a \in Asid : at[a] \notin {"evict", "load"}
    BY <2>1, WorkerFacts, WaitsFacts DEF PoolInv, Holders, Working
  <2>3. QED  BY <2>1, <2>2 DEF DataInv, Exact
<1>2. ReadsLastWrite
  BY NamesDistinct
     DEF PoolInv, DataInv, Resident, TableInv, TLBCoherent, ReadsLastWrite, Key
<1>3. QED  BY <1>1, <1>2

\* While the flash devices do not fail, the table is exact whenever nobody works
\* on the pool: every entry is that of the page that occupies its frame.
THEOREM TableExactCorrect == ASSUME IOErrors = FALSE PROVE Spec => []TableExact
<1>1. PoolInv /\ DataInv => TableExact
  BY DataFacts
<1>2. QED  BY <1>1, PoolInvariant, DataInvariant, PTL

\* And what a process reads through the TLB is what it wrote last, through any
\* number of evictions, restarts and steps of the others.
THEOREM ReadsLastWriteCorrect == ASSUME IOErrors = FALSE PROVE Spec => []ReadsLastWrite
<1>1. PoolInv /\ DataInv => ReadsLastWrite
  BY DataFacts
<1>2. QED  BY <1>1, PoolInvariant, DataInvariant, PTL
=============================================================================
