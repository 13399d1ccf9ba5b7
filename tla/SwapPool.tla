----------------------------- MODULE SwapPool ------------------------------
(***************************************************************************)
(* Virtual memory of the support level (phase3/vmSupport.c): the pager,    *)
(* the swap pool it shares among the user processes, their page tables,    *)
(* the TLB and its refill handler, and the release of the frames of a      *)
(* process that terminates.                                                *)
(*                                                                         *)
(* Support-level handlers run with interrupts enabled, so they interleave  *)
(* with other processes at every step; what keeps the swap pool consistent *)
(* is swapPoolSemaphore, a semaphore of the nucleus as Semaphores promises *)
(* it, and the disabled interrupts of atomicRefresh.  An action is a piece *)
(* of a handler that ends with a system call that may block; under the     *)
(* semaphore nobody can tell smaller steps apart.                          *)
(*                                                                         *)
(* A process is named by its ASID, its pages by their index in the page    *)
(* table; at says what it executes.  Of the contents of frames and flash   *)
(* blocks the model keeps which of them are what the process wrote last.   *)
(***************************************************************************)
EXTENDS Queues

CONSTANTS
    Asid,               \* user processes
    Page,               \* indices of the page table that processes use
    POOLSIZE,           \* frames of the swap pool
    IOErrors,           \* whether a flash device may report an error
    Process,            \* processes that use the semaphores
    Semaphore,          \* the semaphores of the support level
    swapPoolSemaphore,
    NULL,
    OUT                 \* of a page that has no entry in the TLB

Frame == 0 .. POOLSIZE - 1
Key == Asid \X Page        \* a page of a process, its PTE, its flash block

ASSUME PoolAssumption == POOLSIZE \in Nat \ {0}
ASSUME PageAssumption == Page # {} /\ Page \subseteq 0 .. 31
ASSUME ErrorAssumption == IOErrors \in BOOLEAN
ASSUME NameAssumption ==
    /\ Asid \subseteq Process
    /\ swapPoolSemaphore \in Semaphore
    /\ NULL \notin Asid \cup Frame
    /\ OUT \notin Frame \cup {NULL}

VARIABLES
    at,          \* what each process executes
    back,        \* what the pager returns to
    missingPage, \* locals of the pager
    frameVictim,
    swapPoolTable,
    fifoPages,   \* modulo POOLSIZE
    pte,         \* sup_privatePgTbl: the frame of a valid entry, NULL if V = 0
    tlb,         \* the same for entries in the TLB, OUT for the others
    frames,      \* the frames that hold what the process wrote last to a page
    flash,       \* the pages for which the flash holds that
    count,       \* the semaphores
    queue

poolVars == <<swapPoolTable, fifoPages>>
pagerVars == <<back, missingPage, frameVictim>>
mmuVars == <<pte, tlb>>
dataVars == <<frames, flash>>
semVars == <<count, queue>>
vars == <<at, pagerVars, poolVars, mmuVars, dataVars, semVars>>

Sem == INSTANCE Semaphores

Go(a, where) == at' = [at EXCEPT ![a] = where]

FirstPage == CHOOSE p \in Page : \A q \in Page : p <= q

\* The locals of the pager after its return.
Return(a) ==
    /\ back' = [back EXCEPT ![a] = "user"]
    /\ missingPage' = [missingPage EXCEPT ![a] = FirstPage]
    /\ frameVictim' = [frameVictim EXCEPT ![a] = 0]

\* Where a process touches its pages: in its own code, and in the handlers that
\* send characters from its buffer or store characters there.
InCode == {"user", "send", "store"}
InPool == {"choose", "evict", "load", "trap", "free"}   \* after the P
Elsewhere == {"fault", "quit", "freed"}

\* Processes between P and V on swapPoolSemaphore.
Holders == {a \in Asid : at[a] \in InPool /\ ~Sem!Waits(a)}

-----------------------------------------------------------------------------
(* Virtual page numbers *)

Vpn(p) == IF p = 31 THEN 786431 ELSE 524288 + p   \* 0xBFFFF, 0x80000 + p

\* The index of a page in the page table and on the flash device.
vpnToPage(vpn) == IF vpn % 256 = 255 THEN 31 ELSE vpn % 256

\* The index that uTLB_RefillHandler computes, from 18 bits of the number.
pageMissing(vpn) == IF vpn % 262144 = 262143 THEN 31 ELSE vpn % 262144

\* Entries of the swap pool table that are in use.
SwapEntry == [sw_asid : Asid, sw_pageNo : {Vpn(p) : p \in Page}, sw_pte : Key]

ASSUME EntryAssumption == NULL \notin SwapEntry

-----------------------------------------------------------------------------
(* The process, the MMU and the TLB *)

\* TLBWR puts the entry in the place of any other.
uTLB_RefillHandler(a, p) ==
    /\ at[a] \in InCode
    /\ tlb[<<a, p>>] = OUT
    /\ \E other \in Key :
          tlb' = [tlb EXCEPT ![other] = OUT, ![<<a, p>>] = pte[<<a, pageMissing(Vpn(p))>>]]
    /\ UNCHANGED <<at, pagerVars, poolVars, pte, dataVars, semVars>>

\* A write through a valid entry.
Store(a, p) ==
    /\ at[a] \in InCode
    /\ tlb[<<a, p>>] \in Frame
    /\ frames' = [k \in Key |-> IF k = <<a, p>>
                                THEN {tlb[<<a, p>>]}
                                ELSE frames[k] \ {tlb[<<a, p>>]}]
    /\ flash' = flash \ {<<a, p>>}
    /\ UNCHANGED <<at, pagerVars, poolVars, mmuVars, semVars>>

\* An access through an invalid entry: the nucleus passes the exception up.
PageFault(a, p) ==
    /\ at[a] \in InCode
    /\ tlb[<<a, p>>] = NULL
    /\ Go(a, "fault")
    /\ back' = [back EXCEPT ![a] = at[a]]
    /\ missingPage' = [missingPage EXCEPT ![a] = vpnToPage(Vpn(p))]
    /\ UNCHANGED <<frameVictim, poolVars, mmuVars, dataVars, semVars>>

\* Mutant: the TLB is left as it is.
PageTableOnly(k, entry) == pte' = [pte EXCEPT ![k] = entry] /\ UNCHANGED tlb

\* Mutant: the entry of a victim is not invalidated.
ValidateOnly(k, entry) ==
    /\ pte' = IF entry = NULL THEN pte ELSE [pte EXCEPT ![k] = entry]
    /\ tlb' = [tlb EXCEPT ![k] = IF @ = OUT \/ entry = NULL THEN @ ELSE entry]

\* The entry for page k, in the page table and in the TLB if it is there.
atomicRefresh(k, entry) ==
    /\ pte' = [pte EXCEPT ![k] = entry]
    /\ tlb' = [tlb EXCEPT ![k] = IF @ = OUT THEN @ ELSE entry]

-----------------------------------------------------------------------------
(* pager *)

EnterPool(a) ==
    /\ at[a] = "fault"
    /\ Go(a, "choose")
    /\ Sem!P(a, swapPoolSemaphore)
    /\ UNCHANGED <<pagerVars, poolVars, mmuVars, dataVars>>

\* Mutant: the frame after the last one is not the first.
PastEnd(f) == f + 1

\* fifoPages++, of which only the remainder is ever used.
NextVictim(f) == (f + 1) % POOLSIZE

Free == {f \in Frame : swapPoolTable[f] = NULL}

\* The first free frame or, if there is none, the next one in turn, whose page
\* is invalidated before it is written to the flash.
ChooseFrame(a) ==
    /\ at[a] = "choose"
    /\ ~Sem!Waits(a)
    /\ \/ /\ Free # {}
          /\ \E f \in Free :
                /\ \A g \in Free : f <= g
                /\ frameVictim' = [frameVictim EXCEPT ![a] = f]
          /\ Go(a, "load")
          /\ UNCHANGED <<fifoPages, mmuVars>>
       \/ /\ Free = {}
          /\ frameVictim' = [frameVictim EXCEPT ![a] = fifoPages]
          /\ fifoPages' = NextVictim(fifoPages)
          /\ atomicRefresh(swapPoolTable[fifoPages].sw_pte, NULL)
          /\ Go(a, "evict")
    /\ UNCHANGED <<back, missingPage, swapPoolTable, dataVars, semVars>>

\* The block of the flash device that a frame is written to.
Block(entry) == <<entry.sw_asid, vpnToPage(entry.sw_pageNo)>>

WriteBack(a) ==
    LET f == frameVictim[a]
        k == Block(swapPoolTable[f])
    IN  /\ at[a] = "evict"
        /\ \/ /\ flash' = IF f \in frames[k] THEN flash \cup {k} ELSE flash \ {k}
              /\ Go(a, "load")
           \/ /\ IOErrors
              /\ flash' = flash \ {k}
              /\ Go(a, "trap")
        /\ UNCHANGED <<pagerVars, poolVars, mmuVars, frames, semVars>>

\* frame f gets the block of page k, or something else after an error.
ReadInto(f, k, ok) ==
    frames' = [j \in Key |-> IF j = k /\ k \in flash /\ ok
                             THEN frames[j] \cup {f}
                             ELSE frames[j] \ {f}]

\* The page is read, the table and the page table are updated, V.
ReadIn(a) ==
    LET f == frameVictim[a]
        k == <<a, missingPage[a]>>
    IN  /\ at[a] = "load"
        /\ ReadInto(f, k, TRUE)
        /\ swapPoolTable' = [swapPoolTable EXCEPT ![f] =
                [sw_asid |-> a, sw_pageNo |-> Vpn(missingPage[a]), sw_pte |-> k]]
        /\ atomicRefresh(k, f)
        /\ Go(a, back[a])
        /\ Sem!V(swapPoolSemaphore)
        /\ Return(a)
        /\ UNCHANGED <<fifoPages, flash>>

ReadFails(a) ==
    /\ at[a] = "load"
    /\ IOErrors
    /\ ReadInto(frameVictim[a], <<a, missingPage[a]>>, FALSE)
    /\ Go(a, "trap")
    /\ UNCHANGED <<pagerVars, poolVars, mmuVars, flash, semVars>>

\* Mutant: the V is left out on the error path.
TrapKeeps(a) ==
    /\ at[a] = "trap"
    /\ Go(a, "quit")
    /\ Return(a)
    /\ UNCHANGED <<poolVars, mmuVars, dataVars, semVars>>

\* V, and trapHandler calls Syscall2.
Trap(a) ==
    /\ at[a] = "trap"
    /\ Go(a, "quit")
    /\ Sem!V(swapPoolSemaphore)
    /\ Return(a)
    /\ UNCHANGED <<poolVars, mmuVars, dataVars>>

-----------------------------------------------------------------------------
(* Syscall2: freeFrames *)

Terminate(a) ==
    /\ at[a] = "user"
    /\ Go(a, "quit")
    /\ UNCHANGED <<pagerVars, poolVars, mmuVars, dataVars, semVars>>

\* Mutant: freeFrames without the semaphore.
BargeIn(a) ==
    /\ at[a] = "quit"
    /\ Go(a, "free")
    /\ UNCHANGED <<pagerVars, poolVars, mmuVars, dataVars, semVars>>

EnterFree(a) ==
    /\ at[a] = "quit"
    /\ Go(a, "free")
    /\ Sem!P(a, swapPoolSemaphore)
    /\ UNCHANGED <<pagerVars, poolVars, mmuVars, dataVars>>

\* Mutant: the loop starts at the second entry.
FromSecond(a) == {f \in 1 .. POOLSIZE - 1 :
                    swapPoolTable[f] # NULL /\ swapPoolTable[f].sw_asid = a}

FramesOf(a) ==
    {f \in Frame : swapPoolTable[f] # NULL /\ swapPoolTable[f].sw_asid = a}

freeFrames(a) ==
    LET gone == {swapPoolTable[f].sw_pte : f \in FramesOf(a)}
    IN  /\ at[a] = "free"
        /\ ~Sem!Waits(a)
        /\ pte' = [k \in Key |-> IF k \in gone THEN NULL ELSE pte[k]]
        /\ tlb' = [k \in Key |-> IF k \in gone /\ tlb[k] # OUT THEN NULL ELSE tlb[k]]
        /\ swapPoolTable' =
              [f \in Frame |-> IF f \in FramesOf(a) THEN NULL ELSE swapPoolTable[f]]
        /\ Go(a, "freed")
        /\ Sem!V(swapPoolSemaphore)
        /\ UNCHANGED <<pagerVars, fifoPages, dataVars>>

\* initSupportStructure and initState.  What the process finds on its flash
\* device is its memory.
initSupportStructure(a) ==
    /\ pte' = [k \in Key |-> IF k[1] = a THEN NULL ELSE pte[k]]
    /\ frames' = [k \in Key |-> IF k[1] = a THEN {} ELSE frames[k]]
    /\ flash' = flash \cup {k \in Key : k[1] = a}
    /\ UNCHANGED tlb

\* The ASID of a terminated process is used again.
Restart(a) ==
    /\ at[a] = "freed"
    /\ Go(a, "user")
    /\ initSupportStructure(a)
    /\ UNCHANGED <<pagerVars, poolVars, semVars>>

-----------------------------------------------------------------------------
\* initSwapTable, and pages that are all on the flash.
InitPool ==
    /\ back = [a \in Asid |-> "user"]
    /\ missingPage = [a \in Asid |-> FirstPage]
    /\ frameVictim = [a \in Asid |-> 0]
    /\ swapPoolTable = [f \in Frame |-> NULL]
    /\ fifoPages = 0
    /\ pte = [k \in Key |-> NULL]
    /\ tlb = [k \in Key |-> OUT]
    /\ frames = [k \in Key |-> {}]
    /\ flash = Key
    /\ queue = [s \in Semaphore |-> <<>>]

Init ==
    /\ at = [a \in Process |-> "user"]
    /\ count = [s \in Semaphore |-> 1]
    /\ InitPool

\* What a process does in its own code.
Code(a) == \E p \in Page : uTLB_RefillHandler(a, p) \/ Store(a, p) \/ PageFault(a, p)

\* What it does in the pager.
pager(a) ==
    \/ EnterPool(a) \/ ChooseFrame(a) \/ WriteBack(a) \/ ReadIn(a)
    \/ ReadFails(a) \/ Trap(a)

Quit(a) == EnterFree(a) \/ freeFrames(a)

Next == \E a \in Asid :
    Code(a) \/ pager(a) \/ Terminate(a) \/ Quit(a) \/ Restart(a)

Spec == Init /\ [][Next]_vars

-----------------------------------------------------------------------------
(* Correctness *)

\* Every variable has its type.
TypeOK ==
    /\ at \in [Process -> InCode \cup InPool \cup Elsewhere]
    /\ back \in [Asid -> InCode]
    /\ missingPage \in [Asid -> Page]
    /\ frameVictim \in [Asid -> Frame]
    /\ swapPoolTable \in [Frame -> SwapEntry \cup {NULL}]
    /\ fifoPages \in Frame
    /\ pte \in [Key -> Frame \cup {NULL}]
    /\ tlb \in [Key -> Frame \cup {NULL, OUT}]
    /\ frames \in [Key -> SUBSET Frame]
    /\ flash \in SUBSET Key
    /\ count \in [Semaphore -> Nat]
    /\ queue \in [Semaphore -> Seq(Process)]

\* At most one process is at work on the swap pool, and the semaphore knows: no
\* way through the pager or Syscall2 gives back a permit twice or keeps it.
PoolExclusive == Cardinality(Holders) + count[swapPoolSemaphore] = 1

\* A frame is never shared: a valid PTE is that of the page the table has in its
\* frame, also after errors of the flash devices.
FrameExclusive ==
    \A k \in Key : pte[k] # NULL =>
        swapPoolTable[pte[k]] # NULL /\ swapPoolTable[pte[k]].sw_pte = k

\* While nobody is at work on the pool, an entry of the table is that of the page
\* which occupies the frame ("puntatore alla page_table_entry della pagina che
\* occupa quel frame"): its PTE is valid and points there.
TableExact ==
    Holders = {} =>
        \A f \in Frame : swapPoolTable[f] # NULL => pte[swapPoolTable[f].sw_pte] = f

\* The TLB never has an entry that differs from the page table's: not after an
\* eviction by another process, nor for a process that reuses an ASID.
TLBCoherent == \A k \in Key : tlb[k] \in {OUT, pte[k]}

\* What a process can read is what it wrote last, through any number of
\* evictions to the flash, in any interleaving with the other processes.
ReadsLastWrite ==
    \A a \in Asid, p \in Page :
        at[a] \in InCode /\ tlb[<<a, p>>] \in Frame => tlb[<<a, p>>] \in frames[<<a, p>>]

\* A process that runs keeps running in the handlers; the nucleus sees to it
\* (all user processes have one priority, and a DOIO ends).
Fairness == \A a \in Asid : WF_vars(pager(a)) /\ WF_vars(Quit(a))

FairSpec == Spec /\ Fairness

\* Whoever enters the pager comes out of it, back in its code or by an error on
\* the way to its end, and whoever terminates gives its frames back, however
\* many others queue for the pool.
FaultServed == \A a \in Asid :
    /\ at[a] = "fault" ~> at[a] \in InCode \cup {"quit"}
    /\ at[a] = "quit" ~> at[a] = "freed"
=============================================================================
