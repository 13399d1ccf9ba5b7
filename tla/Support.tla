------------------------------ MODULE Support ------------------------------
(***************************************************************************)
(* The life of the user processes (phase3/initProc.c, Syscall2 and         *)
(* Syscall6 of phase3/sysSupport.c) on top of the virtual memory of        *)
(* SwapPool: test starts the shell and waits for its end, the shell starts *)
(* one program after the other and waits for each, and whoever terminates  *)
(* gives its frames back, signals the end, and has the nucleus kill it     *)
(* with all its descendants.                                               *)
(*                                                                         *)
(* The processes of SwapPool are here in states of their own besides:      *)
(* "absent" (no such process), "freed" and "signalled" (in Syscall2, after *)
(* the frames and after the V), "created" and "join" (the parent, before   *)
(* and after the P).                                                       *)
(***************************************************************************)
EXTENDS SwapPool

CONSTANTS
    Test,              \* the root process
    Shell,             \* the user process with ASID 1
    masterSemaphore,
    shellSemaphore

Program == Asid \ {Shell}

ASSUME RoleAssumption ==
    /\ Test \notin Asid /\ Shell \in Asid
    /\ Process = Asid \cup {Test}
ASSUME SemaphoreAssumption ==
    /\ {masterSemaphore, shellSemaphore} \subseteq Semaphore
    /\ Cardinality({masterSemaphore, shellSemaphore, swapPoolSemaphore}) = 3

VARIABLE parent    \* who created each user process

allVars == <<vars, parent>>

\* Nothing but at, the semaphores and the family changes.
MemoryUnchanged == UNCHANGED <<pagerVars, poolVars, mmuVars, dataVars>>

\* The processes below a.
Descendants(a) ==
    {b \in Asid : \A S \in SUBSET Asid :
        /\ \A c \in Asid : parent[c] = a => c \in S
        /\ \A c \in Asid : parent[c] \in S => c \in S
        => b \in S}

-----------------------------------------------------------------------------
(* Beginning *)

\* processCreation: the ASID need not be free, and nobody looks.  The process
\* that had it last has only TERMPROCESS before it, if it is not dead already.
processCreation(creator, a) ==
    /\ at' = [at EXCEPT ![a] = "user", ![creator] = "created"]
    /\ parent' = [parent EXCEPT ![a] = creator]
    /\ initSupportStructure(a)
    /\ UNCHANGED <<pagerVars, poolVars, semVars>>

\* test(), up to the P.
StartShell == at[Test] = "user" /\ processCreation(Test, Shell)

\* Syscall6, up to the P.  Only the shell calls it.
Execute(b) == at[Shell] = "user" /\ processCreation(Shell, b)

\* Mutant: Syscall6 without the P.
NoJoin(a) ==
    /\ at[a] = "created"
    /\ Go(a, "join")
    /\ MemoryUnchanged
    /\ UNCHANGED <<semVars, parent>>

\* The P of test on masterSemaphore, and of Syscall6 on shellSemaphore.
Join(a) ==
    /\ at[a] = "created"
    /\ Go(a, "join")
    /\ Sem!P(a, IF a = Test THEN masterSemaphore ELSE shellSemaphore)
    /\ MemoryUnchanged
    /\ UNCHANGED parent

\* Syscall6 returns.
Resume ==
    /\ at[Shell] = "join" /\ ~Sem!Waits(Shell)
    /\ Go(Shell, "user")
    /\ MemoryUnchanged
    /\ UNCHANGED <<semVars, parent>>

-----------------------------------------------------------------------------
(* End *)

\* Mutant: whoever ends, the shell is told.
TellShell(a) ==
    /\ at[a] = "freed"
    /\ Go(a, "signalled")
    /\ Sem!V(shellSemaphore)
    /\ MemoryUnchanged
    /\ UNCHANGED parent

\* Syscall2 after freeFrames: V.
Signal(a) ==
    /\ at[a] = "freed"
    /\ Go(a, "signalled")
    /\ Sem!V(IF a = Shell THEN masterSemaphore ELSE shellSemaphore)
    /\ MemoryUnchanged
    /\ UNCHANGED parent

\* TERMPROCESS of the caller, with its descendants.
Kill(a, S) ==
    /\ at' = [b \in Process |-> IF b \in S \cup {a} THEN "absent" ELSE at[b]]
    /\ parent' = [b \in Asid |-> IF b \in S \cup {a} THEN NULL ELSE parent[b]]
    /\ Sem!Leave(S \cup {a})
    /\ MemoryUnchanged

TermProcess(a) == at[a] = "signalled" /\ Kill(a, Descendants(a))

\* test() after the P.
EndTest == at[Test] = "join" /\ ~Sem!Waits(Test) /\ Kill(Test, Descendants(Test))

-----------------------------------------------------------------------------
\* test() has set the semaphores and the swap pool.
SupportInit ==
    /\ at = [a \in Process |-> IF a = Test THEN "user" ELSE "absent"]
    /\ count = [s \in Semaphore |-> IF s = swapPoolSemaphore THEN 1 ELSE 0]
    /\ parent = [a \in Asid |-> NULL]
    /\ InitPool

SupportNext ==
    \/ StartShell \/ Join(Test) \/ EndTest
    \/ \E a \in Asid :
          \/ UNCHANGED parent /\ (Code(a) \/ pager(a) \/ Terminate(a) \/ Quit(a))
          \/ Signal(a)
          \/ TermProcess(a)
    \/ \E b \in Program : Execute(b)
    \/ Join(Shell) \/ Resume

SupportSpec == SupportInit /\ [][SupportNext]_allVars

-----------------------------------------------------------------------------
(* Correctness *)

Active == {a \in Asid : at[a] \notin {"absent", "signalled"}}

\* While the shell runs, the program it has launched is over, and no permit is
\* left on shellSemaphore that would let it overtake the next one ("viene fatta
\* la V solo quando l'ultimo processo lanciato muore").
ShellWaits ==
    at[Shell] \notin {"absent", "signalled", "created", "join"} =>
        /\ Active = {Shell}
        /\ count[shellSemaphore] = 0

\* A process is killed only when it has nothing more to do: its parent's death
\* never cuts it short, in the middle of the swap pool or elsewhere.
NoneCutShort ==
    [][\A a \in Asid : at[a] # "absent" /\ at'[a] = "absent" => at[a] = "signalled"]_allVars

\* After the death of a process nothing is left of it: no frame, no PTE, and no
\* TLB entry that a later process with its ASID would use.
NothingLeft ==
    \A k \in Key : at[k[1]] \in {"absent", "signalled"} =>
        /\ pte[k] = NULL
        /\ tlb[k] \in {OUT, NULL}
        /\ \A f \in Frame : swapPoolTable[f] # NULL => swapPoolTable[f].sw_pte # k

\* Programs do not stay in the pager or in Syscall2, and neither do their parents
\* and test in a P that has been answered: the nucleus runs them.
SupportFairness ==
    /\ \A a \in Asid :
          /\ WF_allVars((pager(a) \/ Quit(a)) /\ UNCHANGED parent)
          /\ WF_allVars(Signal(a))
          /\ WF_allVars(TermProcess(a))
    /\ WF_allVars(Join(Shell) \/ Resume)
    /\ WF_allVars(Join(Test)) /\ WF_allVars(EndTest)

FairSupportSpec == SupportSpec /\ SupportFairness

\* A program that ends gives the CPU back to the shell, and the end of the shell
\* is the end of all: every process dies, and the nucleus halts.
EndsTogether ==
    /\ \A a \in Program : at[a] = "quit" ~> at[Shell] = "user"
    /\ at[Shell] = "quit" ~> \A a \in Process : at[a] = "absent"
=============================================================================
