--------------------------- MODULE SupportProofs ---------------------------
(***************************************************************************)
(* The life of the user processes, for any number of programs, pages and   *)
(* frames, with errors of the flash devices or without: the shell waits    *)
(* for what it has launched, and the death of a parent cuts nobody short.  *)
(*                                                                         *)
(* test and the shell do the same, each with its semaphore: they create a  *)
(* process, do a P, and go on after the V of its end (Awaits).             *)
(*                                                                         *)
(* The memory is as PoolProofs has it: what Support adds to SwapPool is    *)
(* beside the pager, because whoever is created or killed has no page in   *)
(* the pool and is not at work there.                                      *)
(***************************************************************************)
EXTENDS Support, PoolProofs

Gone == {"absent", "signalled"}
Launching == {"created", "join"}
Inside == InCode \cup InPool \cup Elsewhere    \* what SwapPool has a process do

\* The program that the shell has launched is not over; nor is the shell.
ProgramRuns == \E b \in Program : at[b] \notin Gone
ShellRuns == at[Shell] \notin Gone

-----------------------------------------------------------------------------
(* The invariant *)

LifeTypes ==
    /\ at \in [Process -> Inside \cup Gone \cup Launching]
    /\ back \in [Asid -> InCode]
    /\ count \in [Semaphore -> Nat]
    /\ queue \in [Semaphore -> Seq(Process)]
    /\ \A b \in Program : at[b] \notin Launching
    /\ at[Test] \in Launching \cup {"user", "absent"}

\* Nobody but test and the shell has children.
Family ==
    /\ parent \in [Asid -> {NULL, Test, Shell}]
    /\ parent[Shell] # Shell

\* p, which is at where, has launched a process that is running, or has done its
\* V; and p is before its P on s, in it, or after it.  Or p has launched none, and
\* nothing is left on s, which has these permits and this queue.
Awaits(p, where, permits, q, runs) ==
    /\ IsInjective(q)
    /\ where = "created" => permits = (IF runs THEN 0 ELSE 1) /\ ToSet(q) = {}
    /\ where = "join" => permits = 0 /\ ToSet(q) = IF runs THEN {p} ELSE {}
    /\ where \notin Launching => ~runs /\ permits = 0 /\ ToSet(q) = {}

TestAwaits ==
    Awaits(Test, at[Test], count[masterSemaphore], queue[masterSemaphore], ShellRuns)
ShellAwaits ==
    Awaits(Shell, at[Shell], count[shellSemaphore], queue[shellSemaphore], ProgramRuns)

OneProgram == \A b, c \in Program : at[b] \notin Gone /\ at[c] \notin Gone => b = c

LifeInv ==
    LifeTypes /\ Family /\ OneProgram /\ TestAwaits /\ ShellAwaits

LEMMA ThreeDistinct ==
  ASSUME NEW x, NEW y, NEW z, Cardinality({x, y, z}) = 3
  PROVE  x # y /\ x # z /\ y # z
<1>1. ASSUME NEW u, NEW v PROVE Cardinality({u, v}) # 3
  <2>1. Cardinality({u}) = 1 /\ IsFiniteSet({u})
    BY FS_Singleton
  <2>2. {u, v} = {u} \cup {v}
    OBVIOUS
  <2>3. Cardinality({u} \cup {v}) = IF v \in {u} THEN 1 ELSE 1 + 1
    BY <2>1, FS_AddElement
  <2>4. QED  BY <2>2, <2>3
<1>2. (x = y \/ x = z \/ y = z) => \E u, v : {x, y, z} = {u, v}
  <2>1. CASE x = y
    BY <2>1, {x, y, z} = {x, z}
  <2>2. CASE x = z
    BY <2>2, {x, y, z} = {x, y}
  <2>3. CASE y = z
    BY <2>3, {x, y, z} = {x, y}
  <2>4. QED  BY <2>1, <2>2, <2>3
<1>3. ASSUME NEW u, NEW v, {x, y, z} = {u, v} PROVE FALSE
  <2>1. Cardinality({x, y, z}) = Cardinality({u, v})
    BY <1>3
  <2>2. QED  BY <1>1, <2>1
<1>4. QED  BY <1>2, <1>3

LEMMA Names ==
  /\ swapPoolSemaphore \in Semaphore /\ masterSemaphore \in Semaphore
  /\ shellSemaphore \in Semaphore
  /\ swapPoolSemaphore # masterSemaphore /\ swapPoolSemaphore # shellSemaphore
  /\ masterSemaphore # shellSemaphore
  /\ Process = Asid \cup {Test} /\ Test \notin Asid /\ Shell \in Asid
  /\ Program = Asid \ {Shell} /\ NULL \notin Asid
BY ThreeDistinct, NameAssumption, RoleAssumption, SemaphoreAssumption DEF Program

\* What the states are called.
LEMMA StateFacts ==
  /\ Inside \cap Gone = {} /\ Inside \cap Launching = {} /\ Gone \cap Launching = {}
  /\ "user" \in Inside /\ "freed" \in Inside /\ "quit" \in Inside /\ InCode \subseteq Inside
  /\ Gone = {"absent", "signalled"} /\ Launching = {"created", "join"}
BY DEF Inside, Gone, Launching, InCode, InPool, Elsewhere

LEMMA InitLife == SupportInit => LifeInv
<1> SUFFICES ASSUME SupportInit PROVE LifeInv
  OBVIOUS
<1>1. /\ at = [a \in Process |-> IF a = Test THEN "user" ELSE "absent"]
      /\ back = [a \in Asid |-> "user"]
      /\ count = [s \in Semaphore |-> IF s = swapPoolSemaphore THEN 1 ELSE 0]
      /\ queue = [s \in Semaphore |-> <<>>]
      /\ parent = [a \in Asid |-> NULL]
  BY DEF SupportInit, InitPool
<1>2. LifeTypes
  BY <1>1, Names, StateFacts DEF LifeTypes, InCode
<1>3. Family
  BY <1>1, Names DEF Family
<1>4. OneProgram /\ ~ProgramRuns /\ ~ShellRuns
  BY <1>1, Names, StateFacts DEF OneProgram, ProgramRuns, ShellRuns
<1>5. QED
  BY <1>1, <1>2, <1>3, <1>4, Names, StateFacts, EmptyQueue DEF LifeInv, TestAwaits, ShellAwaits, Awaits

-----------------------------------------------------------------------------
(* Semaphores *)

\* P takes the permit, or waits.
LEMMA PSet ==
  ASSUME LifeTypes, NEW s \in Semaphore, NEW a \in Process, Sem!P(a, s)
  PROVE  /\ count' \in [Semaphore -> Nat] /\ queue' \in [Semaphore -> Seq(Process)]
         /\ \A t \in Semaphore : t # s => count'[t] = count[t] /\ queue'[t] = queue[t]
         /\ IsInjective(queue[s]) => IsInjective(queue'[s])
         /\ \/ count[s] # 0 /\ count'[s] = count[s] - 1 /\ queue'[s] = queue[s]
            \/ /\ count[s] = 0 /\ count'[s] = 0
               /\ ToSet(queue'[s]) = ToSet(queue[s]) \cup {a}
<1>1. count \in [Semaphore -> Nat] /\ queue \in [Semaphore -> Seq(Process)]
  BY DEF LifeTypes
<1>2. a \notin ToSet(queue[s])
  BY DEF Sem!P, Sem!Waits, ToSet
<1>3. /\ IsInjective(queue[s]) => IsInjective(Append(queue[s], a))
      /\ ToSet(Append(queue[s], a)) = ToSet(queue[s]) \cup {a}
  BY <1>1, <1>2, AppendFacts
<1>4. QED  BY <1>1, <1>3, PStep

\* V lets the one that waits go on, or leaves a permit.
LEMMA VSet ==
  ASSUME LifeTypes, NEW s \in Semaphore, Sem!V(s)
  PROVE  /\ count' \in [Semaphore -> Nat] /\ queue' \in [Semaphore -> Seq(Process)]
         /\ \A t \in Semaphore : t # s => count'[t] = count[t] /\ queue'[t] = queue[t]
         /\ IsInjective(queue[s]) =>
               /\ IsInjective(queue'[s])
               /\ ToSet(queue[s]) = {} =>
                     count'[s] = count[s] + 1 /\ ToSet(queue'[s]) = {}
               /\ \A p : ToSet(queue[s]) = {p} =>
                     count'[s] = count[s] /\ ToSet(queue'[s]) = {}
<1>1. /\ queue[s] \in Seq(Process)
      /\ count \in [Semaphore -> Nat] /\ queue \in [Semaphore -> Seq(Process)]
  BY DEF LifeTypes
<1>2. CASE queue[s] # <<>> /\ count'[s] = count[s] /\ queue'[s] = Tail(queue[s])
  <2>1. /\ ToSet(queue[s]) = ToSet(Tail(queue[s])) \cup {Head(queue[s])}
        /\ IsInjective(queue[s]) =>
              IsInjective(Tail(queue[s])) /\ Head(queue[s]) \notin ToSet(Tail(queue[s]))
    BY <1>1, <1>2, HeadTailFacts
  <2>2. ASSUME IsInjective(queue[s]), NEW p, ToSet(queue[s]) = {p}
        PROVE  ToSet(queue'[s]) = {}
    BY <1>2, <2>1, <2>2
  <2>3. ToSet(queue[s]) # {} /\ (IsInjective(queue[s]) => IsInjective(queue'[s]))
    BY <1>2, <2>1
  <2>4. QED  BY <1>1, <1>2, <2>2, <2>3, VStep
<1>3. CASE queue[s] = <<>> /\ count'[s] = count[s] + 1 /\ queue'[s] = queue[s]
  <2>1. ToSet(queue[s]) = {} /\ \A p : ToSet(queue[s]) # {p}
    BY <1>3, EmptyQueue
  <2>2. QED  BY <1>1, <1>3, <2>1, VStep
<1>4. QED  BY <1>1, <1>2, <1>3, VStep

-----------------------------------------------------------------------------
(* Steps *)

\* No step makes a process absent that has anything left to do.
CutsNobody == \A a \in Asid : at[a] # "absent" /\ at'[a] = "absent" => at[a] = "signalled"

\* Processes at work on the memory are no matter of the shell.
LEMMA InsideStep ==
  ASSUME LifeInv, NEW a \in Asid, at[a] \in Inside, NEW w \in Inside, Go(a, w),
         back' \in [Asid -> InCode], parent' = parent,
         count' \in [Semaphore -> Nat], queue' \in [Semaphore -> Seq(Process)],
         \A s \in Semaphore : s # swapPoolSemaphore =>
            count'[s] = count[s] /\ queue'[s] = queue[s]
  PROVE  LifeInv' /\ CutsNobody
<1>1. /\ LifeTypes /\ Family /\ OneProgram /\ TestAwaits /\ ShellAwaits
      /\ \A p \in Process : at'[p] = IF p = a THEN w ELSE at[p]
      /\ at' \in [Process -> Inside \cup Gone \cup Launching]
  BY Names DEF LifeInv, LifeTypes, Go
<1>2. /\ \A b \in Asid : at'[b] \in Gone <=> at[b] \in Gone
      /\ \A b \in Asid : at'[b] \in Launching <=> at[b] \in Launching
      /\ \A p \in Process : at[p] \in Launching => at'[p] = at[p]
      /\ at'[Test] = at[Test]
  BY <1>1, Names, StateFacts
<1>3. LifeTypes'
  BY <1>1, <1>2, Names DEF LifeTypes
<1>4. Family' /\ OneProgram' /\ (ProgramRuns' <=> ProgramRuns) /\ (ShellRuns' <=> ShellRuns)
  BY <1>1, <1>2, Names DEF Family, OneProgram, ProgramRuns, ShellRuns
<1>5. TestAwaits'
  BY <1>1, <1>2, <1>4, Names DEF TestAwaits, Awaits
<1>6. ShellAwaits'
  <2>1. /\ count'[shellSemaphore] = count[shellSemaphore]
        /\ queue'[shellSemaphore] = queue[shellSemaphore]
    BY Names
  <2>2. CASE at[Shell] \in Launching
    <3>1. at'[Shell] = at[Shell]
      BY <1>2, <2>2, Names
    <3>2. QED  BY <1>1, <1>4, <2>1, <3>1 DEF ShellAwaits, Awaits
  <2>3. CASE at[Shell] \notin Launching
    <3>1. at'[Shell] \notin Launching
      BY <1>2, <2>3, Names
    <3>2. QED  BY <1>1, <1>4, <2>1, <2>3, <3>1, StateFacts DEF ShellAwaits, Awaits
  <2>4. QED  BY <2>2, <2>3
<1>7. CutsNobody
  BY <1>1, <1>2, Names, StateFacts DEF CutsNobody
<1>8. QED  BY <1>3, <1>4, <1>5, <1>6, <1>7 DEF LifeInv

\* Steps of SwapPool.
LEMMA MemorySteps ==
  ASSUME LifeInv, NEW a \in Asid, parent' = parent,
         Code(a) \/ pager(a) \/ Terminate(a) \/ Quit(a)
  PROVE  LifeInv' /\ CutsNobody
<1>1. /\ LifeTypes /\ a \in Process /\ back[a] \in InCode /\ back \in [Asid -> InCode]
      /\ at \in [Process -> Inside \cup Gone \cup Launching]
      /\ count \in [Semaphore -> Nat] /\ queue \in [Semaphore -> Seq(Process)]
  BY Names DEF LifeInv, LifeTypes
<1>2. CASE Code(a)
  <2>1. PICK p \in Page : uTLB_RefillHandler(a, p) \/ Store(a, p) \/ PageFault(a, p)
    BY <1>2 DEF Code
  <2>2. at[a] \in InCode /\ at[a] \in Inside /\ "fault" \in Inside
    BY <2>1, StateFacts DEF uTLB_RefillHandler, Store, PageFault, Inside, Elsewhere
  <2>3. \E w \in Inside : Go(a, w)
    <3>1. at' = at \/ Go(a, "fault")
      BY <2>1 DEF uTLB_RefillHandler, Store, PageFault
    <3>2. at = [at EXCEPT ![a] = at[a]]
      BY <1>1
    <3>3. QED  BY <2>2, <3>1, <3>2 DEF Go
  <2>4. back' \in [Asid -> InCode] /\ count' = count /\ queue' = queue
    BY <1>1, <2>1, <2>2 DEF uTLB_RefillHandler, Store, PageFault, pagerVars, semVars
  <2>5. QED  BY <1>1, <2>2, <2>3, <2>4, InsideStep
<1>3. CASE EnterPool(a) \/ EnterFree(a)
  <2>1. /\ at[a] \in Inside /\ \E w \in Inside : Go(a, w)
        /\ Sem!P(a, swapPoolSemaphore) /\ back' = back
    BY <1>3 DEF EnterPool, EnterFree, Inside, InPool, Elsewhere, pagerVars
  <2>2. QED  BY <1>1, <2>1, PSet, Names, InsideStep
<1>4. CASE ReadIn(a) \/ Trap(a) \/ freeFrames(a)
  <2>1. /\ at[a] \in Inside /\ \E w \in Inside : Go(a, w)
        /\ Sem!V(swapPoolSemaphore)
    BY <1>1, <1>4, StateFacts DEF ReadIn, Trap, freeFrames, Inside, InPool, Elsewhere
  <2>2. back' \in [Asid -> InCode]
    BY <1>1, <1>4 DEF ReadIn, Trap, freeFrames, Return, InCode, pagerVars
  <2>3. QED  BY <1>1, <2>1, <2>2, VSet, Names, InsideStep
<1>5. CASE ChooseFrame(a) \/ WriteBack(a) \/ ReadFails(a) \/ Terminate(a)
  <2>1. /\ at[a] \in Inside /\ \E w \in Inside : Go(a, w)
        /\ back' = back /\ count' = count /\ queue' = queue
    BY <1>5 DEF ChooseFrame, WriteBack, ReadFails, Terminate, Inside, InCode, InPool, Elsewhere,
                pagerVars, semVars
  <2>2. QED  BY <1>1, <2>1, InsideStep
<1>6. QED  BY <1>2, <1>3, <1>4, <1>5 DEF pager, Quit

\* Test or the shell creates a process.
LEMMA CreateSteps ==
  ASSUME LifeInv, StartShell \/ \E b \in Program : Execute(b)
  PROVE  LifeInv' /\ CutsNobody
<1>1. /\ LifeTypes /\ Family /\ OneProgram /\ TestAwaits /\ ShellAwaits
      /\ at \in [Process -> Inside \cup Gone \cup Launching]
      /\ parent \in [Asid -> {NULL, Test, Shell}]
  BY DEF LifeInv, LifeTypes, Family
<1>2. CASE StartShell
  <2>1. /\ at[Test] = "user" /\ parent' = [parent EXCEPT ![Shell] = Test]
        /\ at' = [at EXCEPT ![Shell] = "user", ![Test] = "created"]
        /\ back' = back /\ count' = count /\ queue' = queue
    BY <1>2 DEF StartShell, processCreation, pagerVars, semVars
  <2>2. \A p \in Process : at'[p] = IF p = Test THEN "created"
                                    ELSE IF p = Shell THEN "user" ELSE at[p]
    BY <1>1, <2>1, Names
  <2>3. at[Shell] \in Gone /\ count[masterSemaphore] = 0 /\ ToSet(queue[masterSemaphore]) = {}
    BY <1>1, <2>1, StateFacts DEF TestAwaits, Awaits, ShellRuns, Launching
  <2>4. ~ProgramRuns /\ count[shellSemaphore] = 0 /\ ToSet(queue[shellSemaphore]) = {}
    BY <1>1, <2>3, StateFacts DEF ShellAwaits, Awaits
  <2>5. LifeTypes'
    BY <1>1, <2>1, <2>2, Names, StateFacts DEF LifeTypes
  <2>6. Family'
    BY <1>1, <2>1, Names DEF Family
  <2>7. OneProgram' /\ ~ProgramRuns' /\ ShellRuns'
    BY <1>1, <2>2, <2>4, Names, StateFacts DEF OneProgram, ProgramRuns, ShellRuns
  <2>8. TestAwaits' /\ ShellAwaits'
    BY <1>1, <2>1, <2>2, <2>3, <2>4, <2>7, Names, StateFacts
       DEF TestAwaits, ShellAwaits, Awaits
  <2>9. CutsNobody
    BY <2>2, Names DEF CutsNobody
  <2>10. QED  BY <2>5, <2>6, <2>7, <2>8, <2>9 DEF LifeInv
<1>3. ASSUME NEW b \in Program, Execute(b) PROVE LifeInv' /\ CutsNobody
  <2>1. /\ at[Shell] = "user" /\ parent' = [parent EXCEPT ![b] = Shell]
        /\ at' = [at EXCEPT ![b] = "user", ![Shell] = "created"]
        /\ back' = back /\ count' = count /\ queue' = queue
    BY <1>3 DEF Execute, processCreation, pagerVars, semVars
  <2>2. \A p \in Process : at'[p] = IF p = Shell THEN "created"
                                    ELSE IF p = b THEN "user" ELSE at[p]
    BY <1>1, <2>1, Names
  <2>3. /\ ~ProgramRuns /\ count[shellSemaphore] = 0 /\ ToSet(queue[shellSemaphore]) = {}
        /\ ShellRuns
    BY <1>1, <2>1, StateFacts DEF ShellAwaits, Awaits, ShellRuns
  <2>4. LifeTypes'
    BY <1>1, <2>1, <2>2, Names, StateFacts DEF LifeTypes
  <2>5. Family'
    BY <1>1, <1>3, <2>1, Names DEF Family
  <2>6. OneProgram' /\ ProgramRuns' /\ ShellRuns'
    BY <1>1, <1>3, <2>2, <2>3, Names, StateFacts DEF OneProgram, ProgramRuns, ShellRuns
  <2>7. ShellAwaits'
    BY <1>1, <2>1, <2>2, <2>3, <2>6, Names, StateFacts DEF ShellAwaits, Awaits
  <2>8. TestAwaits'
    BY <1>1, <1>3, <2>1, <2>2, <2>3, <2>6, Names DEF TestAwaits, Awaits
  <2>9. CutsNobody
    BY <1>3, <2>2, Names DEF CutsNobody
  <2>10. QED  BY <2>4, <2>5, <2>6, <2>7, <2>8, <2>9 DEF LifeInv
<1>4. QED  BY <1>2, <1>3

\* The P of the parent.
LEMMA JoinSteps ==
  ASSUME LifeInv, Join(Test) \/ Join(Shell)
  PROVE  LifeInv' /\ CutsNobody
<1>1. /\ LifeTypes /\ Family /\ OneProgram /\ TestAwaits /\ ShellAwaits
      /\ at \in [Process -> Inside \cup Gone \cup Launching]
  BY DEF LifeInv, LifeTypes
<1>2. PICK p \in {Test, Shell} : Join(p)
  OBVIOUS
<1> DEFINE s == IF p = Test THEN masterSemaphore ELSE shellSemaphore
<1>3. /\ at[p] = "created" /\ at' = [at EXCEPT ![p] = "join"] /\ Sem!P(p, s)
      /\ back' = back /\ parent' = parent /\ s \in Semaphore /\ p \in Process
      /\ s = masterSemaphore \/ s = shellSemaphore
  BY <1>2, Names DEF Join, Go, MemoryUnchanged, pagerVars
<1>4. \A q \in Process : at'[q] = IF q = p THEN "join" ELSE at[q]
  BY <1>1, <1>3
<1>5. /\ count' \in [Semaphore -> Nat] /\ queue' \in [Semaphore -> Seq(Process)]
      /\ \A t \in Semaphore : t # s => count'[t] = count[t] /\ queue'[t] = queue[t]
      /\ IsInjective(queue[s]) => IsInjective(queue'[s])
      /\ \/ count[s] # 0 /\ count'[s] = count[s] - 1 /\ queue'[s] = queue[s]
         \/ /\ count[s] = 0 /\ count'[s] = 0
            /\ ToSet(queue'[s]) = ToSet(queue[s]) \cup {p}
  BY <1>1, <1>3, PSet
<1>6. LifeTypes'
  BY <1>1, <1>3, <1>4, <1>5, Names, StateFacts DEF LifeTypes
<1>7. Family' /\ OneProgram' /\ (ProgramRuns' <=> ProgramRuns) /\ (ShellRuns' <=> ShellRuns)
  BY <1>1, <1>3, <1>4, Names, StateFacts DEF Family, OneProgram, ProgramRuns, ShellRuns
<1>8. CASE p = Test
  <2>1. TestAwaits'
    BY <1>1, <1>3, <1>4, <1>5, <1>7, <1>8, Names, StateFacts DEF TestAwaits, Awaits
  <2>2. ShellAwaits'
    BY <1>1, <1>4, <1>5, <1>7, <1>8, Names DEF ShellAwaits, Awaits
  <2>3. CutsNobody
    BY <1>4, Names DEF CutsNobody
  <2>4. QED  BY <1>6, <1>7, <2>1, <2>2, <2>3 DEF LifeInv
<1>9. CASE p = Shell
  <2>1. ShellAwaits'
    BY <1>1, <1>3, <1>4, <1>5, <1>7, <1>9, Names, StateFacts DEF ShellAwaits, Awaits
  <2>2. TestAwaits'
    BY <1>1, <1>4, <1>5, <1>7, <1>9, Names DEF TestAwaits, Awaits
  <2>3. CutsNobody
    BY <1>4, Names DEF CutsNobody
  <2>4. QED  BY <1>6, <1>7, <2>1, <2>2, <2>3 DEF LifeInv
<1>10. QED  BY <1>8, <1>9

\* A process that does not wait is in no queue.
LEMMA NotQueued ==
  ASSUME NEW p, NEW s \in Semaphore, ~Sem!Waits(p)
  PROVE  p \notin ToSet(queue[s])
BY DEF Sem!Waits, ToSet

LEMMA ResumeStep ==
  ASSUME LifeInv, Resume
  PROVE  LifeInv' /\ CutsNobody
<1>1. /\ LifeTypes /\ Family /\ OneProgram /\ TestAwaits /\ ShellAwaits
      /\ at \in [Process -> Inside \cup Gone \cup Launching]
  BY DEF LifeInv, LifeTypes
<1>2. /\ at[Shell] = "join" /\ at' = [at EXCEPT ![Shell] = "user"]
      /\ Shell \notin ToSet(queue[shellSemaphore])
      /\ back' = back /\ parent' = parent /\ count' = count /\ queue' = queue
  BY NotQueued, Names DEF Resume, Go, MemoryUnchanged, pagerVars, semVars
<1>3. \A q \in Process : at'[q] = IF q = Shell THEN "user" ELSE at[q]
  BY <1>1, <1>2
<1>4. /\ ~ProgramRuns /\ count[shellSemaphore] = 0 /\ ToSet(queue[shellSemaphore]) = {}
      /\ ShellRuns
  BY <1>1, <1>2, StateFacts DEF ShellAwaits, Awaits, ShellRuns
<1>5. LifeTypes'
  BY <1>1, <1>2, <1>3, Names, StateFacts DEF LifeTypes
<1>6. Family' /\ OneProgram' /\ ~ProgramRuns' /\ ShellRuns'
  BY <1>1, <1>2, <1>3, <1>4, Names, StateFacts DEF Family, OneProgram, ProgramRuns, ShellRuns
<1>7. TestAwaits' /\ ShellAwaits'
  BY <1>1, <1>2, <1>3, <1>4, <1>6, Names, StateFacts DEF TestAwaits, ShellAwaits, Awaits
<1>8. CutsNobody
  BY <1>3, Names DEF CutsNobody
<1>9. QED  BY <1>5, <1>6, <1>7, <1>8 DEF LifeInv

\* The V at the end.
LEMMA SignalStep ==
  ASSUME LifeInv, NEW a \in Asid, Signal(a)
  PROVE  LifeInv' /\ CutsNobody
<1>1. /\ LifeTypes /\ Family /\ OneProgram /\ TestAwaits /\ ShellAwaits
      /\ at \in [Process -> Inside \cup Gone \cup Launching]
  BY DEF LifeInv, LifeTypes
<1> DEFINE s == IF a = Shell THEN masterSemaphore ELSE shellSemaphore
<1>2. /\ at[a] = "freed" /\ at' = [at EXCEPT ![a] = "signalled"] /\ Sem!V(s)
      /\ back' = back /\ parent' = parent /\ s \in Semaphore /\ a \in Process
      /\ s = masterSemaphore \/ s = shellSemaphore
  BY Names DEF Signal, Go, MemoryUnchanged, pagerVars
<1>3. \A q \in Process : at'[q] = IF q = a THEN "signalled" ELSE at[q]
  BY <1>1, <1>2
<1>4. /\ count' \in [Semaphore -> Nat] /\ queue' \in [Semaphore -> Seq(Process)]
      /\ \A t \in Semaphore : t # s => count'[t] = count[t] /\ queue'[t] = queue[t]
      /\ IsInjective(queue[s]) =>
            /\ IsInjective(queue'[s])
            /\ ToSet(queue[s]) = {} => count'[s] = count[s] + 1 /\ ToSet(queue'[s]) = {}
            /\ \A p : ToSet(queue[s]) = {p} => count'[s] = count[s] /\ ToSet(queue'[s]) = {}
  BY <1>1, <1>2, VSet
<1>5. LifeTypes'
  BY <1>1, <1>2, <1>3, <1>4, Names, StateFacts DEF LifeTypes
<1>6. Family' /\ OneProgram'
  BY <1>1, <1>2, <1>3, Names, StateFacts DEF Family, OneProgram
<1>7. CutsNobody
  BY <1>3, Names DEF CutsNobody
<1>8. CASE a = Shell
  <2>1. ShellRuns /\ ~ShellRuns' /\ (ProgramRuns' <=> ProgramRuns)
    BY <1>2, <1>3, <1>8, Names, StateFacts DEF ShellRuns, ProgramRuns
  <2>2. ~ProgramRuns
    BY <1>1, <1>2, <1>8, StateFacts DEF ShellAwaits, Awaits
  <2>3. at[Test] \in Launching /\ at'[Test] = at[Test]
    BY <1>1, <1>3, <1>8, <2>1, Names DEF TestAwaits, Awaits
  <2>4. TestAwaits'
    <3>1. s = masterSemaphore
      BY <1>8
    <3> HIDE DEF s
    <3>2. IsInjective(queue[s]) /\ IsInjective(queue'[s])
      BY <1>1, <1>4, <3>1 DEF TestAwaits, Awaits
    <3>3. CASE at[Test] = "created"
      <4>1. count[s] = 0 /\ ToSet(queue[s]) = {}
        BY <1>1, <2>1, <3>1, <3>3 DEF TestAwaits, Awaits
      <4>2. count'[s] = 1 /\ ToSet(queue'[s]) = {}
        BY <1>4, <3>2, <4>1
      <4>3. QED  BY <2>1, <2>3, <3>1, <3>2, <3>3, <4>2, StateFacts DEF TestAwaits, Awaits
    <3>4. CASE at[Test] = "join"
      <4>1. count[s] = 0 /\ ToSet(queue[s]) = {Test}
        BY <1>1, <2>1, <3>1, <3>4 DEF TestAwaits, Awaits
      <4>2. count'[s] = 0 /\ ToSet(queue'[s]) = {}
        BY <1>4, <3>2, <4>1
      <4>3. QED  BY <2>1, <2>3, <3>1, <3>2, <3>4, <4>2, StateFacts DEF TestAwaits, Awaits
    <3>5. QED  BY <2>3, <3>3, <3>4, StateFacts
  <2>5. ShellAwaits'
    BY <1>1, <1>2, <1>3, <1>4, <1>8, <2>1, <2>2, Names, StateFacts DEF ShellAwaits, Awaits
  <2>6. QED  BY <1>5, <1>6, <1>7, <2>4, <2>5 DEF LifeInv
<1>9. CASE a # Shell
  <2>1. ProgramRuns /\ ~ProgramRuns' /\ (ShellRuns' <=> ShellRuns)
    BY <1>1, <1>2, <1>3, <1>9, Names, StateFacts DEF ShellRuns, ProgramRuns, OneProgram
  <2>2. at[Shell] \in Launching /\ at'[Shell] = at[Shell] /\ at'[Test] = at[Test]
    BY <1>1, <1>3, <1>9, <2>1, Names DEF ShellAwaits, Awaits
  <2>3. ShellAwaits'
    <3>1. s = shellSemaphore
      BY <1>9
    <3> HIDE DEF s
    <3>2. IsInjective(queue[s]) /\ IsInjective(queue'[s])
      BY <1>1, <1>4, <3>1 DEF ShellAwaits, Awaits
    <3>3. CASE at[Shell] = "created"
      <4>1. count[s] = 0 /\ ToSet(queue[s]) = {}
        BY <1>1, <2>1, <3>1, <3>3 DEF ShellAwaits, Awaits
      <4>2. count'[s] = 1 /\ ToSet(queue'[s]) = {}
        BY <1>4, <3>2, <4>1
      <4>3. QED  BY <2>1, <2>2, <3>1, <3>2, <3>3, <4>2, StateFacts DEF ShellAwaits, Awaits
    <3>4. CASE at[Shell] = "join"
      <4>1. count[s] = 0 /\ ToSet(queue[s]) = {Shell}
        BY <1>1, <2>1, <3>1, <3>4 DEF ShellAwaits, Awaits
      <4>2. count'[s] = 0 /\ ToSet(queue'[s]) = {}
        BY <1>4, <3>2, <4>1
      <4>3. QED  BY <2>1, <2>2, <3>1, <3>2, <3>4, <4>2, StateFacts DEF ShellAwaits, Awaits
    <3>5. QED  BY <2>2, <3>3, <3>4, StateFacts
  <2>4. TestAwaits'
    BY <1>1, <1>4, <1>9, <2>1, <2>2, Names DEF TestAwaits, Awaits
  <2>5. QED  BY <1>5, <1>6, <1>7, <2>3, <2>4 DEF LifeInv
<1>10. QED  BY <1>8, <1>9

\* TERMPROCESS of a process none of whose victims is running.
LEMMA KillStep ==
  ASSUME LifeInv, NEW a \in Process, NEW S \in SUBSET Asid, Kill(a, S),
         \A b \in Asid : b \in S \cup {a} => at[b] \in Gone,
         a = Test => ~ShellRuns /\ ToSet(queue[masterSemaphore]) = {}
                     /\ count[masterSemaphore] = 0
  PROVE  LifeInv' /\ CutsNobody
<1> DEFINE X == S \cup {a}
<1>1. /\ LifeTypes /\ Family /\ OneProgram /\ TestAwaits /\ ShellAwaits
      /\ at \in [Process -> Inside \cup Gone \cup Launching]
      /\ parent \in [Asid -> {NULL, Test, Shell}] /\ parent[Shell] # Shell
      /\ queue \in [Semaphore -> Seq(Process)]
  BY DEF LifeInv, LifeTypes, Family
<1>2. /\ at' = [b \in Process |-> IF b \in X THEN "absent" ELSE at[b]]
      /\ parent' = [b \in Asid |-> IF b \in X THEN NULL ELSE parent[b]]
      /\ back' = back /\ count' = count
      /\ queue' = [t \in Semaphore |-> Sem!Without(queue[t], X)]
  BY DEF Kill, MemoryUnchanged, pagerVars, Sem!Leave
<1>3. \A b \in Asid : b \in X => at[b] \in Gone
  OBVIOUS
<1>4. Test \in X => a = Test
  BY Names
<1> HIDE DEF X
<1>5. \A t \in Semaphore :
         /\ queue'[t] \in Seq(Process) /\ ToSet(queue'[t]) = ToSet(queue[t]) \ X
         /\ IsInjective(queue[t]) => IsInjective(queue'[t])
  <2>1. ASSUME NEW t \in Semaphore
        PROVE  /\ Without(queue[t], X) \in Seq(Process)
               /\ ToSet(Without(queue[t], X)) = ToSet(queue[t]) \ X
               /\ IsInjective(queue[t]) => IsInjective(Without(queue[t], X))
    BY <1>1, WithoutFacts
  <2>2. \A t \in Semaphore : queue'[t] = Without(queue[t], X)
    BY <1>2 DEF Sem!Without, Without
  <2>3. QED  BY <2>1, <2>2
<1>6. \A b \in Process : at'[b] = IF b \in X THEN "absent" ELSE at[b]
  BY <1>2
<1>7. \A b \in Asid : /\ at'[b] \in Gone <=> at[b] \in Gone
                      /\ at'[b] \in Launching <=> at[b] \in Launching
                      /\ at[b] \in Launching => b \notin X /\ at'[b] = at[b]
  BY <1>3, <1>6, Names, StateFacts
<1>8. LifeTypes'
  <2>1. queue' \in [Semaphore -> Seq(Process)] /\ count' \in [Semaphore -> Nat]
    BY <1>1, <1>2, <1>5 DEF LifeTypes
  <2>2. at' \in [Process -> Inside \cup Gone \cup Launching]
    BY <1>1, <1>2, StateFacts
  <2>3. at'[Test] \in Launching \cup {"user", "absent"} /\ back' \in [Asid -> InCode]
    BY <1>1, <1>2, <1>6, Names DEF LifeTypes
  <2>4. \A b \in Program : at'[b] \notin Launching
    BY <1>1, <1>7, Names DEF LifeTypes
  <2>5. QED  BY <2>1, <2>2, <2>3, <2>4 DEF LifeTypes
<1>9. Family' /\ OneProgram' /\ (ProgramRuns' <=> ProgramRuns) /\ (ShellRuns' <=> ShellRuns)
  <2>1. Family'
    BY <1>1, <1>2, Names DEF Family
  <2>2. OneProgram' /\ (ProgramRuns' <=> ProgramRuns) /\ (ShellRuns' <=> ShellRuns)
    BY <1>1, <1>7, Names DEF OneProgram, ProgramRuns, ShellRuns
  <2>3. QED  BY <2>1, <2>2
<1>10. TestAwaits'
  <2>1. IsInjective(queue'[masterSemaphore])
    BY <1>1, <1>5, Names DEF TestAwaits, Awaits
  <2>2. CASE a = Test
    <3>1. at'[Test] = "absent"
      BY <1>6, <2>2 DEF X
    <3>2. ~ShellRuns' /\ count'[masterSemaphore] = 0 /\ ToSet(queue'[masterSemaphore]) = {}
      BY <1>2, <1>5, <1>9, <2>2, Names
    <3>3. QED  BY <2>1, <3>1, <3>2, StateFacts DEF TestAwaits, Awaits
  <2>3. CASE a # Test
    <3>1. at'[Test] = at[Test] /\ Test \notin X
      BY <1>4, <1>6, <2>3, Names
    <3>2. ToSet(queue[masterSemaphore]) \in {{}, {Test}}
      BY <1>1, StateFacts DEF TestAwaits, Awaits
    <3>3. ToSet(queue'[masterSemaphore]) = ToSet(queue[masterSemaphore])
      <4>1. ToSet(queue'[masterSemaphore]) = ToSet(queue[masterSemaphore]) \ X
        BY <1>5, Names
      <4>2. QED  BY <3>1, <3>2, <4>1
    <3>4. QED  BY <1>1, <1>2, <1>9, <2>1, <3>1, <3>3 DEF TestAwaits, Awaits
  <2>4. QED  BY <2>2, <2>3
<1>11. ShellAwaits'
  <2>1. IsInjective(queue'[shellSemaphore])
    BY <1>1, <1>5, Names DEF ShellAwaits, Awaits
  <2>2. CASE at[Shell] \in Launching
    <3>1. at'[Shell] = at[Shell] /\ Shell \notin X
      BY <1>7, <2>2, Names
    <3>2. ToSet(queue[shellSemaphore]) \in {{}, {Shell}}
      BY <1>1, <2>2, StateFacts DEF ShellAwaits, Awaits
    <3>3. ToSet(queue'[shellSemaphore]) = ToSet(queue[shellSemaphore])
      <4>1. ToSet(queue'[shellSemaphore]) = ToSet(queue[shellSemaphore]) \ X
        BY <1>5, Names
      <4>2. QED  BY <3>1, <3>2, <4>1
    <3>4. QED  BY <1>1, <1>2, <1>9, <2>1, <3>1, <3>3 DEF ShellAwaits, Awaits
  <2>3. CASE at[Shell] \notin Launching
    <3>1. at'[Shell] \notin Launching
      BY <1>7, <2>3, Names
    <3>2. ~ProgramRuns /\ count[shellSemaphore] = 0 /\ ToSet(queue[shellSemaphore]) = {}
      BY <1>1, <2>3 DEF ShellAwaits, Awaits
    <3>3. ~ProgramRuns' /\ count'[shellSemaphore] = 0 /\ ToSet(queue'[shellSemaphore]) = {}
      BY <1>2, <1>5, <1>9, <3>2, Names
    <3>4. QED  BY <2>1, <3>1, <3>3, StateFacts DEF ShellAwaits, Awaits
  <2>4. QED  BY <2>2, <2>3
<1>12. CutsNobody
  BY <1>3, <1>6, Names, StateFacts DEF CutsNobody
<1>13. QED  BY <1>8, <1>9, <1>10, <1>11, <1>12 DEF LifeInv

\* The end of a program takes nobody with it, that of the shell programs that are
\* over, and that of test all of them.
LEMMA KillVictims ==
  ASSUME LifeInv, EndTest \/ \E a \in Asid : TermProcess(a)
  PROVE  \E a \in Process, S \in SUBSET Asid :
            /\ Kill(a, S)
            /\ \A b \in Asid : b \in S \cup {a} => at[b] \in Gone
            /\ a = Test => ~ShellRuns /\ ToSet(queue[masterSemaphore]) = {}
                          /\ count[masterSemaphore] = 0
<1>1. /\ LifeTypes /\ Family /\ TestAwaits /\ ShellAwaits
      /\ parent \in [Asid -> {NULL, Test, Shell}] /\ parent[Shell] # Shell
  BY DEF LifeInv, Family
<1>2. CASE EndTest
  <2>1. at[Test] = "join" /\ Test \notin ToSet(queue[masterSemaphore])
        /\ Kill(Test, Descendants(Test))
    BY <1>2, NotQueued, Names DEF EndTest
  <2>2. ~ShellRuns /\ count[masterSemaphore] = 0 /\ ToSet(queue[masterSemaphore]) = {}
    BY <1>1, <2>1 DEF TestAwaits, Awaits
  <2>3. ~ProgramRuns
    BY <1>1, <2>2, StateFacts DEF ShellAwaits, Awaits, ShellRuns
  <2>4. \A b \in Asid : at[b] \in Gone
    BY <2>2, <2>3, Names DEF ShellRuns, ProgramRuns
  <2>5. Descendants(Test) \in SUBSET Asid
    BY DEF Descendants
  <2>6. Test \in Process
    BY Names
  <2>7. QED  BY <2>1, <2>2, <2>4, <2>5, <2>6, Names
<1>3. ASSUME NEW a \in Asid, TermProcess(a)
      PROVE  \E S \in SUBSET Asid :
                Kill(a, S) /\ \A b \in Asid : b \in S \cup {a} => at[b] \in Gone
  <2>1. at[a] = "signalled" /\ Kill(a, Descendants(a)) /\ a \in Process /\ a # Test
    BY <1>3, Names DEF TermProcess
  <2>2. Descendants(a) \in SUBSET Asid
    BY DEF Descendants
  <2>3. \A b \in Descendants(a) : at[b] \in Gone
    <3>1. CASE a = Shell
      <4>1. ~ProgramRuns
        BY <1>1, <2>1, <3>1, StateFacts DEF ShellAwaits, Awaits
      <4>2. Program \in SUBSET Asid
        BY Names
      <4>3. /\ \A c \in Asid : parent[c] = Shell => c \in Program
            /\ \A c \in Asid : parent[c] \in Program => c \in Program
        BY <1>1, Names
      <4>4. Descendants(Shell) \subseteq Program
        BY <4>2, <4>3 DEF Descendants
      <4>5. QED  BY <3>1, <4>1, <4>4 DEF ProgramRuns
    <3>2. CASE a # Shell
      <4>1. \A c \in Asid : parent[c] # a
        BY <1>1, <2>1, <3>2, Names
      <4>2. \A b \in Descendants(a) : b \in {}
        <5>1. /\ {} \in SUBSET Asid
              /\ \A c \in Asid : parent[c] = a => c \in {}
              /\ \A c \in Asid : parent[c] \in {} => c \in {}
          BY <4>1
        <5>2. QED  BY <5>1, Zenon DEF Descendants
      <4>3. QED  BY <4>2
    <3>3. QED  BY <3>1, <3>2
  <2>4. \A b \in Asid : b \in Descendants(a) \cup {a} => at[b] \in Gone
    BY <2>1, <2>3, StateFacts
  <2>5. QED  BY <2>1, <2>2, <2>4
<1>4. QED  BY <1>2, <1>3, Names

LEMMA KillSteps ==
  ASSUME LifeInv, EndTest \/ \E a \in Asid : TermProcess(a)
  PROVE  LifeInv' /\ CutsNobody
BY KillVictims, KillStep

-----------------------------------------------------------------------------
(* The memory *)

\* A step of Support beside the memory; at most one process starts, on a page
\* table that is empty already.
Starts(a) ==
    /\ at[a] \in Over /\ initSupportStructure(a)
    /\ \A b \in Asid : at[b] \in Over => b = a \/ at'[b] \in Over
StartsNobody == UNCHANGED dataVars /\ \A b \in Asid : at[b] \in Over => at'[b] \in Over

Beside ==
    /\ BesidePager /\ UNCHANGED <<pagerVars, poolVars, mmuVars>>
    /\ StartsNobody \/ \E a \in Asid : Starts(a)

LEMMA OverFacts == Gone \subseteq Over /\ Gone \cup Launching \cup Inside \subseteq Doing
BY DEF Gone, Over, Launching, Inside, Doing

\* Who creates a process is not in the pager, nor is the one that had its ASID.
LEMMA CreateBeside ==
  ASSUME LifeInv, PoolInv, NEW c \in Process, NEW a \in Asid, a # c,
         at[c] = "user", at[a] \in Gone, processCreation(c, a)
  PROVE  Beside
<1>1. /\ MemTypes /\ Mutex /\ TableInv /\ at[a] \in Over /\ a \in Process
      /\ at \in [Process -> Doing]
  BY OverFacts, Names DEF PoolInv, MemTypes
<1>2. /\ at' = [at EXCEPT ![a] = "user", ![c] = "created"] /\ initSupportStructure(a)
      /\ UNCHANGED <<pagerVars, poolVars, semVars>>
  BY DEF processCreation
<1>3. \A b \in Process : at'[b] = IF b = c THEN "created" ELSE IF b = a THEN "user" ELSE at[b]
  BY <1>1, <1>2
<1>4. UNCHANGED <<pagerVars, poolVars, mmuVars>>
  BY <1>1, <1>2, RestartPages DEF mmuVars
<1>5. /\ count' = count /\ queue' = queue /\ mutexCount' = mutexCount
      /\ mutexQueue' = mutexQueue
  BY <1>2 DEF semVars, mutexCount, mutexQueue
<1>6. at' \in [Process -> Doing]
  BY <1>1, <1>2 DEF Doing, InCode
<1>7. /\ "user" \notin PagerStates \cup Over /\ "created" \notin PagerStates \cup Over
      /\ at[a] \notin PagerStates
  BY <1>1 DEF PagerStates, InPool, Over
<1>8. BesidePager
  <2>1. /\ count' \in [Semaphore -> Nat] /\ queue' \in [Semaphore -> Seq(Process)]
        /\ IsInjective(mutexQueue)
    BY <1>1, <1>5 DEF MemTypes, Mutex
  <2>2. \A b \in Asid : /\ at'[b] = at[b] \/ (at[b] \notin PagerStates /\ at'[b] \notin PagerStates)
                        /\ at'[b] \in Over => at[b] \in Over
    BY <1>3, <1>7, Names
  <2>3. QED  BY <1>5, <1>6, <2>1, <2>2 DEF BesidePager
<1>9. Starts(a)
  BY <1>1, <1>2, <1>3, <1>7, Names DEF Starts
<1>10. QED  BY <1>4, <1>8, <1>9 DEF Beside

\* Nor is who waits for its end, or signals its own.
LEMMA AloneBeside ==
  ASSUME PoolInv, NEW a \in Process, NEW w \in {"join", "user", "signalled"}, Go(a, w),
         MemoryUnchanged, NEW s \in Semaphore \ {swapPoolSemaphore},
         Sem!P(a, s) \/ Sem!V(s) \/ UNCHANGED semVars,
         at[a] \in {"created", "join", "freed"},
         at[a] = "freed" <=> w = "signalled"
  PROVE  Beside
<1>1. /\ w \in Doing \ PagerStates /\ at[a] \notin PagerStates
      /\ at[a] \in Over <=> w \in Over
  BY DEF Doing, InCode, PagerStates, InPool, Over
<1>2. BesidePager
  BY <1>1, MoveBeside
<1>3. \A b \in Asid : at[b] \in Over => at'[b] \in Over
  <2>1. at' = [at EXCEPT ![a] = w] /\ at \in [Process -> Doing]
    BY DEF Go, PoolInv, MemTypes
  <2>2. QED  BY <1>1, <2>1, Names
<1>4. QED  BY <1>2, <1>3 DEF Beside, StartsNobody, MemoryUnchanged

\* Nor is who is killed, whatever it waits for.
LEMMA KillBeside ==
  ASSUME LifeInv, PoolInv, NEW a \in Process, NEW S \in SUBSET Asid, Kill(a, S),
         \A b \in Asid : b \in S \cup {a} => at[b] \in Gone
  PROVE  Beside
<1> DEFINE X == S \cup {a}
<1>1. /\ MemTypes /\ Mutex /\ at \in [Process -> Doing]
      /\ queue \in [Semaphore -> Seq(Process)] /\ count \in [Semaphore -> Nat]
  BY DEF PoolInv, MemTypes
<1>2. /\ at' = [b \in Process |-> IF b \in X THEN "absent" ELSE at[b]]
      /\ count' = count
      /\ queue' = [t \in Semaphore |-> Sem!Without(queue[t], X)]
      /\ MemoryUnchanged
  BY DEF Kill, Sem!Leave
<1>3. \A b \in Asid : b \in X => at[b] \in Over /\ at[b] \notin PagerStates
  BY DEF Gone, Over, PagerStates, InPool
<1> HIDE DEF X
<1>4. \A t \in Semaphore : /\ queue'[t] \in Seq(Process)
                           /\ ToSet(queue'[t]) = ToSet(queue[t]) \ X
                           /\ IsInjective(queue[t]) => IsInjective(queue'[t])
  <2>1. ASSUME NEW t \in Semaphore
        PROVE  /\ Without(queue[t], X) \in Seq(Process)
               /\ ToSet(Without(queue[t], X)) = ToSet(queue[t]) \ X
               /\ IsInjective(queue[t]) => IsInjective(Without(queue[t], X))
    BY <1>1, WithoutFacts
  <2>2. \A t \in Semaphore : queue'[t] = Without(queue[t], X)
    BY <1>2 DEF Sem!Without, Without
  <2>3. QED  BY <2>1, <2>2
<1>5. /\ mutexCount' = mutexCount /\ IsInjective(mutexQueue')
      /\ ToSet(mutexQueue') = ToSet(mutexQueue)
  <2>1. \A p \in ToSet(mutexQueue) : p \notin X
    BY <1>1, <1>3 DEF Mutex, PagerStates, InPool
  <2>2. QED  BY <1>1, <1>2, <1>4, <2>1, Names DEF mutexCount, mutexQueue, Mutex
<1>6. \A b \in Asid : /\ at'[b] = at[b] \/ (at[b] \notin PagerStates /\ at'[b] \notin PagerStates)
                      /\ at'[b] \in Over <=> at[b] \in Over
  BY <1>2, <1>3, Names DEF PagerStates, InPool, Over
<1>7. /\ at' \in [Process -> Doing] /\ count' \in [Semaphore -> Nat]
      /\ queue' \in [Semaphore -> Seq(Process)]
  BY <1>1, <1>2, <1>4 DEF Doing
<1>8. BesidePager
  BY <1>4, <1>5, <1>6, <1>7 DEF BesidePager
<1>9. UNCHANGED <<pagerVars, poolVars, mmuVars>> /\ StartsNobody
  BY <1>2, <1>6 DEF MemoryUnchanged, StartsNobody
<1>10. QED  BY <1>8, <1>9 DEF Beside

\* Every step is one of SwapPool, or beside the memory.
LEMMA StepsBeside ==
  ASSUME LifeInv, PoolInv, [SupportNext]_allVars
  PROVE  [Next]_vars \/ Beside
<1>1. CASE UNCHANGED allVars
  BY <1>1 DEF allVars
<1>2. ASSUME NEW a \in Asid, Code(a) \/ pager(a) \/ Terminate(a) \/ Quit(a) PROVE Next
  BY <1>2 DEF Next
<1>3. CASE StartShell
  <2>1. at[Test] = "user" /\ at[Shell] \in Gone
    BY <1>3, StateFacts DEF StartShell, LifeInv, TestAwaits, Awaits, ShellRuns
  <2>2. QED  BY <1>3, <2>1, Names, CreateBeside DEF StartShell
<1>4. ASSUME NEW b \in Program, Execute(b) PROVE Beside
  <2>1. at[Shell] = "user" /\ at[b] \in Gone
    BY <1>4, StateFacts DEF Execute, LifeInv, ShellAwaits, Awaits, ProgramRuns
  <2>2. QED  BY <1>4, <2>1, Names, CreateBeside DEF Execute
<1>5. ASSUME NEW a \in {Test, Shell}, Join(a) PROVE Beside
  <2>1. /\ at[a] = "created" /\ Go(a, "join") /\ MemoryUnchanged
        /\ \E s \in Semaphore \ {swapPoolSemaphore} : Sem!P(a, s)
    BY <1>5, Names DEF Join
  <2>2. QED  BY <2>1, Names, AloneBeside DEF Launching
<1>6. CASE Resume
  <2>1. at[Shell] = "join" /\ Go(Shell, "user") /\ MemoryUnchanged /\ UNCHANGED semVars
    BY <1>6 DEF Resume
  <2>2. QED  BY <2>1, Names, AloneBeside DEF Launching
<1>7. ASSUME NEW a \in Asid, Signal(a) PROVE Beside
  <2>1. /\ at[a] = "freed" /\ Go(a, "signalled") /\ MemoryUnchanged
        /\ \E s \in Semaphore \ {swapPoolSemaphore} : Sem!V(s)
    BY <1>7, Names DEF Signal
  <2>2. QED  BY <2>1, Names, AloneBeside DEF Gone
<1>8. CASE EndTest \/ \E a \in Asid : TermProcess(a)
  BY <1>8, KillVictims, KillBeside
<1>9. QED
  BY <1>1, <1>2, <1>3, <1>4, <1>5, <1>6, <1>7, <1>8 DEF SupportNext

LEMMA InitMemory == SupportInit => PoolInv /\ DataInv
<1> SUFFICES ASSUME SupportInit PROVE PoolInv /\ DataInv
  OBVIOUS
<1>1. /\ at = [a \in Process |-> IF a = Test THEN "user" ELSE "absent"]
      /\ count = [s \in Semaphore |-> IF s = swapPoolSemaphore THEN 1 ELSE 0]
      /\ InitPool
  BY DEF SupportInit
<1>2. MemTypes
  BY <1>1, NamesDistinct, FirstPageType DEF InitPool, MemTypes, Doing, InCode, Frame
<1>3. /\ \A a \in Asid : at[a] = "absent" /\ at[a] \notin InPool
      /\ \A s \in Semaphore : queue[s] = <<>>
      /\ mutexQueue = <<>> /\ mutexCount = 1
  BY <1>1, Names DEF InitPool, InPool, mutexQueue, mutexCount
<1>4. Mutex
  BY <1>3, EmptyQueue DEF Mutex
<1>5. TableInv
  BY <1>1, <1>3 DEF InitPool, TableInv, Entries, FrameExclusive, TLBCoherent,
                    Victims, Freed, Faults
<1>6. DataInv
  BY <1>1, <1>3, NamesDistinct DEF InitPool, DataInv, Exact, Resident, Stored, Leaving
<1>7. QED  BY <1>2, <1>4, <1>5, <1>6 DEF PoolInv

LEMMA NextPool ==
  ASSUME LifeInv, PoolInv, [SupportNext]_allVars
  PROVE  PoolInv'
<1>1. ASSUME Beside PROVE PoolInv'
  <2>1. frames' \in [Key -> SUBSET Frame] /\ flash' \in SUBSET Key
    <3>1. frames \in [Key -> SUBSET Frame] /\ flash \in SUBSET Key
      BY DEF PoolInv, MemTypes
    <3>2. CASE StartsNobody
      BY <3>1, <3>2 DEF StartsNobody, dataVars
    <3>3. ASSUME NEW a \in Asid, initSupportStructure(a)
          PROVE  frames' \in [Key -> SUBSET Frame] /\ flash' \in SUBSET Key
      BY <3>1, <3>3 DEF initSupportStructure
    <3>4. QED  BY <1>1, <3>2, <3>3 DEF Beside, Starts
  <2>2. QED  BY <1>1, <2>1, BesidePool DEF Beside
<1>2. QED  BY <1>1, StepsBeside, NextPoolInv

LEMMA NextData ==
  ASSUME IOErrors = FALSE, LifeInv, PoolInv, DataInv, [SupportNext]_allVars
  PROVE  DataInv'
<1>1. ASSUME Beside PROVE DataInv'
  <2>1. CASE StartsNobody
    BY <1>1, <2>1, BesideData DEF Beside, StartsNobody
  <2>2. ASSUME NEW a \in Asid, Starts(a) PROVE DataInv'
    <3>1. /\ MemTypes /\ TableInv /\ UNCHANGED <<frameVictim, swapPoolTable>>
          /\ \A b \in Asid : at'[b] = at[b] \/ (at[b] \notin PagerStates /\ at'[b] \notin PagerStates)
      BY <1>1 DEF PoolInv, Beside, BesidePager, pagerVars, poolVars
    <3>2. QED  BY <2>2, <3>1, StartData DEF Starts
  <2>3. QED  BY <1>1, <2>1, <2>2 DEF Beside
<1>2. QED  BY <1>1, StepsBeside, NextDataInv

-----------------------------------------------------------------------------
(* The theorems *)

LEMMA NextLife == LifeInv /\ [SupportNext]_allVars => LifeInv' /\ CutsNobody
<1> SUFFICES ASSUME LifeInv, [SupportNext]_allVars PROVE LifeInv' /\ CutsNobody
  OBVIOUS
<1>1. CASE UNCHANGED allVars
  <2>1. at' = at /\ back' = back /\ count' = count /\ queue' = queue /\ parent' = parent
    BY <1>1 DEF allVars, vars, pagerVars, semVars
  <2>2. CutsNobody
    BY <2>1 DEF CutsNobody
  <2>3. LifeTypes' /\ Family' /\ OneProgram'
    BY <2>1 DEF LifeInv, LifeTypes, Family, OneProgram
  <2>4. TestAwaits' /\ ShellAwaits'
    BY <2>1 DEF LifeInv, TestAwaits, ShellAwaits, ShellRuns, ProgramRuns
  <2>5. QED  BY <2>2, <2>3, <2>4 DEF LifeInv
<1>2. CASE StartShell \/ \E b \in Program : Execute(b)
  BY <1>2, CreateSteps
<1>3. CASE Join(Test) \/ Join(Shell)
  BY <1>3, JoinSteps
<1>4. CASE Resume
  BY <1>4, ResumeStep
<1>5. ASSUME NEW a \in Asid, parent' = parent,
             Code(a) \/ pager(a) \/ Terminate(a) \/ Quit(a)
      PROVE  LifeInv' /\ CutsNobody
  BY <1>5, MemorySteps
<1>6. ASSUME NEW a \in Asid, Signal(a) PROVE LifeInv' /\ CutsNobody
  BY <1>6, SignalStep
<1>7. CASE EndTest \/ \E a \in Asid : TermProcess(a)
  BY <1>7, KillSteps
<1>8. QED
  BY <1>1, <1>2, <1>3, <1>4, <1>5, <1>6, <1>7 DEF SupportNext

LEMMA LifeInvariant == SupportSpec => []LifeInv
<1>1. LifeInv /\ [SupportNext]_allVars => LifeInv'
  BY NextLife
<1>2. QED  BY <1>1, InitLife, PTL DEF SupportSpec

\* While the shell runs, the program it has launched is over, and the V of its
\* end has been used (Syscall6 and Syscall2, sysSupport.c).
THEOREM ShellWaitsCorrect == SupportSpec => []ShellWaits
<1>1. LifeInv => ShellWaits
  <2> SUFFICES ASSUME LifeInv, at[Shell] \notin {"absent", "signalled", "created", "join"}
               PROVE  Active = {Shell} /\ count[shellSemaphore] = 0
    BY DEF ShellWaits
  <2>1. ~ProgramRuns /\ count[shellSemaphore] = 0
    BY StateFacts DEF LifeInv, ShellAwaits, Awaits
  <2>2. Active = {Shell}
    BY <2>1, Names, StateFacts DEF Active, ProgramRuns
  <2>3. QED  BY <2>1, <2>2
<1>2. QED  BY <1>1, LifeInvariant, PTL

\* TERMPROCESS kills nobody who has something left to do, with whom it takes of
\* the descendants (Syscall2, sysSupport.c).
THEOREM NoneCutShortCorrect == SupportSpec => NoneCutShort
<1>1. LifeInv /\ [SupportNext]_allVars =>
         [\A a \in Asid : at[a] # "absent" /\ at'[a] = "absent" => at[a] = "signalled"]_allVars
  BY NextLife DEF CutsNobody
<1>2. QED  BY <1>1, LifeInvariant, PTL DEF SupportSpec, NoneCutShort
LEMMA PoolInSupport == SupportSpec => [](LifeInv /\ PoolInv)
<1>1. LifeInv /\ PoolInv /\ [SupportNext]_allVars => PoolInv'
  BY NextPool
<1>2. SupportInit => PoolInv
  BY InitMemory
<1>3. QED  BY <1>1, <1>2, LifeInvariant, PTL DEF SupportSpec

\* Of a process that has terminated neither a frame nor a PTE nor a TLB entry is
\* left to whoever gets its ASID next (Syscall2, sysSupport.c, and freeFrames).
THEOREM NothingLeftCorrect == SupportSpec => []NothingLeft
<1>1. PoolInv => NothingLeft
  <2> SUFFICES ASSUME PoolInv, NEW k \in Key, at[k[1]] \in {"absent", "signalled"}
               PROVE  /\ pte[k] = NULL
                      /\ tlb[k] \in {OUT, NULL}
                      /\ \A f \in Frame : swapPoolTable[f] # NULL => swapPoolTable[f].sw_pte # k
    BY DEF NothingLeft
  <2>1. MemTypes /\ TableInv /\ at[k[1]] \in Over /\ k[1] \in Asid
    BY DEF PoolInv, Over, Key
  <2>2. pte[k] = NULL
    BY <2>1, FreedPages
  <2>3. tlb[k] \in {OUT, NULL}
    BY <2>1, <2>2 DEF TableInv, TLBCoherent
  <2>4. \A f \in Frame : swapPoolTable[f] # NULL => swapPoolTable[f].sw_pte # k
    BY <2>1 DEF TableInv, Freed, Entries
  <2>5. QED  BY <2>2, <2>3, <2>4
<1>2. QED  BY <1>1, PoolInSupport, PTL

\* The swap pool among processes that come and go, each with an ASID that others
\* have had: one at a time works there, no frame is shared, the TLB is coherent.
THEOREM SupportPoolCorrect ==
  SupportSpec => [](PoolExclusive /\ FrameExclusive /\ TLBCoherent)
<1>1. PoolInv => PoolExclusive /\ FrameExclusive /\ TLBCoherent
  BY PoolFacts
<1>2. QED  BY <1>1, PoolInSupport, PTL

\* And while the flash devices do not fail, no process reads what another with
\* its ASID has left.
THEOREM SupportMemoryCorrect ==
  ASSUME IOErrors = FALSE
  PROVE  SupportSpec => [](TableExact /\ ReadsLastWrite)
<1>1. LifeInv /\ PoolInv /\ DataInv /\ [SupportNext]_allVars => DataInv'
  BY NextData
<1>2. SupportInit => DataInv
  BY InitMemory
<1>3. PoolInv /\ DataInv => TableExact /\ ReadsLastWrite
  BY DataFacts
<1>4. QED  BY <1>1, <1>2, <1>3, PoolInSupport, PTL DEF SupportSpec
=============================================================================
