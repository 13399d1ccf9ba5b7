--------------------------- MODULE TerminalProofs ---------------------------
(***************************************************************************)
(* The terminal, for any number of processes, pages and frames: while the  *)
(* flash devices and the transmitter do not fail, one process writes and   *)
(* one reads at a time, each subdevice works for the process that waits    *)
(* for it, and a DOIO returns the status of a command that is over.        *)
(*                                                                         *)
(* In the middle of a call a process may be in the pager.  The argument is *)
(* therefore about where it will be when the pager has returned (Where),   *)
(* which no step of the pager changes.                                     *)
(***************************************************************************)
EXTENDS Terminals, PoolProofs

NoErrors == IOErrors = FALSE /\ TransmitErrors = FALSE

Writing == {"send", "transmit", "sent"}
Reading == {"receive", "receiving", "store"}
Paging == {"fault", "choose", "evict", "load"}
Ending == {"user", "quit", "free", "freed"}
States == Paging \cup Ending \cup {"wait"} \cup Writing \cup Reading

\* Where a process is, or goes on after the pager.
Where(a) == IF at[a] \in Paging THEN back[a] ELSE at[a]

\* a has made a call of this number, and it is not over.
Calling(a, num) == call[a] # NULL /\ call[a].num = num

\* It has the semaphore s of the call, too.
Holds(a, s, num) == Calling(a, num) /\ a \notin ToSet(queue[s])

-----------------------------------------------------------------------------
(* The invariant *)

TermTypes ==
    /\ at \in [Process -> States]
    /\ back \in [Asid -> InCode]
    /\ count \in [Semaphore -> Nat]
    /\ queue \in [Semaphore -> Seq(Process)]
    /\ call \in [Asid -> Calls \cup {NULL}]
    /\ retVal \in [Asid -> {"done", "newline", "error"}]
    /\ transm \in {"ready", "busy", "done"}
    /\ recv \in {"ready", "busy", "done", "newline", "error"}

\* What a process does tells its call.
CallsKnown ==
    \A a \in Asid :
        /\ Where(a) \in Ending <=> call[a] = NULL
        /\ Where(a) \in Writing => call[a].num = WRITETERMINAL
        /\ Where(a) \in Reading => call[a].num = READTERMINAL

\* Those in the queues of the other semaphores do not wait for a terminal.
PoolWaits ==
    /\ \A p \in ToSet(queue[swapPoolSemaphore]) : at[p] \in {"choose", "free"}
    /\ \A s \in Semaphore \ {swapPoolSemaphore, readTermsemaphore, writeTermsemaphore} :
          queue[s] = <<>>

\* The permit of s is there and no call is in progress, or one process has it and
\* the others with a call wait.
Permit(s, num) ==
    /\ IsInjective(queue[s])
    /\ \A p \in ToSet(queue[s]) : p \in Asid /\ at[p] = "wait" /\ Calling(p, num)
    /\ \/ /\ count[s] = 1 /\ queue[s] = <<>>
          /\ \A a \in Asid : ~Calling(a, num)
       \/ /\ count[s] = 0
          /\ \E a \in Asid : Holds(a, s, num) /\ \A b \in Asid : Holds(b, s, num) => b = a

\* A subdevice is at work, or has an interrupt pending, exactly while somebody waits.
Waited ==
    /\ transm # "ready" <=> \E a \in Asid : at[a] = "transmit"
    /\ recv # "ready" <=> \E a \in Asid : at[a] = "receiving"

TermInv ==
    /\ TermTypes /\ CallsKnown /\ PoolWaits /\ Waited
    /\ Permit(writeTermsemaphore, WRITETERMINAL)
    /\ Permit(readTermsemaphore, READTERMINAL)

LEMMA Semaphores3 ==
  /\ swapPoolSemaphore \in Semaphore /\ readTermsemaphore \in Semaphore
  /\ writeTermsemaphore \in Semaphore
  /\ swapPoolSemaphore # readTermsemaphore /\ swapPoolSemaphore # writeTermsemaphore
  /\ readTermsemaphore # writeTermsemaphore
  /\ Asid \subseteq Process
<1>1. \A x, y : Cardinality({x, y}) # 3
  <2>1. ASSUME NEW x, NEW y PROVE Cardinality({x, y}) # 3
    <3>1. Cardinality({x}) = 1 /\ IsFiniteSet({x})
      BY FS_Singleton
    <3>2. {x, y} = {x} \cup {y}
      OBVIOUS
    <3>3. Cardinality({x} \cup {y}) = IF y \in {x} THEN 1 ELSE 1 + 1
      BY <3>1, FS_AddElement
    <3>4. QED  BY <3>2, <3>3
  <2>2. QED  BY <2>1
<1>2. ASSUME NEW x, NEW y, NEW z, Cardinality({x, y, z}) = 3
      PROVE  x # y /\ x # z /\ y # z
  <2>1. (x = y \/ x = z \/ y = z) => \E u, v : {x, y, z} = {u, v}
    <3>1. CASE x = y
      BY <3>1, {x, y, z} = {x, z}
    <3>2. CASE x = z
      BY <3>2, {x, y, z} = {x, y}
    <3>3. CASE y = z
      BY <3>3, {x, y, z} = {x, y}
    <3>4. QED  BY <3>1, <3>2, <3>3
  <2>2. \A u, v : {x, y, z} # {u, v}
    <3>1. ASSUME NEW u, NEW v, {x, y, z} = {u, v} PROVE FALSE
      <4>1. Cardinality({x, y, z}) = Cardinality({u, v})
        BY <3>1
      <4>2. QED  BY <4>1, <1>1, <1>2
    <3>2. QED  BY <3>1
  <2>3. QED  BY <2>1, <2>2
<1>3. QED  BY <1>2, TerminalAssumption, NameAssumption

LEMMA InitInv == TermInit => TermInv
<1> SUFFICES ASSUME TermInit PROVE TermInv
  OBVIOUS
<1>1. /\ \A a \in Process : at[a] = "user"
      /\ \A s \in Semaphore : queue[s] = <<>> /\ count[s] = 1
      /\ \A a \in Asid : call[a] = NULL
  BY DEF TermInit, Init, InitPool
<1>2. TermTypes
  BY DEF TermInit, Init, InitPool, TermTypes, States, Ending, InCode
<1>3. CallsKnown /\ Waited
  BY <1>1, Semaphores3 DEF CallsKnown, Waited, Where, Paging, Ending, Writing, Reading, TermInit
<1>4. PoolWaits
  BY <1>1, Semaphores3, EmptyQueue DEF PoolWaits
<1>5. ASSUME NEW s \in Semaphore, NEW num PROVE Permit(s, num)
  BY <1>1, <1>5, EmptyQueue DEF Permit, Calling
<1>6. QED  BY <1>2, <1>3, <1>4, <1>5, Semaphores3 DEF TermInv

-----------------------------------------------------------------------------
(* Semaphores *)

LEMMA PFacts ==
  ASSUME TermTypes, NEW s \in Semaphore, NEW a \in Process, Sem!P(a, s)
  PROVE  /\ count' \in [Semaphore -> Nat] /\ queue' \in [Semaphore -> Seq(Process)]
         /\ \A t \in Semaphore : t # s => count'[t] = count[t] /\ queue'[t] = queue[t]
         /\ \/ count[s] # 0 /\ count'[s] = count[s] - 1 /\ queue'[s] = queue[s]
            \/ count[s] = 0 /\ count'[s] = 0 /\ queue'[s] = Append(queue[s], a)
BY PStep DEF TermTypes

LEMMA VFacts ==
  ASSUME TermTypes, NEW s \in Semaphore, Sem!V(s)
  PROVE  /\ count' \in [Semaphore -> Nat] /\ queue' \in [Semaphore -> Seq(Process)]
         /\ \A t \in Semaphore : t # s => count'[t] = count[t] /\ queue'[t] = queue[t]
         /\ \/ queue[s] # <<>> /\ count'[s] = count[s] /\ queue'[s] = Tail(queue[s])
            \/ queue[s] = <<>> /\ count'[s] = count[s] + 1 /\ queue'[s] = queue[s]
BY VStep DEF TermTypes

\* A process waits for the semaphore of its call, or for the swap pool.
LEMMA WaitsFor ==
  ASSUME TermInv, NEW a \in Asid, NEW s \in {readTermsemaphore, writeTermsemaphore},
         NEW num, Calling(a, num), at[a] = "wait",
         \/ s = writeTermsemaphore /\ num = WRITETERMINAL
         \/ s = readTermsemaphore /\ num = READTERMINAL
  PROVE  Sem!Waits(a) <=> a \in ToSet(queue[s])
<1>1. Sem!Waits(a) <=> \E t \in Semaphore : a \in ToSet(queue[t])
  BY DEF Sem!Waits, ToSet
<1>2. a \notin ToSet(queue[swapPoolSemaphore])
  BY DEF TermInv, PoolWaits
<1>3. \A t \in Semaphore \ {swapPoolSemaphore, readTermsemaphore, writeTermsemaphore} :
         a \notin ToSet(queue[t])
  BY EmptyQueue DEF TermInv, PoolWaits
<1>4. \A t \in {readTermsemaphore, writeTermsemaphore} :
         a \in ToSet(queue[t]) => t = s
  BY Semaphores3 DEF TermInv, Permit, Calling, WRITETERMINAL, READTERMINAL
<1>5. QED  BY <1>1, <1>2, <1>3, <1>4, Semaphores3

\* A step that neither P nor V on s, and no call of its number, is part of.
LEMMA KeepPermit ==
  ASSUME NEW s, NEW num, Permit(s, num), count'[s] = count[s], queue'[s] = queue[s],
         \A b \in Asid : Calling(b, num)' <=> Calling(b, num),
         \A p \in ToSet(queue[s]) : at'[p] = at[p]
  PROVE  Permit(s, num)'
<1>1. \A b \in Asid : Holds(b, s, num)' <=> Holds(b, s, num)
  BY DEF Holds
<1>2. QED  BY <1>1 DEF Permit

\* A call begins.
LEMMA EnterPermit ==
  ASSUME TermTypes, NEW s \in Semaphore, NEW num, Permit(s, num),
         NEW a \in Asid, Sem!P(a, s), call[a] = NULL,
         at' = [at EXCEPT ![a] = "wait"], call'[a] # NULL, call'[a].num = num,
         \A b \in Asid : b # a => call'[b] = call[b]
  PROVE  Permit(s, num)'
<1>1. \A p \in Process : at'[p] = IF p = a THEN "wait" ELSE at[p]
  BY Semaphores3 DEF TermTypes
<1>2. queue[s] \in Seq(Process) /\ a \in Process /\ a \notin ToSet(queue[s])
  BY Semaphores3 DEF TermTypes, Permit, Calling
<1>3. \A b \in Asid : Calling(b, num)' <=> b = a \/ Calling(b, num)
  BY DEF Calling
<1>4. CASE count[s] # 0 /\ count'[s] = count[s] - 1 /\ queue'[s] = queue[s]
  <2>1. count[s] = 1 /\ queue[s] = <<>> /\ \A b \in Asid : ~Calling(b, num)
    BY <1>4 DEF Permit
  <2>2. Holds(a, s, num)' /\ \A b \in Asid : Holds(b, s, num)' => b = a
    BY <1>2, <1>3, <1>4, <2>1 DEF Holds
  <2>3. count'[s] = 0 /\ queue'[s] = <<>>
    BY <1>4, <2>1
  <2>4. QED  BY <2>2, <2>3, EmptyQueue DEF Permit
<1>5. CASE count[s] = 0 /\ count'[s] = 0 /\ queue'[s] = Append(queue[s], a)
  <2>1. PICK h \in Asid : Holds(h, s, num) /\ \A b \in Asid : Holds(b, s, num) => b = h
    BY <1>5 DEF Permit
  <2>2. ToSet(queue'[s]) = ToSet(queue[s]) \cup {a} /\ IsInjective(queue'[s])
    BY <1>2, <1>5, AppendFacts DEF Permit
  <2>3. \A b \in Asid : Holds(b, s, num)' <=> Holds(b, s, num)
    BY <1>2, <1>3, <2>2 DEF Holds, Calling
  <2>4. \A p \in ToSet(queue'[s]) : p \in Asid /\ at'[p] = "wait" /\ Calling(p, num)'
    BY <1>1, <1>3, <2>2, Semaphores3 DEF Permit
  <2>5. QED  BY <1>5, <2>1, <2>2, <2>3, <2>4 DEF Permit
<1>6. QED  BY <1>4, <1>5, PFacts, Semaphores3

\* A call ends, and the one that has waited longest goes on.
LEMMA LeavePermit ==
  ASSUME TermTypes, NEW s \in Semaphore, NEW num, Permit(s, num),
         NEW a \in Asid, Sem!V(s), Holds(a, s, num),
         call' = [call EXCEPT ![a] = NULL],
         \A p \in Process : p # a => at'[p] = at[p]
  PROVE  Permit(s, num)'
<1>1. \A b \in Asid : Calling(b, num)' <=> b # a /\ Calling(b, num)
  BY DEF Calling, TermTypes
<1>2. /\ queue[s] \in Seq(Process) /\ a \notin ToSet(queue[s])
      /\ count[s] = 0 /\ \A b \in Asid : Holds(b, s, num) => b = a
  BY DEF TermTypes, Permit, Holds
<1>3. \A b \in Asid : Calling(b, num) => b = a \/ b \in ToSet(queue[s])
  BY <1>2 DEF Holds
<1>4. CASE queue[s] = <<>> /\ count'[s] = count[s] + 1 /\ queue'[s] = queue[s]
  <2>1. count'[s] = 1 /\ queue'[s] = <<>> /\ \A b \in Asid : ~Calling(b, num)'
    BY <1>1, <1>2, <1>3, <1>4, EmptyQueue
  <2>2. QED  BY <2>1, EmptyQueue DEF Permit
<1>5. CASE queue[s] # <<>> /\ count'[s] = count[s] /\ queue'[s] = Tail(queue[s])
  <2>1. PICK h \in ToSet(queue[s]) :
           /\ h \notin ToSet(queue'[s]) /\ ToSet(queue[s]) = ToSet(queue'[s]) \cup {h}
           /\ IsInjective(queue'[s])
    BY <1>2, <1>5, HeadTailFacts DEF Permit
  <2>2. h \in Asid /\ Holds(h, s, num)' /\ \A b \in Asid : Holds(b, s, num)' => b = h
    BY <1>1, <1>2, <1>3, <2>1 DEF Holds, Permit
  <2>3. \A p \in ToSet(queue'[s]) : p \in Asid /\ at'[p] = "wait" /\ Calling(p, num)'
    BY <1>1, <1>2, <2>1, Semaphores3 DEF Permit
  <2>4. QED  BY <1>2, <1>5, <2>1, <2>2, <2>3 DEF Permit
<1>6. QED  BY <1>4, <1>5, VFacts

-----------------------------------------------------------------------------
(* Steps of the memory, between and during calls *)

\* a step in which a moves, makes and ends no call, and uses no semaphore of the
\* terminal.
LEMMA Aside ==
  ASSUME TermInv, NEW a \in Asid, NEW w \in States, Go(a, w), UNCHANGED <<call, retVal, transm, recv>>,
         back' \in [Asid -> InCode], \A b \in Asid : b # a => back'[b] = back[b],
         count' \in [Semaphore -> Nat], queue' \in [Semaphore -> Seq(Process)],
         \A s \in Semaphore : s # swapPoolSemaphore =>
            count'[s] = count[s] /\ queue'[s] = queue[s],
         \A p \in ToSet(queue'[swapPoolSemaphore]) : at'[p] \in {"choose", "free"},
         at[a] \notin {"wait", "transmit", "receiving"},
         w \notin {"wait", "transmit", "receiving"},
         Where(a)' = Where(a) \/ (Where(a) \in Ending /\ Where(a)' \in Ending)
  PROVE  TermInv'
<1>1. /\ at' \in [Process -> States]
      /\ \A p \in Process : at'[p] = IF p = a THEN w ELSE at[p]
  BY Semaphores3 DEF TermInv, TermTypes, Go
<1>2. /\ TermTypes /\ CallsKnown /\ PoolWaits /\ Waited
      /\ call' = call /\ retVal' = retVal /\ transm' = transm /\ recv' = recv
  BY DEF TermInv
<1>3. TermTypes'
  BY <1>1, <1>2 DEF TermTypes
<1>4. CallsKnown'
  <2>1. \A b \in Asid : b # a => Where(b)' = Where(b)
    BY <1>1, Semaphores3 DEF Where
  <2>2. Where(a) \in Ending => Where(a) \notin Writing \cup Reading
    BY DEF Ending, Writing, Reading
  <2>3. Where(a)' \in Ending => Where(a)' \notin Writing \cup Reading
    BY DEF Ending, Writing, Reading
  <2>4. QED  BY <1>2, <2>1, <2>2, <2>3 DEF CallsKnown
<1>5. PoolWaits'
  BY <1>2, Semaphores3 DEF PoolWaits
<1>6. Waited'
  BY <1>1, <1>2, Semaphores3 DEF Waited
<1>7. ASSUME NEW s \in {readTermsemaphore, writeTermsemaphore}, NEW num, Permit(s, num)
      PROVE  Permit(s, num)'
  <2>1. \A p \in ToSet(queue[s]) : at'[p] = at[p]
    BY <1>1, <1>7, Semaphores3 DEF Permit
  <2>2. QED  BY <1>2, <1>7, <2>1, KeepPermit, Semaphores3 DEF Calling
<1>8. QED  BY <1>3, <1>4, <1>5, <1>6, <1>7 DEF TermInv

LEMMA MembersType ==
  ASSUME NEW S, NEW q \in Seq(S)
  PROVE  \A p \in ToSet(q) : p \in S
BY DEF ToSet

\* Those who wait for the swap pool stay where they are.
LEMMA PoolStays ==
  ASSUME TermInv, NEW a \in Asid, NEW w, Go(a, w), a \notin ToSet(queue[swapPoolSemaphore])
  PROVE  \A p \in ToSet(queue[swapPoolSemaphore]) : at'[p] \in {"choose", "free"}
<1>1. \A p \in ToSet(queue[swapPoolSemaphore]) : p \in Process /\ at[p] \in {"choose", "free"}
  BY Semaphores3, MembersType DEF TermInv, TermTypes, PoolWaits
<1>2. \A p \in Process : p # a => at'[p] = at[p]
  BY DEF TermInv, TermTypes, Go
<1>3. QED  BY <1>1, <1>2

\* A step aside without P or V.
LEMMA AsideQuietly ==
  ASSUME TermInv, NEW a \in Asid, NEW w \in States, Go(a, w), UNCHANGED <<call, retVal, transm, recv>>,
         UNCHANGED semVars, back' \in [Asid -> InCode],
         \A b \in Asid : b # a => back'[b] = back[b],
         a \notin ToSet(queue[swapPoolSemaphore]),
         at[a] \notin {"wait", "transmit", "receiving"},
         w \notin {"wait", "transmit", "receiving"},
         Where(a)' = Where(a) \/ (Where(a) \in Ending /\ Where(a)' \in Ending)
  PROVE  TermInv'
<1>1. /\ count' = count /\ queue' = queue
      /\ count \in [Semaphore -> Nat] /\ queue \in [Semaphore -> Seq(Process)]
  BY DEF semVars, TermInv, TermTypes
<1>2. QED  BY <1>1, PoolStays, Aside

\* What a process does in its own code, or with its buffer.
LEMMA CodeKeeps ==
  ASSUME TermInv, NEW a \in Asid, Code(a), UNCHANGED termVars
  PROVE  TermInv'
<1>1. PICK p \in Page : uTLB_RefillHandler(a, p) \/ Store(a, p) \/ PageFault(a, p)
  BY DEF Code
<1>2. /\ at \in [Process -> States] /\ back \in [Asid -> InCode]
      /\ count \in [Semaphore -> Nat] /\ queue \in [Semaphore -> Seq(Process)]
      /\ \A q \in ToSet(queue[swapPoolSemaphore]) : at[q] \in {"choose", "free"}
      /\ a \in Process /\ at[a] \in InCode
  BY <1>1, Semaphores3
     DEF TermInv, TermTypes, PoolWaits, uTLB_RefillHandler, Store, PageFault
<1>3. InCode \cap Paging = {} /\ InCode \cap {"wait", "transmit", "receiving"} = {}
  BY DEF InCode, Paging
<1>4. a \notin ToSet(queue[swapPoolSemaphore])
  BY <1>2 DEF InCode
<1>5. CASE at' = at /\ UNCHANGED pagerVars /\ UNCHANGED semVars
  <2>1. Go(a, at[a]) /\ back' = back /\ at[a] \in States
    BY <1>2, <1>5 DEF Go, pagerVars
  <2>2. Where(a)' = Where(a)
    BY <1>5, <2>1 DEF Where
  <2>3. QED  BY <1>2, <1>3, <1>4, <1>5, <2>1, <2>2, AsideQuietly DEF termVars
<1>6. CASE PageFault(a, p)
  <2>1. /\ Go(a, "fault") /\ back' = [back EXCEPT ![a] = at[a]]
        /\ UNCHANGED semVars /\ "fault" \in States
    BY <1>6 DEF PageFault, States, Paging
  <2>2. at'[a] = "fault"
    BY <1>2, <2>1 DEF Go
  <2>3. Where(a)' = Where(a)
    BY <1>2, <1>3, <2>1, <2>2 DEF Where, Paging
  <2>4. QED  BY <1>2, <1>3, <1>4, <2>1, <2>3, AsideQuietly DEF termVars
<1>7. QED  BY <1>1, <1>5, <1>6 DEF uTLB_RefillHandler, Store

\* A process that is not in a queue, or at the head, does not wait.
LEMMA RunsOn ==
  ASSUME NEW a, ~Sem!Waits(a)
  PROVE  a \notin ToSet(queue[swapPoolSemaphore])
BY Semaphores3 DEF Sem!Waits, ToSet

\* A V leaves nobody new in the queue.
LEMMA ShorterQueue ==
  ASSUME TermTypes, NEW s \in Semaphore, Sem!V(s)
  PROVE  \A p \in ToSet(queue'[s]) : p \in ToSet(queue[s])
<1>1. queue[s] \in Seq(Process)
  BY DEF TermTypes
<1>2. CASE queue[s] # <<>> /\ queue'[s] = Tail(queue[s])
  BY <1>1, <1>2, HeadTailFacts
<1>3. CASE queue'[s] = queue[s]
  BY <1>3
<1>4. QED  BY <1>2, <1>3, VFacts

\* A P, only the process that does it.
LEMMA LongerQueue ==
  ASSUME TermTypes, NEW s \in Semaphore, NEW a \in Process, Sem!P(a, s)
  PROVE  \A p \in ToSet(queue'[s]) : p = a \/ p \in ToSet(queue[s])
<1>1. queue[s] \in Seq(Process)
  BY DEF TermTypes
<1>2. CASE queue'[s] = Append(queue[s], a)
  <2>1. ToSet(Append(queue[s], a)) = ToSet(queue[s]) \cup {a}
    BY <1>1, AppendFacts
  <2>2. QED  BY <1>2, <2>1
<1>3. CASE queue'[s] = queue[s]
  BY <1>3
<1>4. QED  BY <1>2, <1>3, PFacts

\* In the pager.
LEMMA PagerKeeps ==
  ASSUME NoErrors, TermInv, NEW a \in Asid, pager(a), UNCHANGED termVars
  PROVE  TermInv'
<1>1. /\ at \in [Process -> States] /\ back \in [Asid -> InCode]
      /\ \A q \in ToSet(queue[swapPoolSemaphore]) : at[q] \in {"choose", "free"}
      /\ a \in Process /\ TermTypes
  BY Semaphores3 DEF TermInv, TermTypes, PoolWaits
<1>2. \A w \in Paging : w \in States /\ w \notin {"wait", "transmit", "receiving"}
  BY DEF Paging, States
<1>3. CASE EnterPool(a)
  <2>1. /\ at[a] = "fault" /\ Go(a, "choose") /\ Sem!P(a, swapPoolSemaphore) /\ back' = back
    BY <1>3 DEF EnterPool, pagerVars
  <2>2. at'[a] = "choose"
    BY <1>1, <2>1 DEF Go
  <2>3. Where(a)' = Where(a)
    BY <2>1, <2>2 DEF Where, Paging
  <2>4. /\ count' \in [Semaphore -> Nat] /\ queue' \in [Semaphore -> Seq(Process)]
        /\ \A t \in Semaphore : t # swapPoolSemaphore =>
              count'[t] = count[t] /\ queue'[t] = queue[t]
    BY <1>1, <2>1, PFacts, Semaphores3
  <2>5. \A q \in ToSet(queue'[swapPoolSemaphore]) :
           q = a \/ q \in ToSet(queue[swapPoolSemaphore])
    BY <1>1, <2>1, LongerQueue, Semaphores3
  <2>6. \A q \in ToSet(queue[swapPoolSemaphore]) : at'[q] \in {"choose", "free"}
    BY <1>1, <2>1, PoolStays
  <2>7. QED
    BY <1>1, <1>2, <2>1, <2>2, <2>3, <2>4, <2>5, <2>6, Aside DEF Paging, termVars
<1>4. CASE ChooseFrame(a) \/ WriteBack(a)
  <2>1. PICK w \in {"load", "evict"} : Go(a, w)
    BY <1>4 DEF ChooseFrame, WriteBack, NoErrors
  <2>2. at[a] \in {"choose", "evict"} /\ back' = back /\ UNCHANGED semVars
    BY <1>4 DEF ChooseFrame, WriteBack, pagerVars
  <2>3. a \notin ToSet(queue[swapPoolSemaphore])
    BY <1>1, <1>4, RunsOn DEF ChooseFrame, WriteBack
  <2>4. at'[a] = w
    BY <1>1, <2>1 DEF Go
  <2>5. Where(a)' = Where(a)
    BY <2>1, <2>2, <2>4 DEF Where, Paging
  <2>6. QED
    BY <1>1, <1>2, <2>1, <2>2, <2>3, <2>5, AsideQuietly DEF Paging, termVars
<1>5. CASE ReadIn(a)
  <2>1. /\ at[a] = "load" /\ Go(a, back[a]) /\ Sem!V(swapPoolSemaphore)
        /\ back' = [back EXCEPT ![a] = "user"]
    BY <1>5 DEF ReadIn, Return
  <2>2. back[a] \in InCode /\ at'[a] = back[a] /\ back' \in [Asid -> InCode]
    BY <1>1, <2>1 DEF Go, InCode
  <2>3. Where(a)' = Where(a)
    BY <2>1, <2>2 DEF Where, Paging, InCode
  <2>4. /\ count' \in [Semaphore -> Nat] /\ queue' \in [Semaphore -> Seq(Process)]
        /\ \A t \in Semaphore : t # swapPoolSemaphore =>
              count'[t] = count[t] /\ queue'[t] = queue[t]
        /\ \A q \in ToSet(queue'[swapPoolSemaphore]) : q \in ToSet(queue[swapPoolSemaphore])
    BY <1>1, <2>1, ShorterQueue, VFacts, Semaphores3
  <2>5. \A q \in ToSet(queue[swapPoolSemaphore]) : at'[q] \in {"choose", "free"}
    BY <1>1, <2>1, PoolStays
  <2>6. back[a] \in States /\ back[a] \notin {"wait", "transmit", "receiving"}
    BY <2>2 DEF InCode, States, Ending, Writing, Reading
  <2>7. QED  BY <1>1, <2>1, <2>2, <2>3, <2>4, <2>5, <2>6, Aside DEF termVars
<1>6. ~ReadFails(a)
  BY DEF ReadFails, NoErrors
<1>7. ~Trap(a)
  BY <1>1 DEF Trap, States, Paging, Ending, Writing, Reading
<1>8. QED  BY <1>3, <1>4, <1>5, <1>6, <1>7 DEF pager

\* On its way to its end, and back.
LEMMA LifeKeeps ==
  ASSUME TermInv, NEW a \in Asid, Terminate(a) \/ Quit(a) \/ Restart(a), UNCHANGED termVars
  PROVE  TermInv'
<1>1. /\ at \in [Process -> States] /\ back \in [Asid -> InCode]
      /\ \A q \in ToSet(queue[swapPoolSemaphore]) : at[q] \in {"choose", "free"}
      /\ a \in Process /\ TermTypes
  BY Semaphores3 DEF TermInv, TermTypes, PoolWaits
<1>2. \A w \in Ending : w \in States /\ w \notin Paging \cup {"wait", "transmit", "receiving"}
  BY DEF Ending, States, Paging
<1>3. ASSUME at[a] \in Ending, NEW w \in Ending, Go(a, w)
      PROVE  Where(a) \in Ending /\ Where(a)' \in Ending
  <2>1. at'[a] = w
    BY <1>1, <1>3 DEF Go
  <2>2. QED  BY <1>2, <1>3, <2>1 DEF Where
<1>4. CASE EnterFree(a)
  <2>1. at[a] = "quit" /\ Go(a, "free") /\ Sem!P(a, swapPoolSemaphore) /\ back' = back
    BY <1>4 DEF EnterFree, pagerVars
  <2>2. at'[a] = "free" /\ Where(a) \in Ending /\ Where(a)' \in Ending
    BY <1>1, <1>3, <2>1 DEF Go, Ending
  <2>3. /\ count' \in [Semaphore -> Nat] /\ queue' \in [Semaphore -> Seq(Process)]
        /\ \A t \in Semaphore : t # swapPoolSemaphore =>
              count'[t] = count[t] /\ queue'[t] = queue[t]
    BY <1>1, <2>1, PFacts, Semaphores3
  <2>4. \A q \in ToSet(queue'[swapPoolSemaphore]) :
           q = a \/ q \in ToSet(queue[swapPoolSemaphore])
    BY <1>1, <2>1, LongerQueue, Semaphores3
  <2>5. \A q \in ToSet(queue[swapPoolSemaphore]) : at'[q] \in {"choose", "free"}
    BY <1>1, <2>1, PoolStays
  <2>6. QED
    BY <1>1, <1>2, <2>1, <2>2, <2>3, <2>4, <2>5, Aside DEF Ending, termVars
<1>5. CASE freeFrames(a)
  <2>1. /\ at[a] = "free" /\ Go(a, "freed") /\ Sem!V(swapPoolSemaphore) /\ back' = back
        /\ a \notin ToSet(queue[swapPoolSemaphore])
    BY <1>5, RunsOn DEF freeFrames, pagerVars
  <2>2. Where(a) \in Ending /\ Where(a)' \in Ending
    BY <1>3, <2>1 DEF Ending
  <2>3. /\ count' \in [Semaphore -> Nat] /\ queue' \in [Semaphore -> Seq(Process)]
        /\ \A t \in Semaphore : t # swapPoolSemaphore =>
              count'[t] = count[t] /\ queue'[t] = queue[t]
        /\ \A q \in ToSet(queue'[swapPoolSemaphore]) : q \in ToSet(queue[swapPoolSemaphore])
    BY <1>1, <2>1, ShorterQueue, VFacts, Semaphores3
  <2>4. \A q \in ToSet(queue[swapPoolSemaphore]) : at'[q] \in {"choose", "free"}
    BY <2>1, PoolStays
  <2>5. QED  BY <1>1, <1>2, <2>1, <2>2, <2>3, <2>4, Aside DEF Ending, termVars
<1>6. CASE Terminate(a) \/ Restart(a)
  <2>1. PICK w \in {"quit", "user"} : Go(a, w)
    BY <1>6 DEF Terminate, Restart
  <2>2. at[a] \in {"user", "freed"} /\ back' = back /\ UNCHANGED semVars
    BY <1>6 DEF Terminate, Restart, pagerVars
  <2>3. Where(a) \in Ending /\ Where(a)' \in Ending
    BY <1>3, <2>1, <2>2 DEF Ending
  <2>4. QED
    BY <1>1, <1>2, <2>1, <2>2, <2>3, AsideQuietly DEF Ending, termVars
<1>7. QED  BY <1>4, <1>5, <1>6 DEF Quit

-----------------------------------------------------------------------------
(* Steps of a call *)

\* The semaphore of a call with this number.
SemFor(num) == IF num = WRITETERMINAL THEN writeTermsemaphore ELSE readTermsemaphore
Numbers == {WRITETERMINAL, READTERMINAL}

LEMMA SemForFacts ==
  ASSUME NEW num \in Numbers
  PROVE  /\ SemFor(num) \in Semaphore /\ SemFor(num) # swapPoolSemaphore
         /\ \A other \in Numbers : other # num =>
               SemFor(other) \in Semaphore /\ SemFor(other) # SemFor(num)
         /\ {SemFor(n) : n \in Numbers} = {readTermsemaphore, writeTermsemaphore}
BY Semaphores3 DEF Numbers, SemFor, WRITETERMINAL, READTERMINAL

LEMMA PermitsFacts ==
  (\A num \in Numbers : Permit(SemFor(num), num)) <=>
     /\ Permit(writeTermsemaphore, WRITETERMINAL)
     /\ Permit(readTermsemaphore, READTERMINAL)
BY DEF Numbers, SemFor, WRITETERMINAL, READTERMINAL

\* What does not depend on the semaphores of the terminal.
LEMMA TerminalStep ==
  ASSUME TermInv, NEW a \in Asid, NEW w \in States \ Paging, Go(a, w),
         at[a] \notin {"choose", "free"}, w # "free", back' = back,
         queue' \in [Semaphore -> Seq(Process)],
         \A s \in Semaphore \ {readTermsemaphore, writeTermsemaphore} : queue'[s] = queue[s],
         \A b \in Asid : b # a => call'[b] = call[b],
         w \in Ending <=> call'[a] = NULL,
         w \in Writing => call'[a].num = WRITETERMINAL,
         w \in Reading => call'[a].num = READTERMINAL
  PROVE  at' \in [Process -> States] /\ CallsKnown' /\ PoolWaits'
<1>1. /\ at' \in [Process -> States]
      /\ \A p \in Process : at'[p] = IF p = a THEN w ELSE at[p]
      /\ CallsKnown /\ PoolWaits
  BY Semaphores3 DEF TermInv, TermTypes, Go
<1>2. CallsKnown'
  <2>1. \A b \in Asid : Where(b)' = IF b = a THEN w ELSE Where(b)
    BY <1>1, Semaphores3 DEF Where
  <2>2. QED  BY <1>1, <2>1 DEF CallsKnown
<1>3. PoolWaits'
  <2>1. a \notin ToSet(queue[swapPoolSemaphore])
    BY <1>1 DEF PoolWaits
  <2>2. \A p \in ToSet(queue'[swapPoolSemaphore]) : at'[p] \in {"choose", "free"}
    BY <2>1, PoolStays, Semaphores3
  <2>3. QED  BY <1>1, <2>2 DEF PoolWaits
<1>4. QED  BY <1>1, <1>2, <1>3

\* A call begins.
LEMMA BeginCall ==
  ASSUME TermInv, NEW a \in Asid, NEW c \in Calls, NEW num \in Numbers, c.num = num,
         at[a] = "user", Go(a, "wait"), call' = [call EXCEPT ![a] = c],
         Sem!P(a, SemFor(num)), back' = back, UNCHANGED <<retVal, transm, recv>>
  PROVE  TermInv'
<1>1. /\ TermTypes /\ CallsKnown /\ Waited /\ a \in Process
      /\ \A n \in Numbers : Permit(SemFor(n), n)
  BY Semaphores3, PermitsFacts DEF TermInv
<1>2. call[a] = NULL
  BY <1>1 DEF CallsKnown, Where, Paging, Ending
<1>3. /\ call' \in [Asid -> Calls \cup {NULL}] /\ call'[a] = c /\ c # NULL
      /\ \A b \in Asid : b # a => call'[b] = call[b]
  BY <1>1, CallAssumption DEF TermTypes
<1>4. /\ count' \in [Semaphore -> Nat] /\ queue' \in [Semaphore -> Seq(Process)]
      /\ \A t \in Semaphore : t # SemFor(num) => count'[t] = count[t] /\ queue'[t] = queue[t]
  BY <1>1, SemForFacts, PFacts
<1>5. /\ at' = [at EXCEPT ![a] = "wait"]
      /\ \A p \in Process : at'[p] = IF p = a THEN "wait" ELSE at[p]
  BY <1>1 DEF TermTypes, Go
<1>6. at' \in [Process -> States] /\ CallsKnown' /\ PoolWaits'
  <2>1. "wait" \in States \ Paging /\ "wait" \notin Ending \cup Writing \cup Reading
    BY DEF States, Paging, Ending, Writing, Reading
  <2>2. \A t \in Semaphore \ {readTermsemaphore, writeTermsemaphore} : queue'[t] = queue[t]
    BY <1>4, SemForFacts
  <2>3. QED  BY <1>3, <1>4, <2>1, <2>2, TerminalStep
<1>7. TermTypes'
  BY <1>1, <1>3, <1>4, <1>6 DEF TermTypes
<1>8. Waited'
  BY <1>1, <1>5, Semaphores3 DEF Waited
<1>9. ASSUME NEW n \in Numbers PROVE Permit(SemFor(n), n)'
  <2>1. CASE n = num
    <3>1. Permit(SemFor(num), num)'
      BY <1>1, <1>2, <1>3, <1>5, SemForFacts, EnterPermit
    <3>2. QED  BY <2>1, <3>1
  <2>2. CASE n # num
    <3>1. \A b \in Asid : Calling(b, n)' <=> Calling(b, n)
      BY <1>2, <1>3, <2>2 DEF Calling
    <3>2. \A p \in ToSet(queue[SemFor(n)]) : p \in Process /\ p # a
      BY <1>1, <1>2, Semaphores3 DEF Permit, Calling
    <3>3. count'[SemFor(n)] = count[SemFor(n)] /\ queue'[SemFor(n)] = queue[SemFor(n)]
      BY <1>4, <2>2, SemForFacts
    <3>4. QED  BY <1>1, <1>5, <3>1, <3>2, <3>3, KeepPermit
  <2>3. QED  BY <2>1, <2>2
<1>10. QED
  BY <1>6, <1>7, <1>8, <1>9, PermitsFacts DEF TermInv, Numbers, SemFor, WRITETERMINAL, READTERMINAL

\* Whoever is beyond the P of its call has the semaphore.
LEMMA BeyondP ==
  ASSUME TermInv, NEW a \in Asid, NEW num \in Numbers, Calling(a, num),
         at[a] # "wait" \/ ~Sem!Waits(a)
  PROVE  Holds(a, SemFor(num), num)
<1>1. Permit(SemFor(num), num)
  BY PermitsFacts DEF TermInv
<1>2. CASE at[a] # "wait"
  BY <1>1, <1>2 DEF Permit, Holds
<1>3. CASE at[a] = "wait" /\ ~Sem!Waits(a)
  BY <1>3, WaitsFor DEF Holds, SemFor, Numbers
<1>4. QED  BY <1>2, <1>3

\* A call ends.
LEMMA EndCall ==
  ASSUME TermInv, NEW a \in Asid, NEW num \in Numbers, Calling(a, num),
         at[a] # "wait" \/ ~Sem!Waits(a),
         at[a] \in {"wait", "send", "sent", "receive", "store"},
         NEW w \in {"user", "quit"}, Go(a, w), call' = [call EXCEPT ![a] = NULL],
         Sem!V(SemFor(num)), back' = back, UNCHANGED <<retVal, transm, recv>>
  PROVE  TermInv'
<1>1. /\ TermTypes /\ CallsKnown /\ Waited /\ a \in Process
      /\ \A n \in Numbers : Permit(SemFor(n), n)
  BY Semaphores3, PermitsFacts DEF TermInv
<1>2. /\ call' \in [Asid -> Calls \cup {NULL}] /\ call'[a] = NULL
      /\ \A b \in Asid : b # a => call'[b] = call[b]
  BY <1>1 DEF TermTypes
<1>3. /\ count' \in [Semaphore -> Nat] /\ queue' \in [Semaphore -> Seq(Process)]
      /\ \A t \in Semaphore : t # SemFor(num) => count'[t] = count[t] /\ queue'[t] = queue[t]
  BY <1>1, SemForFacts, VFacts
<1>4. \A p \in Process : at'[p] = IF p = a THEN w ELSE at[p]
  BY <1>1 DEF TermTypes, Go
<1>5. Holds(a, SemFor(num), num)
  BY BeyondP
<1>6. at' \in [Process -> States] /\ CallsKnown' /\ PoolWaits'
  <2>1. w \in States \ Paging /\ w \in Ending /\ w \notin Writing \cup Reading
    BY DEF States, Paging, Ending, Writing, Reading
  <2>2. \A t \in Semaphore \ {readTermsemaphore, writeTermsemaphore} : queue'[t] = queue[t]
    BY <1>3, SemForFacts
  <2>3. QED  BY <1>2, <1>3, <2>1, <2>2, TerminalStep
<1>7. TermTypes'
  BY <1>1, <1>2, <1>3, <1>6 DEF TermTypes
<1>8. Waited'
  BY <1>1, <1>4, Semaphores3 DEF Waited
<1>9. ASSUME NEW n \in Numbers PROVE Permit(SemFor(n), n)'
  <2>1. CASE n = num
    <3>1. Permit(SemFor(num), num)'
      BY <1>1, <1>4, <1>5, SemForFacts, LeavePermit
    <3>2. QED  BY <2>1, <3>1
  <2>2. CASE n # num
    <3>1. \A b \in Asid : Calling(b, n)' <=> Calling(b, n)
      BY <1>2, <2>2 DEF Calling
    <3>2. \A p \in ToSet(queue[SemFor(n)]) : p \in Process /\ p # a
      BY <1>1, <2>2, Semaphores3 DEF Permit, Calling
    <3>3. count'[SemFor(n)] = count[SemFor(n)] /\ queue'[SemFor(n)] = queue[SemFor(n)]
      BY <1>3, <2>2, SemForFacts
    <3>4. QED  BY <1>1, <1>4, <3>1, <3>2, <3>3, KeepPermit
  <2>3. QED  BY <2>1, <2>2
<1>10. QED
  BY <1>6, <1>7, <1>8, <1>9, PermitsFacts DEF TermInv, Numbers, SemFor, WRITETERMINAL, READTERMINAL

\* A call goes on.
LEMMA OnCall ==
  ASSUME TermInv, NEW a \in Asid, NEW num \in Numbers, Calling(a, num),
         at[a] # "wait" \/ ~Sem!Waits(a),
         at[a] \in {"wait", "send", "sent", "receive", "store"},
         NEW w, Go(a, w),
         w \in IF num = WRITETERMINAL THEN Writing ELSE Reading,
         call' \in [Asid -> Calls \cup {NULL}],
         \A b \in Asid : b # a => call'[b] = call[b],
         call'[a] # NULL, call'[a].num = num,
         back' = back, UNCHANGED <<semVars, retVal>>,
         transm' \in {"ready", "busy", "done"},
         recv' \in {"ready", "busy", "done", "newline", "error"}, Waited'
  PROVE  TermInv'
<1>1. /\ TermTypes /\ CallsKnown /\ a \in Process
      /\ \A n \in Numbers : Permit(SemFor(n), n)
      /\ count' = count /\ queue' = queue
  BY Semaphores3, PermitsFacts DEF TermInv, semVars
<1>2. \A p \in Process : at'[p] = IF p = a THEN w ELSE at[p]
  BY <1>1 DEF TermTypes, Go
<1>3. Holds(a, SemFor(num), num)
  BY BeyondP
<1>4. at' \in [Process -> States] /\ CallsKnown' /\ PoolWaits'
  <2>1. /\ w \in States \ Paging /\ w \notin Ending /\ w # "free"
        /\ w \in Writing => num = WRITETERMINAL
        /\ w \in Reading => num = READTERMINAL
    BY DEF States, Paging, Ending, Writing, Reading, Numbers
  <2>2. queue' \in [Semaphore -> Seq(Process)]
    BY <1>1 DEF TermTypes
  <2>3. QED  BY <1>1, <2>1, <2>2, TerminalStep
<1>5. TermTypes'
  BY <1>1, <1>4 DEF TermTypes
<1>6. ASSUME NEW n \in Numbers PROVE Permit(SemFor(n), n)'
  <2>1. \A b \in Asid : Calling(b, n)' <=> Calling(b, n)
    BY DEF Calling
  <2>2. \A p \in ToSet(queue[SemFor(n)]) : p \in Process /\ p # a
    BY <1>1, <1>3, Semaphores3 DEF Permit, Calling, Holds
  <2>3. QED  BY <1>1, <1>2, <2>1, <2>2, KeepPermit
<1>7. QED
  BY <1>4, <1>5, <1>6, PermitsFacts DEF TermInv, Numbers, SemFor, WRITETERMINAL, READTERMINAL

\* The call of a process beyond the user's code.
LEMMA CallFacts ==
  ASSUME TermInv, NEW a \in Asid, at[a] \in {"wait"} \cup Writing \cup Reading
  PROVE  /\ call[a] \in Calls /\ call[a] # NULL /\ call[a].num \in Numbers
         /\ at[a] \in Writing => call[a].num = WRITETERMINAL
         /\ at[a] \in Reading => call[a].num = READTERMINAL
         /\ Calling(a, call[a].num) /\ SemOf(a) = SemFor(call[a].num)
<1>1. Where(a) = at[a] /\ at[a] \notin Ending
  BY DEF Where, Paging, Ending, Writing, Reading
<1>2. call[a] \in Calls /\ call[a] # NULL
  BY <1>1, CallAssumption DEF TermInv, TermTypes, CallsKnown
<1>3. QED  BY <1>1, <1>2 DEF TermInv, CallsKnown, Calls, Calling, Numbers, SemOf, SemFor

LEMMA DoneKeeps ==
  ASSUME TermInv, NEW a \in Asid, NEW val, Done(a, val),
         at[a] # "wait" \/ ~Sem!Waits(a),
         at[a] \in {"wait", "send", "sent", "receive", "store"},
         back' = back, UNCHANGED <<retVal, transm, recv>>
  PROVE  TermInv'
<1>1. /\ call[a].num \in Numbers /\ Calling(a, call[a].num)
      /\ SemOf(a) = SemFor(call[a].num)
  BY CallFacts DEF Writing, Reading
<1>2. QED  BY <1>1, EndCall DEF Done

LEMMA OneMoreKeeps ==
  ASSUME TermInv, NEW a \in Asid, NEW w, OneMore(a, w),
         \/ at[a] = "sent" /\ w = "send"
         \/ at[a] = "store" /\ w = "receive",
         back' = back, UNCHANGED <<retVal, transm, recv>>
  PROVE  TermInv'
<1>1. /\ call[a] \in Calls /\ Calling(a, call[a].num) /\ call[a].num \in Numbers
      /\ at[a] = "sent" => call[a].num = WRITETERMINAL
      /\ at[a] = "store" => call[a].num = READTERMINAL
  BY CallFacts DEF Writing, Reading
<1>2. call \in [Asid -> Calls \cup {NULL}] /\ call' = [call EXCEPT ![a].done = @ + 1]
  BY DEF TermInv, TermTypes, OneMore
<1>3. [call[a] EXCEPT !.done = @ + 1] \in Calls /\ call'[a] = [call[a] EXCEPT !.done = @ + 1]
  BY <1>1, <1>2 DEF Calls
<1>4. /\ call' \in [Asid -> Calls \cup {NULL}] /\ call'[a] # NULL
      /\ call'[a].num = call[a].num /\ \A b \in Asid : b # a => call'[b] = call[b]
  BY <1>1, <1>2, <1>3, CallAssumption DEF Calls
<1>5. Waited'
  <2>1. \A p \in Process : at'[p] = IF p = a THEN w ELSE at[p]
    BY DEF OneMore, Go, TermInv, TermTypes
  <2>2. QED  BY <2>1, Semaphores3 DEF TermInv, Waited
<1>6. w \in IF call[a].num = WRITETERMINAL THEN Writing ELSE Reading
  BY <1>1 DEF Writing, Reading, WRITETERMINAL, READTERMINAL
<1>7. /\ Go(a, w) /\ UNCHANGED semVars /\ transm' \in {"ready", "busy", "done"}
      /\ recv' \in {"ready", "busy", "done", "newline", "error"}
  BY DEF OneMore, TermInv, TermTypes
<1>8. QED  BY <1>1, <1>4, <1>5, <1>6, <1>7, OnCall

\* a goes on without a change of its call.
LEMMA MoveOn ==
  ASSUME TermInv, NEW a \in Asid, NEW w, Go(a, w),
         at[a] # "wait" \/ ~Sem!Waits(a),
         at[a] \in {"wait", "send", "receive"},
         w \in IF call[a].num = WRITETERMINAL THEN Writing ELSE Reading,
         call' = call, back' = back, UNCHANGED <<semVars, retVal>>,
         transm' = IF w = "transmit" THEN "busy" ELSE transm,
         recv' = IF w = "receiving" THEN "busy" ELSE recv
  PROVE  TermInv'
<1>1. Calling(a, call[a].num) /\ call[a].num \in Numbers /\ call[a] # NULL
  BY CallFacts DEF Writing, Reading
<1>2. /\ \A p \in Process : at'[p] = IF p = a THEN w ELSE at[p]
      /\ call \in [Asid -> Calls \cup {NULL}]
      /\ transm \in {"ready", "busy", "done"}
      /\ recv \in {"ready", "busy", "done", "newline", "error"} /\ Waited
  BY DEF Go, TermInv, TermTypes
<1>3. Waited'
  BY <1>2, Semaphores3 DEF Waited
<1>4. QED  BY <1>1, <1>2, <1>3, OnCall

LEMMA WriteKeeps ==
  ASSUME TermInv, NEW a \in Asid,
         \/ \E p \in Page \cup {NULL}, n \in 0 .. MaxLen : WriteTerminal(a, p, n)
         \/ WriteNothing(a) \/ Begin(a) \/ Send(a) \/ Sent(a) \/ EndWrite(a)
  PROVE  TermInv'
<1>1. ASSUME NEW p \in Page \cup {NULL}, NEW n \in 0 .. MaxLen, WriteTerminal(a, p, n)
      PROVE  TermInv'
  <2> DEFINE c == [num |-> WRITETERMINAL, page |-> p, len |-> n, done |-> 0]
  <2>1. c \in Calls /\ c.num = WRITETERMINAL
    BY DEF Calls
  <2>2. Call(a, c, writeTermsemaphore, WRITETERMINAL)
    BY <1>1 DEF WriteTerminal
  <2> HIDE DEF c
  <2>3. WRITETERMINAL \in Numbers /\ SemFor(WRITETERMINAL) = writeTermsemaphore
    BY DEF Numbers, SemFor
  <2>4. QED
    BY <2>1, <2>2, <2>3, BeginCall DEF Call, MemoryUnchanged, pagerVars
<1>2. CASE WriteNothing(a)
  <2>1. /\ at[a] = "user" /\ at' = at /\ back' = back /\ UNCHANGED semVars
        /\ UNCHANGED <<call, retVal, transm, recv>>
    BY <1>2 DEF WriteNothing, MemoryUnchanged, pagerVars
  <2>2. Go(a, "user") /\ Where(a)' = Where(a) /\ back \in [Asid -> InCode]
    BY <2>1 DEF Go, TermInv, TermTypes, Where
  <2>3. a \notin ToSet(queue[swapPoolSemaphore])
    BY <2>1 DEF TermInv, PoolWaits
  <2>4. QED  BY <2>1, <2>2, <2>3, AsideQuietly DEF States, Ending
<1>3. CASE Begin(a)
  <2>1. at[a] = "wait" /\ ~Sem!Waits(a) /\ back' = back /\ UNCHANGED <<retVal, transm, recv>>
    BY <1>3 DEF Begin, MemoryUnchanged, pagerVars
  <2>2. CASE Done(a, -1)
    BY <2>1, <2>2, DoneKeeps
  <2>3. CASE /\ Go(a, IF call[a].num = WRITETERMINAL THEN "send" ELSE "receive")
             /\ UNCHANGED <<semVars, call, reg_a0>>
    BY <2>1, <2>3, MoveOn DEF Writing, Reading
  <2>4. QED  BY <1>3, <2>2, <2>3 DEF Begin
<1>4. CASE Send(a)
  <2>1. at[a] = "send" /\ back' = back
    BY <1>4 DEF Send, MemoryUnchanged, pagerVars
  <2>2. call[a].num = WRITETERMINAL
    BY <2>1, CallFacts DEF Writing
  <2>3. QED  BY <1>4, <2>1, <2>2, MoveOn DEF Send, Writing
<1>5. CASE Sent(a)
  <2>1. at[a] = "sent" /\ back' = back /\ UNCHANGED <<retVal, transm, recv>>
    BY <1>5 DEF Sent, MemoryUnchanged, pagerVars
  <2>2. CASE OneMore(a, "send")
    BY <2>1, <2>2, OneMoreKeeps
  <2>3. CASE Done(a, -4)
    BY <2>1, <2>3, DoneKeeps
  <2>4. QED  BY <1>5, <2>2, <2>3 DEF Sent
<1>6. CASE EndWrite(a)
  BY <1>6, DoneKeeps DEF EndWrite, MemoryUnchanged, pagerVars
<1>7. QED  BY <1>1, <1>2, <1>3, <1>4, <1>5, <1>6

LEMMA ReadKeeps ==
  ASSUME TermInv, NEW a \in Asid,
         \/ \E p \in Page \cup {NULL} : ReadTerminal(a, p)
         \/ Receive(a) \/ OffTheEnd(a) \/ ReceiveFails(a) \/ StoreChar(a)
  PROVE  TermInv'
<1>1. ASSUME NEW p \in Page \cup {NULL}, ReadTerminal(a, p) PROVE TermInv'
  <2>1. CASE p # NULL
    <3> DEFINE c == [num |-> READTERMINAL, page |-> p, len |-> MaxLen, done |-> 0]
    <3>1. c \in Calls /\ c.num = READTERMINAL
      BY TerminalAssumption DEF Calls
    <3>2. Call(a, c, readTermsemaphore, 0)
      BY <1>1, <2>1 DEF ReadTerminal
    <3> HIDE DEF c
    <3>3. READTERMINAL \in Numbers /\ SemFor(READTERMINAL) = readTermsemaphore
      BY DEF Numbers, SemFor, READTERMINAL, WRITETERMINAL
    <3>4. QED
      BY <3>1, <3>2, <3>3, BeginCall DEF Call, MemoryUnchanged, pagerVars
  <2>2. CASE p = NULL
    <3>1. /\ at[a] = "user" /\ Go(a, "quit") /\ back' = back /\ UNCHANGED semVars
          /\ UNCHANGED <<call, retVal, transm, recv>>
      BY <1>1, <2>2 DEF ReadTerminal, MemoryUnchanged, pagerVars
    <3>2. at'[a] = "quit" /\ back \in [Asid -> InCode]
      BY <3>1, Semaphores3 DEF Go, TermInv, TermTypes
    <3>3. Where(a) \in Ending /\ Where(a)' \in Ending
      BY <3>1, <3>2 DEF Where, Ending, Paging
    <3>4. a \notin ToSet(queue[swapPoolSemaphore])
      BY <3>1 DEF TermInv, PoolWaits
    <3>5. QED  BY <3>1, <3>2, <3>3, <3>4, AsideQuietly DEF States, Ending
  <2>3. QED  BY <2>1, <2>2
<1>2. CASE Receive(a)
  <2>1. at[a] = "receive" /\ back' = back
    BY <1>2 DEF Receive, MemoryUnchanged, pagerVars
  <2>2. call[a].num = READTERMINAL
    BY <2>1, CallFacts DEF Reading
  <2>3. QED
    BY <1>2, <2>1, <2>2, MoveOn DEF Receive, Reading, READTERMINAL, WRITETERMINAL
<1>3. CASE OffTheEnd(a)
  <2>1. /\ at[a] = "receive" /\ Go(a, "quit") /\ call' = [call EXCEPT ![a] = NULL]
        /\ Sem!V(readTermsemaphore) /\ back' = back /\ UNCHANGED <<retVal, transm, recv>>
    BY <1>3 DEF OffTheEnd, MemoryUnchanged, pagerVars
  <2>2. Calling(a, READTERMINAL) /\ READTERMINAL \in Numbers
    BY <2>1, CallFacts DEF Reading, Numbers
  <2>3. SemFor(READTERMINAL) = readTermsemaphore
    BY DEF SemFor, READTERMINAL, WRITETERMINAL
  <2>4. QED  BY <2>1, <2>2, <2>3, EndCall
<1>4. CASE ReceiveFails(a)
  BY <1>4, DoneKeeps DEF ReceiveFails, MemoryUnchanged, pagerVars
<1>5. CASE StoreChar(a)
  <2>1. at[a] = "store" /\ back' = back /\ UNCHANGED <<retVal, transm, recv>>
    BY <1>5 DEF StoreChar, pagerVars
  <2>2. OneMore(a, "receive") \/ Done(a, reg_a0[a] + 1)
    BY <1>5 DEF StoreChar
  <2>3. QED  BY <2>1, <2>2, OneMoreKeeps, DoneKeeps
<1>6. QED  BY <1>1, <1>2, <1>3, <1>4, <1>5

-----------------------------------------------------------------------------
(* The device *)

\* What the drivers and the interrupt handler compute for terminal 0.
TranSem == Dev!semaddr(Dev!intline(21), Dev!FirstDevice({0}), Dev!TRANCOMMAND)
RecvSem == Dev!semaddr(Dev!intline(21), Dev!FirstDevice({0}), Dev!RECVCOMMAND)

\* Both find the same semaphores, one for each subdevice.
LEMMA SemaddrFacts ==
  /\ Dev!DoIO(Dev!transm_command) = TranSem
  /\ Dev!DoIO(Dev!recv_command) = RecvSem
  /\ TranSem # RecvSem /\ TranSem # Dev!PANIC /\ RecvSem # Dev!PANIC
<1>1. Dev!FirstDevice({0}) = 0
  BY DEF Dev!FirstDevice, Dev!PANIC
<1>2. Dev!intline(21) = 7
  BY DEF Dev!intline
<1>3. TranSem = 40 /\ RecvSem = 32
  BY <1>1, <1>2
     DEF TranSem, RecvSem, Dev!semaddr, Dev!sem_index_from_dev, Dev!TRANCOMMAND,
         Dev!RECVCOMMAND, Dev!DEVREGLEN
<1>4. Dev!transm_command = 268435540 + 524 /\ Dev!recv_command = 268435540 + 516
  BY DEF Dev!transm_command, Dev!recv_command, Dev!CommandAddr, Dev!devaddrb, Dev!START_DEVREG,
         Dev!DEVPERINT, Dev!DEVREGSIZE, Dev!DEVREGLEN, Dev!TRANCOMMAND, Dev!RECVCOMMAND
<1>5. /\ 524 % 16 = 12 /\ 516 % 16 = 4 /\ 512 \div 128 = 4 /\ (512 % 128) \div 16 = 0
  OBVIOUS
<1>6. Dev!DoIO(268435540 + 524) = 40 /\ Dev!DoIO(268435540 + 516) = 32
  BY <1>5 DEF Dev!DoIO, Dev!START_DEVREG, Dev!DEVREGSIZE, Dev!DEVPERINT, Dev!Line,
              Dev!sem_index_from_dev
<1>7. QED  BY <1>3, <1>4, <1>6 DEF Dev!PANIC

\* The device completes a command, and nobody moves.
LEMMA CompleteKeeps ==
  ASSUME NoErrors, TermInv, Complete
  PROVE  TermInv'
<1>1. /\ at' = at /\ back' = back /\ count' = count /\ queue' = queue
      /\ call' = call /\ retVal' = retVal
  BY DEF Complete, MemoryUnchanged, pagerVars, semVars
<1>2. /\ transm' \in {"ready", "busy", "done"}
      /\ transm' = "ready" <=> transm = "ready"
      /\ recv' \in {"ready", "busy", "done", "newline", "error"}
      /\ recv' = "ready" <=> recv = "ready"
  BY DEF Complete, NoErrors, TermInv, TermTypes
<1>3. TermTypes' /\ CallsKnown' /\ PoolWaits' /\ Waited'
  BY <1>1, <1>2 DEF TermInv, TermTypes, CallsKnown, PoolWaits, Waited, Where
<1>4. ASSUME NEW s, NEW num, Permit(s, num) PROVE Permit(s, num)'
  BY <1>1, <1>4 DEF Permit, Holds, Calling
<1>5. QED  BY <1>3, <1>4 DEF TermInv

\* The interrupt of a subdevice moves whoever is in a DOIO with it.
LEMMA InterruptMoves ==
  ASSUME TermInv, TerminalInterrupt
  PROVE  \/ /\ at' = [p \in Process |-> IF at[p] = "transmit" THEN "sent" ELSE at[p]]
            /\ transm' = "ready" /\ recv' = recv
         \/ /\ at' = [p \in Process |-> IF at[p] = "receiving" THEN "store" ELSE at[p]]
            /\ recv' = "ready" /\ transm' = transm
<1>1. \A p : /\ BlockedOn(p) = TranSem <=> at[p] = "transmit"
             /\ BlockedOn(p) = RecvSem <=> at[p] = "receiving"
  BY SemaddrFacts DEF BlockedOn, InTransm, InRecv
<1>2. CASE transm = "done"
  <2>1. transm' = "ready" /\ recv' = recv /\ Wake(TranSem, transm)
    BY <1>2 DEF TerminalInterrupt, ServesTransm, TranSem
  <2>2. QED  BY <1>1, <2>1 DEF Wake, InTransm
<1>3. CASE transm # "done"
  <2>1. recv # "ready"
    BY <1>3 DEF TerminalInterrupt, Pending, TermInv, TermTypes
  <2>2. recv' = "ready" /\ transm' = transm /\ Wake(RecvSem, recv)
    BY <1>3, <2>1 DEF TerminalInterrupt, ServesTransm, RecvSem
  <2>3. QED  BY <1>1, <2>2 DEF Wake, InTransm
<1>4. QED  BY <1>2, <1>3

LEMMA InterruptKeeps ==
  ASSUME TermInv, TerminalInterrupt
  PROVE  TermInv'
<1>1. /\ back' = back /\ count' = count /\ queue' = queue /\ call' = call
      /\ TermTypes /\ CallsKnown /\ PoolWaits /\ Waited
  BY DEF TerminalInterrupt, MemoryUnchanged, pagerVars, semVars, TermInv
<1>2. \/ /\ at' = [p \in Process |-> IF at[p] = "transmit" THEN "sent" ELSE at[p]]
         /\ transm' = "ready" /\ recv' = recv
      \/ /\ at' = [p \in Process |-> IF at[p] = "receiving" THEN "store" ELSE at[p]]
         /\ recv' = "ready" /\ transm' = transm
  BY InterruptMoves
<1>3. retVal' \in [Asid -> {"done", "newline", "error"}]
  <2>1. CASE transm = "done"
    <3>1. Wake(TranSem, transm)
      BY <2>1 DEF TerminalInterrupt, ServesTransm, TranSem
    <3>2. QED  BY <1>1, <2>1, <3>1 DEF Wake, TermTypes
  <2>2. CASE transm # "done"
    <3>1. recv \in {"done", "newline", "error"}
      BY <1>1, <2>2 DEF TerminalInterrupt, Pending, TermTypes
    <3>2. Wake(RecvSem, recv)
      BY <2>2, <3>1 DEF TerminalInterrupt, ServesTransm, RecvSem
    <3>3. QED  BY <1>1, <3>1, <3>2 DEF Wake, TermTypes
  <2>3. QED  BY <2>1, <2>2
<1>4. at \in [Process -> States]
  BY <1>1 DEF TermTypes
<1>5. TermTypes'
  <2>1. at' \in [Process -> States]
    BY <1>2, <1>4 DEF States, Writing, Reading
  <2>2. transm' \in {"ready", "busy", "done"}
        /\ recv' \in {"ready", "busy", "done", "newline", "error"}
    BY <1>1, <1>2 DEF TermTypes
  <2>3. QED  BY <1>1, <1>3, <2>1, <2>2 DEF TermTypes
<1>6. \A b \in Asid :
         \/ at'[b] = at[b]
         \/ at[b] = "transmit" /\ at'[b] = "sent"
         \/ at[b] = "receiving" /\ at'[b] = "store"
  BY <1>2, Semaphores3
<1>7. CallsKnown'
  <2>1. \A b \in Asid :
           \/ Where(b)' = Where(b)
           \/ Where(b) \in Writing /\ Where(b)' \in Writing
           \/ Where(b) \in Reading /\ Where(b)' \in Reading
    BY <1>1, <1>6 DEF Where, Paging, Writing, Reading
  <2>2. Writing \cap Reading = {} /\ Ending \cap Writing = {} /\ Ending \cap Reading = {}
    BY DEF Writing, Reading, Ending
  <2>3. QED  BY <1>1, <2>1, <2>2 DEF CallsKnown
<1>8. PoolWaits'
  <2>1. \A p \in ToSet(queue[swapPoolSemaphore]) : p \in Process /\ at[p] \in {"choose", "free"}
    BY <1>1, MembersType, Semaphores3 DEF TermTypes, PoolWaits
  <2>2. QED  BY <1>1, <1>2, <2>1 DEF PoolWaits
<1>9. Waited'
  BY <1>1, <1>2, Semaphores3 DEF Waited
<1>10. ASSUME NEW s, NEW num, Permit(s, num) PROVE Permit(s, num)'
  <2>1. \A p \in ToSet(queue[s]) : at'[p] = at[p]
    BY <1>6, <1>10 DEF Permit
  <2>2. QED  BY <1>1, <1>10, <2>1, KeepPermit DEF Calling
<1>11. QED  BY <1>5, <1>7, <1>8, <1>9, <1>10 DEF TermInv

\* Every step keeps the invariant.
LEMMA NextKeeps ==
  ASSUME NoErrors, TermInv, [TermNext]_all
  PROVE  TermInv'
<1>1. CASE UNCHANGED all
  <2>1. /\ at' = at /\ back' = back /\ count' = count /\ queue' = queue
        /\ call' = call /\ retVal' = retVal /\ transm' = transm /\ recv' = recv
    BY <1>1 DEF all, vars, termVars, pagerVars, semVars
  <2>2. TermTypes' /\ CallsKnown' /\ PoolWaits' /\ Waited'
    BY <2>1 DEF TermInv, TermTypes, CallsKnown, PoolWaits, Waited, Where
  <2>3. ASSUME NEW s, NEW num, Permit(s, num) PROVE Permit(s, num)'
    BY <2>1, <2>3 DEF Permit, Holds, Calling
  <2>4. QED  BY <2>2, <2>3 DEF TermInv
<1>2. CASE TermNext
  BY <1>2, CodeKeeps, PagerKeeps, LifeKeeps, WriteKeeps, ReadKeeps, CompleteKeeps,
     InterruptKeeps DEF TermNext
<1>3. QED  BY <1>1, <1>2

LEMMA TermInvariant == ASSUME NoErrors PROVE TermSpec => []TermInv
<1>1. TermInv /\ [TermNext]_all => TermInv'
  BY NextKeeps
<1>2. QED  BY InitInv, <1>1, PTL DEF TermSpec

-----------------------------------------------------------------------------
(* The memory *)

\* The steps of a call, and of the device, are beside the memory, except that a
\* character is stored in its page.
LEMMA StatesFacts ==
  /\ States \subseteq Doing /\ States \cap Over = {"freed"}
  /\ ({"user", "quit", "wait"} \cup Writing \cup Reading) \cap (PagerStates \cup Over) = {}
  /\ {"user", "quit", "wait"} \cup Writing \cup Reading \subseteq Doing
BY DEF States, Paging, Ending, Writing, Reading, Doing, InCode, InPool, Elsewhere,
       PagerStates, Over

\* A process in a call, or about to make it, and the semaphores of the terminal.
Stirs(a, w) ==
    /\ at[a] \in {"user", "wait"} \cup Writing \cup Reading
    /\ w \in {"user", "quit", "wait"} \cup Writing \cup Reading
    /\ Go(a, w)
    /\ \/ \E s \in {readTermsemaphore, writeTermsemaphore} : Sem!P(a, s) \/ Sem!V(s)
       \/ UNCHANGED semVars

LEMMA StirsBeside ==
  ASSUME PoolInv, NEW a \in Asid, NEW w, Stirs(a, w)
  PROVE  BesidePager /\ \A b \in Asid : at[b] \in Over => at'[b] \in Over
<1>1. /\ w \in Doing \ PagerStates /\ at[a] \notin PagerStates \cup Over /\ w \notin Over
      /\ Go(a, w) /\ a \in Process
  BY StatesFacts, Semaphores3 DEF Stirs
<1>2. BesidePager
  <2>1. PICK s \in Semaphore \ {swapPoolSemaphore} :
           Sem!P(a, s) \/ Sem!V(s) \/ UNCHANGED semVars
    BY Semaphores3 DEF Stirs
  <2>2. QED  BY <1>1, <2>1, MoveBeside
<1>3. \A b \in Asid : at[b] \in Over => at'[b] \in Over
  BY <1>1 DEF Go, PoolInv, MemTypes
<1>4. QED  BY <1>2, <1>3

\* What a process does in a call that leaves the memory alone.
LEMMA CallStirs ==
  ASSUME TermInv, NEW a \in Asid,
         \/ \E p \in Page \cup {NULL} :
               ReadTerminal(a, p) \/ \E n \in 0 .. MaxLen : WriteTerminal(a, p, n)
         \/ Begin(a) \/ Send(a) \/ Sent(a) \/ EndWrite(a)
         \/ Receive(a) \/ OffTheEnd(a) \/ ReceiveFails(a)
  PROVE  MemoryUnchanged /\ \E w : Stirs(a, w)
<1>1. SemOf(a) \in {readTermsemaphore, writeTermsemaphore}
  BY DEF SemOf
<1>2. CASE \E p \in Page \cup {NULL} :
              ReadTerminal(a, p) \/ \E n \in 0 .. MaxLen : WriteTerminal(a, p, n)
  <2>1. /\ at[a] = "user" /\ MemoryUnchanged
        /\ \/ Go(a, "wait") /\ \E s \in {readTermsemaphore, writeTermsemaphore} : Sem!P(a, s)
           \/ Go(a, "quit") /\ UNCHANGED semVars
    BY <1>2 DEF ReadTerminal, WriteTerminal, Call
  <2>2. QED  BY <2>1 DEF Stirs
<1>3. CASE Begin(a) \/ Sent(a) \/ EndWrite(a) \/ ReceiveFails(a)
  <2>1. /\ MemoryUnchanged /\ at[a] \in {"wait", "send", "sent", "store"}
        /\ \/ Go(a, "user") /\ Sem!V(SemOf(a))
           \/ (Go(a, "send") \/ Go(a, "receive")) /\ UNCHANGED semVars
    BY <1>3 DEF Begin, Sent, EndWrite, ReceiveFails, Done, OneMore
  <2>2. QED  BY <1>1, <2>1 DEF Stirs, Writing, Reading
<1>4. CASE Send(a) \/ Receive(a) \/ OffTheEnd(a)
  <2>1. /\ MemoryUnchanged /\ at[a] \in {"send", "receive"}
        /\ \/ (Go(a, "transmit") \/ Go(a, "receiving")) /\ UNCHANGED semVars
           \/ Go(a, "quit") /\ Sem!V(readTermsemaphore)
    BY <1>4 DEF Send, Receive, OffTheEnd
  <2>2. QED  BY <2>1 DEF Stirs, Writing, Reading
<1>5. QED  BY <1>2, <1>3, <1>4

\* Whoever reads a line has a buffer to store it in.
Buffers == \A a \in Asid : Calling(a, READTERMINAL) => call[a].page # NULL

LEMMA NextBuffers ==
  ASSUME TermInv, Buffers, [TermNext]_all
  PROVE  Buffers'
<1>1. CASE call' = call
  BY <1>1 DEF Buffers, Calling
<1>2. ASSUME NEW a \in Asid, NEW c, call' = [call EXCEPT ![a] = c],
             c # NULL /\ c.num = READTERMINAL => c.page # NULL
      PROVE  Buffers'
  BY <1>2 DEF Buffers, Calling, TermInv, TermTypes
<1>3. ASSUME NEW a \in Asid, at[a] \in Writing \cup Reading,
             call' = [call EXCEPT ![a].done = @ + 1]
      PROVE  Buffers'
  <2>1. call[a] \in Calls /\ call[a] # NULL /\ call \in [Asid -> Calls \cup {NULL}]
    BY <1>3, CallFacts DEF TermInv, TermTypes
  <2>2. /\ call'[a].num = call[a].num /\ call'[a].page = call[a].page
        /\ \A b \in Asid : b # a => call'[b] = call[b]
    BY <1>3, <2>1 DEF Calls
  <2>3. QED  BY <2>1, <2>2 DEF Buffers, Calling
<1>4. ASSUME NEW a \in Asid, NEW p \in Page \cup {NULL}, ReadTerminal(a, p) PROVE Buffers'
  <2> DEFINE c == [num |-> READTERMINAL, page |-> p, len |-> MaxLen, done |-> 0]
  <2>1. c.page = p
    OBVIOUS
  <2>2. p # NULL => call' = [call EXCEPT ![a] = c]
    BY <1>4 DEF ReadTerminal, Call
  <2>3. p = NULL => call' = call
    BY <1>4 DEF ReadTerminal
  <2> HIDE DEF c
  <2>4. QED  BY <1>1, <1>2, <2>1, <2>2, <2>3
<1>5. ASSUME NEW a \in Asid, NEW p \in Page \cup {NULL}, NEW n \in 0 .. MaxLen,
             WriteTerminal(a, p, n)
      PROVE  Buffers'
  <2> DEFINE c == [num |-> WRITETERMINAL, page |-> p, len |-> n, done |-> 0]
  <2>1. c.num # READTERMINAL
    BY DEF READTERMINAL, WRITETERMINAL
  <2>2. call' = [call EXCEPT ![a] = c]
    BY <1>5 DEF WriteTerminal, Call
  <2> HIDE DEF c
  <2>3. QED  BY <1>2, <2>1, <2>2
<1>6. ASSUME NEW a \in Asid, Begin(a) \/ Sent(a) \/ EndWrite(a) \/ OffTheEnd(a)
                             \/ ReceiveFails(a) \/ StoreChar(a)
      PROVE  Buffers'
  <2>1. \/ call' = call \/ call' = [call EXCEPT ![a] = NULL]
        \/ at[a] \in Writing \cup Reading /\ call' = [call EXCEPT ![a].done = @ + 1]
    BY <1>6 DEF Begin, Sent, EndWrite, OffTheEnd, ReceiveFails, StoreChar, Done, OneMore,
                Writing, Reading
  <2>2. QED  BY <1>1, <1>2, <1>3, <2>1
<1>7. ASSUME NEW a \in Asid, WriteNothing(a) \/ Send(a) \/ Receive(a) PROVE Buffers'
  BY <1>1, <1>7 DEF WriteNothing, Send, Receive
<1>8. CASE UNCHANGED termVars \/ UNCHANGED all \/ Complete \/ TerminalInterrupt
  BY <1>1, <1>8 DEF termVars, all, Complete, TerminalInterrupt
<1>9. QED  BY <1>4, <1>5, <1>6, <1>7, <1>8 DEF TermNext

\* The character is stored in a page of its process, through the TLB.
LEMMA StoreStirs ==
  ASSUME TermInv, Buffers, NEW a \in Asid, StoreChar(a)
  PROVE  /\ \E w : Stirs(a, w)
         /\ UNCHANGED <<pagerVars, poolVars, mmuVars>>
         /\ \E k \in Key : tlb[k] \in Frame /\ WriteTo(k)
<1>1. at[a] = "store" /\ SemOf(a) \in {readTermsemaphore, writeTermsemaphore}
  BY DEF StoreChar, SemOf
<1>2. \E w : Stirs(a, w)
  <2>1. \/ Go(a, "user") /\ Sem!V(SemOf(a))
        \/ Go(a, "receive") /\ UNCHANGED semVars
    BY DEF StoreChar, Done, OneMore
  <2>2. QED  BY <1>1, <2>1 DEF Stirs, Reading
<1>3. <<a, call[a].page>> \in Key
  <2>1. call[a] \in Calls /\ call[a].page # NULL
    BY <1>1, CallFacts DEF Buffers, Reading
  <2>2. QED  BY <2>1 DEF Calls, Key
<1>4. QED  BY <1>2, <1>3 DEF StoreChar, WriteTo

\* Every step keeps what PoolProofs says of the memory.
LEMMA NextMemory ==
  ASSUME NoErrors, TermInv, Buffers, PoolInv, DataInv, [TermNext]_all
  PROVE  PoolInv' /\ DataInv'
<1>1. ASSUME [Next]_vars PROVE PoolInv' /\ DataInv'
  BY <1>1, NextPoolInv, NextDataInv DEF NoErrors
<1>2. frames \in [Key -> SUBSET Frame] /\ flash \in SUBSET Key /\ MemTypes /\ TableInv
  BY DEF PoolInv, MemTypes
<1>3. ASSUME BesidePager, MemoryUnchanged, \A b \in Asid : at[b] \in Over => at'[b] \in Over
      PROVE  PoolInv' /\ DataInv'
  <2>1. UNCHANGED <<pagerVars, poolVars, mmuVars, dataVars>>
    BY <1>3 DEF MemoryUnchanged
  <2>2. frames' \in [Key -> SUBSET Frame] /\ flash' \in SUBSET Key
    BY <1>2, <2>1 DEF dataVars
  <2>3. QED  BY <1>3, <2>1, <2>2, BesidePool, BesideData
<1>4. ASSUME NEW a \in Asid,
             Code(a) \/ pager(a) \/ Terminate(a) \/ Quit(a) \/ Restart(a)
      PROVE  PoolInv' /\ DataInv'
  BY <1>1, <1>4 DEF Next
<1>5. ASSUME NEW a \in Asid,
             \/ \E p \in Page \cup {NULL} :
                   ReadTerminal(a, p) \/ \E n \in 0 .. MaxLen : WriteTerminal(a, p, n)
             \/ Begin(a) \/ Send(a) \/ Sent(a) \/ EndWrite(a)
             \/ Receive(a) \/ OffTheEnd(a) \/ ReceiveFails(a)
      PROVE  PoolInv' /\ DataInv'
  BY <1>3, <1>5, CallStirs, StirsBeside
<1>6. ASSUME NEW a \in Asid, StoreChar(a) PROVE PoolInv' /\ DataInv'
  <2>1. /\ BesidePager /\ \A b \in Asid : at[b] \in Over => at'[b] \in Over
        /\ UNCHANGED <<pagerVars, poolVars, mmuVars>>
    BY <1>6, StoreStirs, StirsBeside
  <2>2. PICK k \in Key : tlb[k] \in Frame /\ WriteTo(k)
    BY <1>6, StoreStirs
  <2>3. frames' \in [Key -> SUBSET Frame] /\ flash' \in SUBSET Key
    BY <1>2, <2>2 DEF WriteTo
  <2>4. PoolInv'
    BY <2>1, <2>3, BesidePool
  <2>5. UNCHANGED <<frameVictim, swapPoolTable, pte>>
    BY <2>1 DEF pagerVars, poolVars, mmuVars
  <2>6. DataInv'
    BY <1>2, <2>1, <2>2, <2>5, WriteData DEF BesidePager
  <2>7. QED  BY <2>4, <2>6
<1>7. CASE TerminalInterrupt
  <2>1. MemoryUnchanged /\ count' = count /\ queue' = queue
    BY <1>7 DEF TerminalInterrupt, semVars
  <2>2. /\ at' \in [Process -> Doing]
        /\ \A b \in Asid : \/ at'[b] = at[b]
                           \/ at[b] = "transmit" /\ at'[b] = "sent"
                           \/ at[b] = "receiving" /\ at'[b] = "store"
    BY <1>2, <1>7, InterruptMoves, Semaphores3 DEF MemTypes, Doing, InCode
  <2>3. /\ \A b \in Asid : at'[b] = at[b] \/ (at[b] \notin PagerStates /\ at'[b] \notin PagerStates)
        /\ \A b \in Asid : at'[b] \in Over <=> at[b] \in Over
    BY <2>2, StatesFacts DEF Writing, Reading
  <2>4. BesidePager
    BY <1>2, <2>1, <2>2, <2>3
       DEF BesidePager, MemTypes, PoolInv, Mutex, mutexCount, mutexQueue
  <2>5. QED  BY <1>3, <2>1, <2>3, <2>4
<1>8. CASE Complete \/ (\E a \in Asid : WriteNothing(a)) \/ UNCHANGED all
  <2>1. UNCHANGED vars
    BY <1>8 DEF Complete, WriteNothing, MemoryUnchanged, all, vars
  <2>2. QED  BY <1>1, <2>1
<1>9. QED  BY <1>4, <1>5, <1>6, <1>7, <1>8 DEF TermNext

LEMMA MemoryInTerminals ==
  ASSUME NoErrors
  PROVE  TermSpec => [](TermInv /\ Buffers /\ PoolInv /\ DataInv)
<1>1. TermInit => Buffers /\ PoolInv /\ DataInv
  BY InitPoolInv, InitDataInv DEF TermInit, Buffers, Calling
<1>2. /\ TermInv /\ Buffers /\ PoolInv /\ DataInv /\ [TermNext]_all
         => Buffers' /\ PoolInv' /\ DataInv'
  BY NextBuffers, NextMemory
<1>3. QED  BY <1>1, <1>2, TermInvariant, PTL DEF TermSpec

-----------------------------------------------------------------------------
(* What follows from the invariant *)

LEMMA AtMostOne ==
  ASSUME NEW S, NEW P
  PROVE  /\ S = {} => Cardinality(S) = 0
         /\ S = {P} => Cardinality(S) = 1
BY FS_EmptySet, FS_Singleton

\* While neither the flash devices nor the transmitter fail, one process at a time
\* writes and one reads, and the semaphores know, however many processes there are
\* and whoever is paged out in the middle of a line.
THEOREM TerminalExclusiveCorrect ==
  ASSUME NoErrors PROVE TermSpec => []TerminalExclusive
<1>1. TermInv => TerminalExclusive
  <2> SUFFICES ASSUME TermInv PROVE TerminalExclusive
    OBVIOUS
  <2>1. ASSUME NEW num \in Numbers
        PROVE  Cardinality(Owners(num)) + count[SemFor(num)] = 1
    <3>1. Permit(SemFor(num), num)
      BY PermitsFacts DEF TermInv
    <3>2. ASSUME NEW a \in Asid PROVE a \in Owners(num) <=> Holds(a, SemFor(num), num)
      <4>1. CASE Calling(a, num) /\ at[a] = "wait"
        <5>1. Sem!Waits(a) <=> a \in ToSet(queue[SemFor(num)])
          BY <4>1, WaitsFor DEF SemFor, Numbers
        <5>2. QED  BY <4>1, <5>1 DEF Owners, Holds, Calling
      <4>2. CASE Calling(a, num) /\ at[a] # "wait"
        BY <3>1, <4>2 DEF Owners, Holds, Calling, Permit
      <4>3. CASE ~Calling(a, num)
        BY <4>3 DEF Owners, Holds, Calling
      <4>4. QED  BY <4>1, <4>2, <4>3
    <3>3. Owners(num) \subseteq Asid
      BY DEF Owners
    <3>4. CASE count[SemFor(num)] = 1 /\ \A a \in Asid : ~Calling(a, num)
      <4>1. Owners(num) = {}
        BY <3>2, <3>3, <3>4 DEF Holds
      <4>2. Cardinality(Owners(num)) = 0
        BY <4>1, AtMostOne
      <4>3. QED  BY <3>4, <4>2
    <3>5. CASE /\ count[SemFor(num)] = 0
               /\ \E a \in Asid : /\ Holds(a, SemFor(num), num)
                                  /\ \A b \in Asid : Holds(b, SemFor(num), num) => b = a
      <4>1. PICK a \in Asid : /\ Holds(a, SemFor(num), num)
                              /\ \A b \in Asid : Holds(b, SemFor(num), num) => b = a
        BY <3>5
      <4>2. Owners(num) = {a}
        BY <3>2, <3>3, <4>1
      <4>3. Cardinality(Owners(num)) = 1
        BY <4>2, AtMostOne
      <4>4. QED  BY <3>5, <4>3
    <3>6. QED  BY <3>1, <3>4, <3>5 DEF Permit
  <2>2. QED
    BY <2>1 DEF TerminalExclusive, Numbers, SemFor, WRITETERMINAL, READTERMINAL
<1>2. QED  BY <1>1, TermInvariant, PTL

\* Under the same assumption no command is given to a subdevice that is at work, no
\* interrupt finds nobody, and nobody waits for a subdevice that does nothing.
THEOREM OneDriverCorrect ==
  ASSUME NoErrors PROVE TermSpec => []OneDriver
<1>1. TermInv => OneDriver
  <2> SUFFICES ASSUME TermInv PROVE OneDriver
    OBVIOUS
  <2>1. ASSUME NEW w \in {"transmit", "receiving"}, NEW a \in Asid, NEW b \in Asid,
               at[a] = w, at[b] = w
        PROVE  a = b
    <3>1. PICK num \in Numbers : Calling(a, num) /\ Calling(b, num)
      BY <2>1, CallFacts DEF Writing, Reading, Numbers
    <3>2. Holds(a, SemFor(num), num) /\ Holds(b, SemFor(num), num)
      BY <2>1, <3>1, BeyondP
    <3>3. Permit(SemFor(num), num)
      BY PermitsFacts DEF TermInv
    <3>4. QED  BY <3>2, <3>3 DEF Permit, Holds
  <2>2. ASSUME NEW w \in {"transmit", "receiving"}
        PROVE  Cardinality({a \in Asid : at[a] = w}) =
                  IF \E a \in Asid : at[a] = w THEN 1 ELSE 0
    <3>1. CASE \E a \in Asid : at[a] = w
      <4>1. PICK a \in Asid : at[a] = w
        BY <3>1
      <4>2. {b \in Asid : at[b] = w} = {a}
        BY <2>1, <4>1
      <4>3. QED  BY <3>1, <4>2, AtMostOne
    <3>2. CASE ~\E a \in Asid : at[a] = w
      <4>1. {b \in Asid : at[b] = w} = {}
        BY <3>2
      <4>2. QED  BY <3>2, <4>1, AtMostOne
    <3>3. QED  BY <3>1, <3>2
  <2>3. QED  BY <2>2 DEF OneDriver, TermInv, Waited
<1>2. QED  BY <1>1, TermInvariant, PTL

\* And a DOIO never returns the status of a command that is still in progress.
THEOREM TrueStatusCorrect ==
  ASSUME NoErrors PROVE TermSpec => []TrueStatus
<1>1. TermInv => TrueStatus
  BY DEF TermInv, TermTypes, TrueStatus
<1>2. QED  BY <1>1, TermInvariant, PTL

\* While nothing fails, the handlers of the terminal leave the swap pool as they
\* find it, and are paged like the code they serve: one process at a time works on
\* the pool, no frame is shared, and what a handler sends, or a process finds in
\* its buffer, is what was written there last.
THEOREM TerminalMemoryCorrect ==
  ASSUME NoErrors
  PROVE  TermSpec => [](PoolExclusive /\ FrameExclusive /\ TableExact /\ ReadsLastWrite)
<1>1. PoolInv /\ DataInv => PoolExclusive /\ FrameExclusive /\ TableExact /\ ReadsLastWrite
  BY PoolFacts, DataFacts
<1>2. QED  BY <1>1, MemoryInTerminals, PTL

-----------------------------------------------------------------------------
(* The semaphores of all devices *)

\* The interrupt of every device of the five lines finds the semaphore on which
\* DOIO has blocked the process that gave it its command.
THEOREM SameSemaphoreCorrect == Dev!SameSemaphore
<1> SUFFICES ASSUME NEW line \in Dev!Line, NEW devNo \in Dev!DevNo, NEW register \in Dev!Register(line)
             PROVE  /\ Dev!DoIO(Dev!CommandAddr(line, devNo, register)) = Dev!semaddr(line, devNo, register)
                    /\ Dev!semaddr(line, devNo, register) \in 0 .. Dev!PSEUDO_CLOCK_SEM_INDEX - 1
  BY DEF Dev!SameSemaphore
<1> DEFINE inner == register * 4
           block == (line - 3) * 128 + devNo * 16
<1>1. /\ line \in 3 .. 7 /\ devNo \in 0 .. 7
      /\ inner \in {4, 12}
      /\ line # 7 => inner = 4
      /\ block \in Nat
  BY DEF Dev!Line, Dev!DevNo, Dev!DEVPERINT, Dev!Register, Dev!COMMAND, Dev!RECVCOMMAND, Dev!TRANCOMMAND
<1> HIDE DEF inner
<1>2. Dev!CommandAddr(line, devNo, register) - Dev!START_DEVREG = block + inner
  BY <1>1 DEF Dev!CommandAddr, Dev!devaddrb, Dev!START_DEVREG, Dev!DEVPERINT, Dev!DEVREGSIZE, Dev!DEVREGLEN, inner
<1>3. (block + inner) % 16 = inner
  BY <1>1
<1>4. block \div 128 = line - 3
  BY <1>1
<1>5. (block % 128) \div 16 = devNo
  BY <1>1
<1> HIDE DEF block
<1>6. Dev!semaddr(line, devNo, register) = Dev!sem_index_from_dev(line, devNo, inner)
  BY DEF Dev!semaddr, Dev!DEVREGLEN, inner
<1>7. Dev!DoIO(Dev!CommandAddr(line, devNo, register)) = Dev!sem_index_from_dev(line, devNo, inner)
  <2>1. block + inner - inner = block /\ 3 + (line - 3) = line
    BY <1>1
  <2> QED BY <1>1, <1>2, <1>3, <1>4, <1>5, <2>1 DEF Dev!DoIO, Dev!DEVREGSIZE, Dev!DEVPERINT, Dev!Line
<1>8. Dev!sem_index_from_dev(line, devNo, inner) \in 0 .. 47
  BY <1>1 DEF Dev!sem_index_from_dev
<1> QED BY <1>6, <1>7, <1>8 DEF Dev!PSEUDO_CLOCK_SEM_INDEX, Dev!SEMDEVLEN

-----------------------------------------------------------------------------
\* The element of device_sem as one formula of line, device and register.
LEMMA SemaphoreValue ==
    ASSUME NEW line \in 3 .. 7, NEW devNo \in 0 .. 7, NEW register \in {1, 3},
           line # 7 => register = 1
    PROVE  Dev!semaddr(line, devNo, register) = devNo + 8 * (line - 3) + 4 * (register - 1)
<1>1. CASE line = 7 /\ register = 1
  <2>1. Dev!semaddr(line, devNo, register) = Dev!sem_index_from_dev(7, devNo, 4)
    BY <1>1 DEF Dev!semaddr, Dev!DEVREGLEN
  <2> QED BY <1>1, <2>1 DEF Dev!sem_index_from_dev
<1>2. CASE line = 7 /\ register = 3
  <2>1. Dev!semaddr(line, devNo, register) = Dev!sem_index_from_dev(7, devNo, 12)
    BY <1>2 DEF Dev!semaddr, Dev!DEVREGLEN
  <2> QED BY <1>2, <2>1 DEF Dev!sem_index_from_dev
<1>3. CASE line \in 3 .. 6 /\ register = 1
  <2>1. Dev!semaddr(line, devNo, register) = devNo + 8 * (line - 3)
    BY <1>3 DEF Dev!semaddr, Dev!sem_index_from_dev
  <2>2. 4 * (register - 1) = 0
    BY <1>3
  <2> QED BY <1>3, <2>1, <2>2
<1> QED BY <1>1, <1>2, <1>3

-----------------------------------------------------------------------------
\* Two devices never share an element of device_sem, and the two halves of a
\* terminal do not either.
THEOREM OwnSemaphoreCorrect == Dev!OwnSemaphore
<1> SUFFICES ASSUME NEW l1 \in Dev!Line, NEW l2 \in Dev!Line, NEW d1 \in Dev!DevNo, NEW d2 \in Dev!DevNo,
                    NEW r1 \in Dev!Register(l1), NEW r2 \in Dev!Register(l2),
                    Dev!semaddr(l1, d1, r1) = Dev!semaddr(l2, d2, r2)
             PROVE  l1 = l2 /\ d1 = d2 /\ r1 = r2
  BY DEF Dev!OwnSemaphore
<1>1. l1 \in 3 .. 7 /\ l2 \in 3 .. 7 /\ d1 \in 0 .. 7 /\ d2 \in 0 .. 7
  BY DEF Dev!Line, Dev!DevNo, Dev!DEVPERINT
<1>2. /\ r1 \in {1, 3} /\ (l1 # 7 => r1 = 1)
      /\ r2 \in {1, 3} /\ (l2 # 7 => r2 = 1)
  BY DEF Dev!Register, Dev!COMMAND, Dev!RECVCOMMAND, Dev!TRANCOMMAND
<1>3. /\ Dev!semaddr(l1, d1, r1) = d1 + 8 * (l1 - 3) + 4 * (r1 - 1)
      /\ Dev!semaddr(l2, d2, r2) = d2 + 8 * (l2 - 3) + 4 * (r2 - 1)
  BY <1>1, <1>2, SemaphoreValue
<1>5. d1 + 8 * (l1 - 3) + 4 * (r1 - 1) = d2 + 8 * (l2 - 3) + 4 * (r2 - 1)
  BY <1>3
<1> QED BY <1>1, <1>2, <1>5

-----------------------------------------------------------------------------
\* No address makes DOIO index device_sem out of its bounds, or wait for the clock.
THEOREM AnyAddressCorrect == Dev!AnyAddress
<1> SUFFICES ASSUME NEW commandreg \in Nat
             PROVE  Dev!DoIO(commandreg) \in {Dev!PANIC} \cup 0 .. 47
  BY DEF Dev!AnyAddress, Dev!PSEUDO_CLOCK_SEM_INDEX, Dev!SEMDEVLEN
<1> DEFINE offset == commandreg - Dev!START_DEVREG
           inner == offset % 16
           devoffset == offset - inner
           line == 3 + devoffset \div 128
           devNo == (devoffset % 128) \div 16
<1>1. offset \in Int
  BY DEF Dev!START_DEVREG
<1>2. inner \in Int /\ devoffset \in Int
  BY <1>1
<1>3. line \in Int /\ devNo \in 0 .. 7
  <2> HIDE DEF devoffset
  <2> QED BY <1>2
<1>4. Dev!DoIO(commandreg) = IF inner \in {4, 12} /\ line \in Dev!Line
                         THEN Dev!sem_index_from_dev(line, devNo, inner)
                         ELSE Dev!PANIC
  BY DEF Dev!DoIO, Dev!DEVREGSIZE, Dev!DEVPERINT
<1> HIDE DEF inner, line, devNo
<1>5. ASSUME line \in Dev!Line PROVE Dev!sem_index_from_dev(line, devNo, inner) \in {Dev!PANIC} \cup 0 .. 47
  BY <1>3, <1>5 DEF Dev!sem_index_from_dev, Dev!Line
<1> QED BY <1>4, <1>5

-----------------------------------------------------------------------------
\* The address that rwToMem computes by itself is the one that the nucleus takes
\* apart: a process of each ASID waits for its own flash device.
THEOREM OwnFlashCorrect == Dev!OwnFlash
<1> SUFFICES ASSUME NEW asid \in 1 .. 8
             PROVE  Dev!DoIO(Dev!FlashCommand(asid)) = Dev!semaddr(4, asid - 1, Dev!COMMAND)
  BY DEF Dev!OwnFlash
<1>1. Dev!FlashCommand(asid) = Dev!CommandAddr(4, asid - 1, Dev!COMMAND)
  BY DEF Dev!FlashCommand, Dev!CommandAddr, Dev!devaddrb, Dev!COMMAND, Dev!DEVPERINT, Dev!DEVREGSIZE, Dev!DEVREGLEN
<1>2. 4 \in Dev!Line /\ asid - 1 \in Dev!DevNo /\ Dev!COMMAND \in Dev!Register(4)
  BY DEF Dev!Line, Dev!DevNo, Dev!DEVPERINT, Dev!Register
<1> QED BY <1>1, <1>2, SameSemaphoreCorrect DEF Dev!SameSemaphore
=============================================================================
