------------------------------- MODULE P2Test ------------------------------
(***************************************************************************)
(* phase2/p2test.c: the processes of the nucleus test, on Nucleus.         *)
(*                                                                         *)
(* A function of the test is the sequence of what it asks of the nucleus   *)
(* and of what it checks; `at' says where in which function a process is.  *)
(* What a process does between two such instructions changes nothing that  *)
(* others see.  print writes one character; times are not measured.        *)
(***************************************************************************)
EXTENDS Nucleus

CONSTANTS
    Slices,     \* bound: the time slice ends at most so many times
    Rounds,     \* bound for the 4 rounds of p8
    Yields      \* bound for the 100 yields of hp_p1

ASSUME BoundAssumption == {Slices, Rounds, Yields} \subseteq Nat

TestSem == {"term_mut", "testsem", "startp2", "endp2", "endp3", "blkp4", "synp4", "endp4",
            "endp5", "endp8", "endcreate1", "endcreate2", "endcreate3", "endcreate4",
            "blkp8", "blkp9", "s"}

ASSUME TestAssumption ==
    /\ UserSem = TestSem /\ Device = {"TERM0"} /\ Supports = {"pFiveSupport"}
    /\ Prio = {0, 1, 10}
    /\ Pcb = 1 .. Cardinality(Pcb)

PROCESS_PRIO_LOW == 0
PROCESS_PRIO_HIGH == 1

VARIABLES
    at,         \* where each process is: [prog, pc], and a0, what its last
                \* CREATEPROCESS returned
    global,     \* the int variables that processes share
    slices      \* how many time slices have ended

testVars == <<vars, at, global, slices>>

Nowhere == [prog |-> "none", pc |-> 0, a0 |-> 0]
Entry(prog) == [prog |-> prog, pc |-> 1, a0 |-> 0]

-----------------------------------------------------------------------------
(* Instructions *)

P(s) == <<[op |-> "passeren", sem |-> s]>>
V(s) == <<[op |-> "verhogen", sem |-> s]>>
Create(prog, prio, sup) == <<[op |-> "create", prog |-> prog, prio |-> prio, sup |-> sup]>>
Store(var) == <<[op |-> "store", var |-> var]>>
Set(var) == <<[op |-> "set", var |-> var]>>
DoTerminal == <<[op |-> "doio"]>>
Clock == <<[op |-> "clockwait"]>>
YieldCpu == <<[op |-> "yield"]>>
Term == <<[op |-> "terminate"]>>
TermParent == <<[op |-> "terminate parent"]>>
Reset(sems) == <<[op |-> "reset", sems |-> sems]>>

\* An exception or a system call that the nucleus passes up to one of these
\* handlers, if it passes it up at all.
Trap(handlers) == <<[op |-> "trap", handlers |-> handlers]>>

\* The end of a handler.
Return_to(prog) == <<[op |-> "return", prog |-> prog]>>

\* Checks whose failure is an error of the nucleus: the test panics, or says so
\* and goes on; here it panics in both cases.
IsSelf(var) == <<[op |-> "is self", var |-> var]>>
IsParent(var) == <<[op |-> "is parent", var |-> var]>>
IsSet(var) == <<[op |-> "is set", var |-> var]>>
IsSupport(sup) == <<[op |-> "is support", sup |-> sup]>>
IsValue(s, v) == <<[op |-> "is value", sem |-> s, val |-> v]>>

Start(prog) == Create(prog, PROCESS_PRIO_LOW, NULL)

Times(n, prog) == [i \in 1 .. n * Len(prog) |-> prog[1 + ((i - 1) % Len(prog))]]

print == P("term_mut") \o DoTerminal \o V("term_mut")

-----------------------------------------------------------------------------
(* The processes *)

EndCreate == <<"endcreate1", "endcreate2", "endcreate3", "endcreate4">>

\* The first part of p1: semaphores.
test_semaphores ==
    Times(3, V("testsem")) \o IsValue("testsem", 3)
    \o Times(3, P("testsem")) \o IsValue("testsem", 0)
    \o print

\* One round of the last part of p1.
test_p8 ==
    Reset({"blkp8", "endp8"} \cup ToSet(EndCreate))
    \o Start("p8root") \o Store("p8pid") \o P("endp8")

\* The part between: p2 to p7, p9 and p10, and the two of high priority.
test_processes ==
    Start("p2") \o Store("p2pid") \o print \o V("startp2") \o P("endp2") \o IsSet("p1p2synch")
    \o Start("p3") \o Store("p3pid") \o print \o P("endp3")
    \o Create("hp_p1", 10, NULL) \o Create("hp_p2", PROCESS_PRIO_HIGH, NULL)
    \o Start("p4") \o Store("p4pid")
    \o Create("p5", PROCESS_PRIO_LOW, "pFiveSupport")
    \o Start("p6") \o Start("p7") \o Start("p9") \o Store("p9pid")
    \o P("endp5") \o print \o P("blkp4")

\* The root process; at its end it stores to BADADDR.
test ==
    test_semaphores \o test_processes \o Times(Rounds, test_p8) \o print \o Trap({})

\* One of the 21 semaphores s[i].
p2 == P("startp2") \o print \o IsSelf("p2pid")
      \o V("s") \o P("s") \o IsValue("s", 0) \o print \o print
      \o Set("p1p2synch") \o V("endp2") \o Term

\* The loop on the time of day ends in its second round at the latest; then
\* CLOCKLOOP waits, of which one.
p3 == Clock \o Clock \o print \o Clock \o print \o IsSelf("p3pid") \o V("endp3") \o Term

\* Both incarnations.
p4 == print \o IsSelf("p4pid") \o V("synp4") \o P("blkp4") \o P("synp4")
      \o Start("p4") \o Store("p4pid") \o P("synp4") \o print \o V("endp4") \o Term

\* The load at address 0 is a bus or an address error, as the hardware has it.
p5 == print \o Trap({"p5gen_bus", "p5gen_addr"})

\* p5gen, for each of the exceptions that p5 makes, with p5sys.
p5gen_bus == print \o Return_to("p5a")
p5gen_addr == print \o Return_to("p5b")
p5gen_sys == print \o Return_to("p5b_rest")

p5a == Trap({"p5mm"})

\* p5mm returns to p5b in user mode, where it cannot go on.
p5mm == print \o IsSupport("pFiveSupport") \o print \o Return_to("p5b_user")
p5b_user == Trap({"p5gen_addr"})

\* p5b in kernel mode: SYSCALL(1), and what comes after it.
p5b == Trap({"p5gen_sys"})
p5b_rest == P("endp4") \o Clock \o Clock \o V("blkp4") \o V("endp5") \o Term

\* p6 makes a system call and p7 an access, without a support structure.
p6 == print \o Trap({})
p7 == print \o Trap({})

p8root == print \o Start("child1") \o Start("child2")
          \o P(EndCreate[1]) \o P(EndCreate[2]) \o P(EndCreate[3]) \o P(EndCreate[4])
          \o V("endp8") \o Term

child(leaf1, leaf2) ==
    print \o IsParent("p8pid") \o Start(leaf1) \o Start(leaf2) \o P("blkp8")

p8leaf(i) == print \o V(EndCreate[i]) \o P("blkp8")

p9 == print \o Start("p10") \o P("blkp9")
p10 == print \o IsParent("p9pid") \o TermParent

hp_p1 == print \o Times(Yields, YieldCpu) \o print \o Term
hp_p2 == print \o YieldCpu \o print \o Term

\* What the pc of each of the states that test() sets up points to.
Code == [test |-> test, p2 |-> p2, p3 |-> p3, p4 |-> p4, p5 |-> p5,
         p5gen_bus |-> p5gen_bus, p5gen_addr |-> p5gen_addr, p5gen_sys |-> p5gen_sys,
         p5a |-> p5a, p5mm |-> p5mm, p5b_user |-> p5b_user, p5b |-> p5b,
         p5b_rest |-> p5b_rest, p6 |-> p6, p7 |-> p7, p8root |-> p8root,
         child1 |-> child("leaf1", "leaf2"), child2 |-> child("leaf3", "leaf4"),
         leaf1 |-> p8leaf(1), leaf2 |-> p8leaf(2), leaf3 |-> p8leaf(3), leaf4 |-> p8leaf(4),
         p9 |-> p9, p10 |-> p10, hp_p1 |-> hp_p1, hp_p2 |-> hp_p2]

-----------------------------------------------------------------------------
(* The instruction of the current process *)

\* The current process is at an instruction op; a function that has come to its
\* end returns to nowhere.
Does(op) ==
    /\ Running
    /\ LET here == at[current_process]
       IN  here.pc \in DOMAIN Code[here.prog] /\ Code[here.prog][here.pc].op = op

It == Code[at[current_process].prog][at[current_process].pc]

\* The current process goes to `next', a new one to `entry'.
Goes(next, entry) ==
    at' = [p \in Pcb |->
             IF p \in pcbFree' THEN Nowhere
             ELSE IF p \in pcbFree THEN entry
             ELSE IF p = current_process THEN next
             ELSE at[p]]

Onward == [at[current_process] EXCEPT !.pc = @ + 1]
GoesOn == Goes(Onward, Nowhere) /\ UNCHANGED <<global, slices>>

\* allocPcb takes one PCB; which one makes no difference.
CreateProcess ==
    /\ Does("create")
    /\ create_process(It.prio, It.sup)
    /\ pcbFree # {} => pcbFree' = {p \in pcbFree : \E q \in pcbFree : q < p}
    /\ Goes([Onward EXCEPT !.a0 = IF pcbFree = {} THEN -1 ELSE next_pid], Entry(It.prog))
    /\ UNCHANGED <<global, slices>>

Terminate ==
    /\ \/ Does("terminate") /\ terminate_process(0)
       \/ Does("terminate parent") /\ terminate_process(GetProcessID(1))
    /\ GoesOn

SemaphoreCall ==
    /\ \/ Does("passeren") /\ Passeren(It.sem)
       \/ Does("verhogen") /\ Verhogen(It.sem)
    /\ GoesOn

WaitingCall ==
    /\ \/ Does("doio") /\ DoIO("TERM0")
       \/ Does("clockwait") /\ WaitForClock
       \/ Does("yield") /\ Yield
    /\ GoesOn

\* The exception takes a process with a support structure to its handler.
Exception ==
    /\ Does("trap")
    /\ passup_or_die
    /\ IF p_supportStruct[current_process] = NULL
       THEN Goes(Onward, Nowhere)
       ELSE \E handler \in It.handlers : Goes(Entry(handler), Nowhere)
    /\ UNCHANGED <<global, slices>>

HandlerReturns ==
    /\ Does("return")
    /\ UNCHANGED <<vars, global, slices>>
    /\ Goes(Entry(It.prog), Nowhere)

Assign ==
    /\ UNCHANGED <<vars, slices>>
    /\ \/ Does("store") /\ global' = [global EXCEPT ![It.var] = at[current_process].a0]
       \/ Does("set") /\ global' = [global EXCEPT ![It.var] = 1]
    /\ Goes([Onward EXCEPT !.a0 = 0], Nowhere)

ResetSemaphores ==
    /\ Does("reset")
    /\ semval' = [s \in Sem |-> IF s \in It.sems THEN 0 ELSE semval[s]]
    /\ UNCHANGED <<pcbVars, p_semAdd, semd_h, cpuVars, counters, busy>>
    /\ GoesOn

\* What a check expects.
Expected ==
    \/ Does("is self") /\ global[It.var] = GetProcessID(0)
    \/ Does("is parent") /\ global[It.var] = GetProcessID(1)
    \/ Does("is set") /\ global[It.var] = 1
    \/ Does("is support") /\ GetSupportData = It.sup
    \/ Does("is value") /\ semval[It.sem] = It.val

Check ==
    /\ \E op \in {"is self", "is parent", "is set", "is support", "is value"} : Does(op)
    /\ cpu' = IF Expected THEN cpu ELSE "panic"
    /\ UNCHANGED <<pcbVars, semVars, current_process, ready_queue, p_s, counters, busy>>
    /\ GoesOn

\* A child or a leaf of p8 whose P on sem_blkp8 did not block returns from its
\* function.  Where to is not defined, and the model follows the machine no further.
FunctionEnds ==
    /\ Running
    /\ at[current_process].pc \notin DOMAIN Code[at[current_process].prog]
    /\ cpu' = "lost"
    /\ UNCHANGED <<pcbVars, semVars, current_process, ready_queue, p_s, counters, busy>>
    /\ UNCHANGED <<at, global, slices>>

Instruction ==
    \/ CreateProcess \/ Terminate \/ SemaphoreCall \/ WaitingCall \/ Exception
    \/ HandlerReturns \/ Assign \/ ResetSemaphores \/ Check \/ FunctionEnds

SliceEnds ==
    /\ slices < Slices
    /\ PLTInterrupt
    /\ slices' = slices + 1
    /\ UNCHANGED <<at, global>>

OtherInterrupt ==
    /\ DeviceInterrupt("TERM0") \/ IntervalTimer
    /\ UNCHANGED <<at, global, slices>>

-----------------------------------------------------------------------------
InitialValue(s) == IF s \in {"term_mut", "blkp4"} THEN 1 ELSE 0

TestInit ==
    /\ semval = [s \in Sem |-> InitialValue(s)]
    /\ current_process = 1
    /\ Init
    /\ at = [p \in Pcb |-> IF p = 1 THEN Entry("test") ELSE Nowhere]
    /\ global = [v \in {"p2pid", "p3pid", "p4pid", "p8pid", "p9pid", "p1p2synch"} |-> 0]
    /\ slices = 0

TestNext == Instruction \/ SliceEnds \/ OtherInterrupt

\* The CPU executes instructions, the clock ticks and the terminal answers.
TestSpec ==
    /\ TestInit /\ [][TestNext]_testVars
    /\ WF_testVars(Instruction)
    /\ WF_testVars(IntervalTimer /\ UNCHANGED <<at, global, slices>>)
    /\ WF_testVars(DeviceInterrupt("TERM0") /\ UNCHANGED <<at, global, slices>>)

-----------------------------------------------------------------------------
(* Correctness *)

\* The test has three races of its own, in which the nucleus does what it is asked to
\* and the test goes wrong: it may panic, hang, or run on past the end of a function.

\* The next instruction of p stores what its CREATEPROCESS has returned in var.
IsToStore(p, var) ==
    /\ at[p].pc \in DOMAIN Code[at[p].prog]
    /\ Code[at[p].prog][at[p].pc] = Store(var)[1]

\* 1. A process compares its pid, or its parent's, with a variable that the process
\* that created it, preempted in the meantime, has yet to assign.
ChecksEarly ==
    /\ Does("is self") \/ Does("is parent")
    /\ \E p \in Live : IsToStore(p, It.var)

\* 2. p1 resets a semaphore that somebody waits for.
ForgetsWaiters == Does("reset") /\ \E s \in It.sems : semd_h[s] # <<>>

\* 3. The V on sem_blkp4 that p5 leaves for p1 wakes the second p4, which the first
\* has yet to take with it: p5's delay was to make that unlikely.
WakesSecondP4 == Does("verhogen") /\ It.sem = "blkp4" /\ semd_h["blkp4"] # <<>>


\* r is a root of p8's tree that has done its V and is about to end.
AtEnd(r) ==
    /\ at[r].prog = "p8root" /\ at[r].pc \in DOMAIN p8root
    /\ p8root[at[r].pc].op = "terminate"

\* Whoever waits for a semaphore that p1 resets waits on sem_blkp8 and is doomed:
\* its root, preempted after its V, is about to kill it.  Nobody that is to go on
\* loses its place, also if several trees have not died yet.
ResetsIdle == Does("reset") =>
    /\ \A s \in It.sems \ {"blkp8"} : semd_h[s] = <<>>
    /\ \A p \in ToSet(semd_h["blkp8"]) : \E r \in Live : AtEnd(r) /\ p \in Subtree(r)

\* A user semaphore counts its waiters, when subtrees die in its queue as well, and
\* when p1 resets it.  Only sem_blkp8 may have waiters that its value does not tell of,
\* those whom a reset forgot; its value never tells of any that are not there.
WaitersCounted ==
    /\ \A s \in UserSem \ {"blkp8"} :
          Len(semd_h[s]) = IF semval[s] < 0 THEN -semval[s] ELSE 0
    /\ Len(semd_h["blkp8"]) + semval["blkp8"] >= 0
=============================================================================
