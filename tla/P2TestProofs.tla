---------------------------- MODULE P2TestProofs ----------------------------
(***************************************************************************)
(* What holds of the nucleus while its test runs, for any number of PCBs,  *)
(* of time slices, and of rounds of p8.                                    *)
(*                                                                         *)
(* p1 resets semaphores by assignments.  A reset is no step of the         *)
(* nucleus, and it may hit a semaphore that processes wait for: those of a *)
(* tree of p8 whose root, preempted between its V on sem_endp8 and its     *)
(* end, has not yet killed it.  So the invariants of the nucleus carry     *)
(* over only with a proof of whom a reset can hit: processes on sem_blkp8  *)
(* that are below such a root, nobody on any other semaphore.  That is an  *)
(* argument about the programs: p1 waits for sem_endp8 after it has        *)
(* created a root (Surroundings), the root does the V right before its end *)
(* (LastOfRoot), and nobody else uses these semaphores or creates these    *)
(* processes (Fits, Programs).                                             *)
(*                                                                         *)
(* The inductive invariant TestInv says where processes can be (AtOK),     *)
(* that who waits is past the P it waits in (WaitsPast), that every tree   *)
(* hangs from p1 by its root (Tree8Shape), and that while a root has not   *)
(* come to its end it is the only such and p1 waits, or is about to wait,  *)
(* for it (Round, Closed).  The other steps of the test are steps of the   *)
(* nucleus (TestSteps), in which the caller of a TERMPROCESS dies with its *)
(* victims (TerminateDies).                                                *)
(***************************************************************************)
EXTENDS P2Test, NucleusProofs

-----------------------------------------------------------------------------
(* The instructions *)

Progs == DOMAIN Code

\* The processes of p8's tree.
Children == {"child1", "child2"}
Leaves == {"leaf1", "leaf2", "leaf3", "leaf4"}
Tree8 == {"p8root"} \cup Children \cup Leaves

\* What test() resets before a round.
RoundSems == {"blkp8", "endp8", "endcreate1", "endcreate2", "endcreate3", "endcreate4"}

Variable == {"p2pid", "p3pid", "p4pid", "p8pid", "p9pid", "p1p2synch"}

Instructions ==
    [op : {"passeren", "verhogen"}, sem : UserSem]
    \cup [op : {"create"}, prog : Progs, prio : Prio, sup : Supports \cup {NULL}]
    \cup [op : {"store", "set", "is self", "is parent", "is set"}, var : Variable]
    \cup [op : {"doio", "clockwait", "yield", "terminate", "terminate parent"}]
    \cup [op : {"reset"}, sems : {RoundSems}]
    \cup [op : {"trap"}, handlers : SUBSET Progs]
    \cup [op : {"return"}, prog : Progs]
    \cup [op : {"is support"}, sup : Supports]
    \cup [op : {"is value"}, sem : UserSem, val : Nat]

\* Who may wait for the semaphores of the tree.
Waits(prog, s) ==
    /\ s = "endp8" => prog = "test"
    /\ s = "blkp8" => prog \in Children \cup Leaves
    /\ s \in RoundSems \ {"endp8", "blkp8"} => prog = "p8root"

\* What the instruction i may be in the program prog: a process of p8's tree is
\* created by its parent in that tree only, the semaphores of the tree are its own,
\* and nothing turns into one of its processes or into p1.
Fits(prog, i) ==
    /\ i.op = "create" =>
          /\ i.prog # "test"
          /\ i.prog = "p8root" => prog = "test"
          /\ i.prog \in Children => prog = "p8root"
          /\ i.prog \in Leaves => prog \in Children
    /\ i.op = "passeren" => Waits(prog, i.sem)
    /\ i.op = "verhogen" /\ i.sem = "endp8" => prog = "p8root"
    /\ i.op = "return" => {prog, i.prog} \cap (Tree8 \cup {"test"}) = {}
    /\ i.op = "trap" =>
          /\ i.handlers \cap (Tree8 \cup {"test"}) = {}
          /\ prog \in Tree8 \cup {"test"} => i.handlers = {}
    /\ i.op = "reset" => prog = "test"

Fitting(prog) == {i \in Instructions : Fits(prog, i)}

\* The functions of the test.
LEMMA ProgsAre ==
  Progs = {"test", "p2", "p3", "p4", "p5", "p5gen_bus", "p5gen_addr", "p5gen_sys", "p5a",
           "p5mm", "p5b_user", "p5b", "p5b_rest", "p6", "p7", "p8root", "child1", "child2",
           "leaf1", "leaf2", "leaf3", "leaf4", "p9", "p10", "hp_p1", "hp_p2"}
BY DEF Progs, Code

\* The assumptions of P2Test in the form in which they are used.
LEMMA Constants ==
  /\ UserSem = TestSem /\ Supports = {"pFiveSupport"} /\ Prio = {0, 1, 10}
  /\ Device = {"TERM0"} /\ 1 \in Pcb /\ Pcb \subseteq Nat
  /\ Rounds \in Nat /\ Yields \in Nat
<1>1. Cardinality(Pcb) \in Nat
  BY PcbAssumption, FS_CardinalityType
<1>2. Pcb = 1 .. Cardinality(Pcb) /\ Pcb # {}
  BY PcbAssumption, TestAssumption
<1>3. 1 \in Pcb /\ Pcb \subseteq Nat
  <2> DEFINE n == Cardinality(Pcb)
  <2> HIDE DEF n
  <2>1. n \in Nat /\ Pcb = 1 .. n
    BY <1>1, <1>2 DEF n
  <2>2. QED  BY <1>2, <2>1
<1>4. QED  BY <1>3, TestAssumption, BoundAssumption

\* A sequence of one.
LEMMA Single == ASSUME NEW S, NEW x \in S PROVE <<x>> \in Seq(S)
OBVIOUS

LEMMA Both == ASSUME NEW S, NEW s \in Seq(S), NEW t \in Seq(S) PROVE s \o t \in Seq(S)
OBVIOUS

\* A P, a V or a look at a semaphore, where the semaphore belongs.
LEMMA CallFits ==
  ASSUME NEW prog, NEW s \in TestSem
  PROVE  /\ Waits(prog, s) => P(s) \in Seq(Fitting(prog))
         /\ (s = "endp8" => prog = "p8root") => V(s) \in Seq(Fitting(prog))
         /\ IsValue(s, 0) \in Seq(Fitting(prog))
         /\ IsValue(s, 3) \in Seq(Fitting(prog))
<1> DEFINE p == [op |-> "passeren", sem |-> s]
           v == [op |-> "verhogen", sem |-> s]
           i(n) == [op |-> "is value", sem |-> s, val |-> n]
<1>1. /\ p \in Instructions /\ v \in Instructions
      /\ \A n \in Nat : i(n) \in Instructions
  BY Constants DEF Instructions
<1>2. \A n \in Nat : Fits(prog, i(n))
  BY DEF Fits
<1>3. Waits(prog, s) => Fits(prog, p)
  BY DEF Fits
<1>4. (s = "endp8" => prog = "p8root") => Fits(prog, v)
  BY DEF Fits
<1> HIDE DEF p, v, i
<1>5. /\ P(s) = <<p>> /\ V(s) = <<v>> /\ \A n \in Nat : IsValue(s, n) = <<i(n)>>
  BY DEF P, V, IsValue, p, v, i
<1>6. \A n \in Nat : i(n) \in Fitting(prog)
  BY <1>1, <1>2 DEF Fitting
<1>7. QED  BY <1>1, <1>3, <1>4, <1>5, <1>6, Single DEF Fitting

LEMMA print_Fits == ASSUME NEW prog PROVE print \in Seq(Fitting(prog))
<1>1. DoTerminal \in Seq(Fitting(prog))
  BY Single DEF DoTerminal, Fitting, Fits, Instructions
<1>2. P("term_mut") \in Seq(Fitting(prog)) /\ V("term_mut") \in Seq(Fitting(prog))
  BY CallFits DEF TestSem, RoundSems, Waits
<1>3. QED  BY <1>1, <1>2, Both DEF print

\* A CREATEPROCESS where the new process belongs.
LEMMA CreateFits ==
  ASSUME NEW prog, NEW q \in Progs, NEW prio \in Prio, NEW sup \in Supports \cup {NULL},
         q # "test",
         q = "p8root" => prog = "test",
         q \in Children => prog = "p8root",
         q \in Leaves => prog \in Children
  PROVE  Create(q, prio, sup) \in Seq(Fitting(prog))
<1> DEFINE c == [op |-> "create", prog |-> q, prio |-> prio, sup |-> sup]
<1>1. c \in Instructions
  BY DEF Instructions
<1>2. Fits(prog, c)
  BY DEF Fits
<1> HIDE DEF c
<1>3. Create(q, prio, sup) = <<c>>
  BY DEF Create, c
<1>4. QED  BY <1>1, <1>2, <1>3, Single DEF Fitting

\* The same at the low priority.
LEMMA StartFits ==
  ASSUME NEW prog, NEW q \in Progs,
         q # "test",
         q = "p8root" => prog = "test",
         q \in Children => prog = "p8root",
         q \in Leaves => prog \in Children
  PROVE  Start(q) \in Seq(Fitting(prog))
<1>1. PROCESS_PRIO_LOW \in Prio
  BY Constants DEF PROCESS_PRIO_LOW
<1>2. QED  BY <1>1, CreateFits DEF Start

\* Instructions that fit anywhere.
LEMMA PlainFits ==
  ASSUME NEW prog
  PROVE  /\ DoTerminal \in Seq(Fitting(prog)) /\ Clock \in Seq(Fitting(prog))
         /\ YieldCpu \in Seq(Fitting(prog)) /\ Term \in Seq(Fitting(prog))
         /\ TermParent \in Seq(Fitting(prog))
         /\ IsSupport("pFiveSupport") \in Seq(Fitting(prog))
<1> DEFINE plain(op) == [op |-> op]
           i == [op |-> "is support", sup |-> "pFiveSupport"]
<1>1. \A op \in {"doio", "clockwait", "yield", "terminate", "terminate parent"} :
         plain(op) \in Instructions /\ Fits(prog, plain(op))
  BY DEF Instructions, Fits
<1>2. i \in Instructions /\ Fits(prog, i)
  BY Constants DEF Instructions, Fits
<1> HIDE DEF i, plain
<1>3. /\ DoTerminal = <<plain("doio")>> /\ Clock = <<plain("clockwait")>>
      /\ YieldCpu = <<plain("yield")>> /\ Term = <<plain("terminate")>>
      /\ TermParent = <<plain("terminate parent")>>
      /\ IsSupport("pFiveSupport") = <<i>>
  BY DEF DoTerminal, Clock, YieldCpu, Term, TermParent, IsSupport, i, plain
<1>4. QED  BY <1>1, <1>2, <1>3, Single DEF Fitting

\* Instructions about variables fit anywhere.
LEMMA VariableFits ==
  ASSUME NEW prog, NEW v \in Variable
  PROVE  /\ Store(v) \in Seq(Fitting(prog)) /\ Set(v) \in Seq(Fitting(prog))
         /\ IsSelf(v) \in Seq(Fitting(prog)) /\ IsParent(v) \in Seq(Fitting(prog))
         /\ IsSet(v) \in Seq(Fitting(prog))
<1> DEFINE i(op) == [op |-> op, var |-> v]
<1>1. \A op \in {"store", "set", "is self", "is parent", "is set"} :
         i(op) \in Instructions /\ Fits(prog, i(op))
  BY DEF Instructions, Fits
<1> HIDE DEF i
<1>2. /\ Store(v) = <<i("store")>> /\ Set(v) = <<i("set")>>
      /\ IsSelf(v) = <<i("is self")>> /\ IsParent(v) = <<i("is parent")>>
      /\ IsSet(v) = <<i("is set")>>
  BY DEF Store, Set, IsSelf, IsParent, IsSet, i
<1>3. QED  BY <1>1, <1>2, Single DEF Fitting

\* An exception with its handlers, outside of the tree of p8 and p1.
LEMMA TrapFits ==
  ASSUME NEW prog, NEW H \in SUBSET Progs, H \cap (Tree8 \cup {"test"}) = {},
         prog \in Tree8 \cup {"test"} => H = {}
  PROVE  Trap(H) \in Seq(Fitting(prog))
<1> DEFINE i == [op |-> "trap", handlers |-> H]
<1>1. i \in Instructions /\ Fits(prog, i)
  BY DEF Instructions, Fits
<1> HIDE DEF i
<1>2. Trap(H) = <<i>>
  BY DEF Trap, i
<1>3. QED  BY <1>1, <1>2, Single DEF Fitting

\* The end of a handler of p5.
LEMMA ReturnFits ==
  ASSUME NEW prog, NEW q \in Progs, {prog, q} \cap (Tree8 \cup {"test"}) = {}
  PROVE  Return_to(q) \in Seq(Fitting(prog))
<1> DEFINE i == [op |-> "return", prog |-> q]
<1>1. i \in Instructions /\ Fits(prog, i)
  BY DEF Instructions, Fits
<1> HIDE DEF i
<1>2. Return_to(q) = <<i>>
  BY DEF Return_to, i
<1>3. QED  BY <1>1, <1>2, Single DEF Fitting

\* Only p1 resets, and only what belongs to a round.
LEMMA ResetFits == Reset(RoundSems) \in Seq(Fitting("test"))
<1> DEFINE i == [op |-> "reset", sems |-> RoundSems]
<1>1. i \in Instructions /\ Fits("test", i)
  BY DEF Instructions, Fits
<1> HIDE DEF i
<1>2. Reset(RoundSems) = <<i>>
  BY DEF Reset, i
<1>3. QED  BY <1>1, <1>2, Single DEF Fitting

\* A sequence repeated.
LEMMA TimesFits ==
  ASSUME NEW S, NEW n \in Nat, NEW q \in Seq(S)
  PROVE  Times(n, q) \in Seq(S)
<1> DEFINE l == Len(q)
           m == n * l
<1>1. l \in Nat /\ m \in Nat
  OBVIOUS
<1>2. ASSUME NEW i \in 1 .. m PROVE q[1 + ((i - 1) % l)] \in S
  <2>1. l # 0
    BY <1>1, <1>2
  <2>2. (i - 1) % l \in 0 .. l - 1
    BY <1>1, <2>1
  <2>3. QED  BY <2>2
<1> HIDE DEF m
<1>3. [i \in 1 .. m |-> q[1 + ((i - 1) % l)]] \in Seq(S)
  BY <1>1, <1>2
<1>4. QED  BY <1>3 DEF Times, m

-----------------------------------------------------------------------------
(* The programs *)

\* Calls that fit anywhere.
LEMMA CallsFit ==
  ASSUME NEW prog, NEW s \in TestSem \ RoundSems
  PROVE  /\ P(s) \in Seq(Fitting(prog)) /\ V(s) \in Seq(Fitting(prog))
         /\ IsValue(s, 0) \in Seq(Fitting(prog)) /\ IsValue(s, 3) \in Seq(Fitting(prog))
BY CallFits DEF RoundSems, Waits

\* p1 before its last part, whose instructions would fit any program.
LEMMA test_semaphoresFits == ASSUME NEW prog PROVE test_semaphores \in Seq(Fitting(prog))
<1>1. /\ P("testsem") \in Seq(Fitting(prog)) /\ V("testsem") \in Seq(Fitting(prog))
      /\ IsValue("testsem", 0) \in Seq(Fitting(prog))
      /\ IsValue("testsem", 3) \in Seq(Fitting(prog))
  BY CallsFit DEF TestSem, RoundSems
<1>2. /\ Times(3, P("testsem")) \in Seq(Fitting(prog))
      /\ Times(3, V("testsem")) \in Seq(Fitting(prog))
  BY <1>1, TimesFits
<1>3. QED  BY <1>1, <1>2, print_Fits, Both DEF test_semaphores

\* The middle of p1, which would fit any program, too.
LEMMA test_processesFits == ASSUME NEW prog PROVE test_processes \in Seq(Fitting(prog))
<1> DEFINE F == Seq(Fitting(prog))
<1>1. /\ V("startp2") \in F /\ P("endp2") \in F /\ P("endp3") \in F
      /\ P("endp5") \in F /\ P("blkp4") \in F
  BY CallsFit DEF TestSem, RoundSems
<1>2. \A q \in {"p2", "p3", "p4", "p6", "p7", "p9"} : Start(q) \in F
  BY StartFits, ProgsAre DEF Children, Leaves
<1>3. /\ Create("hp_p1", 10, NULL) \in F
      /\ Create("hp_p2", PROCESS_PRIO_HIGH, NULL) \in F
      /\ Create("p5", PROCESS_PRIO_LOW, "pFiveSupport") \in F
  <2>1. {10, PROCESS_PRIO_HIGH, PROCESS_PRIO_LOW} \subseteq Prio
    BY Constants DEF PROCESS_PRIO_HIGH, PROCESS_PRIO_LOW
  <2>2. {NULL, "pFiveSupport"} \subseteq Supports \cup {NULL}
    BY Constants
  <2>3. QED  BY <2>1, <2>2, CreateFits, ProgsAre DEF Children, Leaves
<1>4. /\ Store("p2pid") \in F /\ Store("p3pid") \in F /\ Store("p4pid") \in F
      /\ Store("p9pid") \in F /\ IsSet("p1p2synch") \in F
  BY VariableFits DEF Variable
<1>5. print \in F
  BY print_Fits
<1> DEFINE a == Start("p2") \o Store("p2pid") \o print \o V("startp2") \o P("endp2")
                  \o IsSet("p1p2synch")
           b == a \o Start("p3") \o Store("p3pid") \o print \o P("endp3")
           c == b \o Create("hp_p1", 10, NULL) \o Create("hp_p2", PROCESS_PRIO_HIGH, NULL)
                  \o Start("p4") \o Store("p4pid")
           d == c \o Create("p5", PROCESS_PRIO_LOW, "pFiveSupport")
                  \o Start("p6") \o Start("p7") \o Start("p9")
<1>6. a \in F
  BY <1>1, <1>2, <1>4, <1>5, Both
<1> HIDE DEF a
<1>7. b \in F
  BY <1>1, <1>2, <1>4, <1>5, <1>6, Both
<1> HIDE DEF b
<1>8. c \in F
  BY <1>2, <1>3, <1>4, <1>7, Both
<1> HIDE DEF c
<1>9. d \in F
  BY <1>2, <1>3, <1>8, Both
<1> HIDE DEF d
<1>10. test_processes = d \o Store("p9pid") \o P("endp5") \o print \o P("blkp4")
  BY DEF test_processes, a, b, c, d
<1>11. QED  BY <1>1, <1>4, <1>5, <1>9, <1>10, Both

\* p2, p3 and p4.
LEMMA FitsFirst ==
  /\ p2 \in Seq(Fitting("p2")) /\ p3 \in Seq(Fitting("p3")) /\ p4 \in Seq(Fitting("p4"))
<1>1. \A prog : \A s \in {"startp2", "s", "endp2", "endp3", "synp4", "blkp4", "endp4"} :
         /\ P(s) \in Seq(Fitting(prog)) /\ V(s) \in Seq(Fitting(prog))
         /\ IsValue(s, 0) \in Seq(Fitting(prog))
  BY CallsFit DEF TestSem, RoundSems
<1>2. \A prog : \A v \in {"p2pid", "p3pid", "p4pid", "p1p2synch"} :
         /\ Store(v) \in Seq(Fitting(prog)) /\ Set(v) \in Seq(Fitting(prog))
         /\ IsSelf(v) \in Seq(Fitting(prog))
  BY VariableFits DEF Variable
<1>3. \A prog : print \in Seq(Fitting(prog))
  BY print_Fits
<1>4. Start("p4") \in Seq(Fitting("p4"))
  BY StartFits, ProgsAre DEF Children, Leaves
<1>5. p2 \in Seq(Fitting("p2"))
  <2> DEFINE a == P("startp2") \o print \o IsSelf("p2pid")
                    \o V("s") \o P("s") \o IsValue("s", 0)
  <2>1. a \in Seq(Fitting("p2"))
    BY <1>1, <1>2, <1>3, Both
  <2>2. p2 = a \o print \o print \o Set("p1p2synch") \o V("endp2") \o Term
    BY DEF p2
  <2> HIDE DEF a
  <2>3. QED  BY <1>1, <1>2, <1>3, <2>1, <2>2, PlainFits, Both
<1>6. p3 \in Seq(Fitting("p3"))
  <2> DEFINE a == Clock \o Clock \o print \o Clock \o print
  <2>1. a \in Seq(Fitting("p3"))
    BY <1>3, PlainFits, Both
  <2>2. p3 = a \o IsSelf("p3pid") \o V("endp3") \o Term
    BY DEF p3
  <2> HIDE DEF a
  <2>3. QED  BY <1>1, <1>2, <2>1, <2>2, PlainFits, Both
<1>7. p4 \in Seq(Fitting("p4"))
  <2> DEFINE a == print \o IsSelf("p4pid") \o V("synp4") \o P("blkp4") \o P("synp4")
  <2>1. a \in Seq(Fitting("p4"))
    BY <1>1, <1>2, <1>3, Both
  <2>2. p4 = a \o Start("p4") \o Store("p4pid") \o P("synp4") \o print \o V("endp4") \o Term
    BY DEF p4
  <2> HIDE DEF a
  <2>3. QED  BY <1>1, <1>2, <1>3, <1>4, <2>1, <2>2, PlainFits, Both
<1>8. QED  BY <1>5, <1>6, <1>7

\* p5 and its handlers.
LEMMA FitsFive ==
  /\ \A prog \in {"p5gen_bus", "p5gen_addr", "p5gen_sys", "p5a", "p5mm", "p5b_user", "p5b",
                   "p5b_rest", "p5"} : Code[prog] \in Seq(Fitting(prog))
<1> DEFINE five == {"p5", "p5gen_bus", "p5gen_addr", "p5gen_sys", "p5a", "p5mm", "p5b_user",
                    "p5b", "p5b_rest"}
<1>1. five \subseteq Progs /\ five \cap (Tree8 \cup {"test"}) = {}
  BY ProgsAre DEF Tree8, Children, Leaves
<1>2. \A prog \in five : \A H \in SUBSET five : Trap(H) \in Seq(Fitting(prog))
  <2> SUFFICES ASSUME NEW prog \in five, NEW H \in SUBSET five
              PROVE  Trap(H) \in Seq(Fitting(prog))
    OBVIOUS
  <2> HIDE DEF five
  <2>1. QED  BY <1>1, TrapFits
<1>3. \A prog \in five : \A q \in five : Return_to(q) \in Seq(Fitting(prog))
  <2> SUFFICES ASSUME NEW prog \in five, NEW q \in five
              PROVE  Return_to(q) \in Seq(Fitting(prog))
    OBVIOUS
  <2> HIDE DEF five
  <2>1. {prog, q} \cap (Tree8 \cup {"test"}) = {}
    BY <1>1
  <2>2. QED  BY <1>1, <2>1, ReturnFits
<1>4. \A prog : print \in Seq(Fitting(prog))
  BY print_Fits
<1>5. /\ {"p5gen_bus", "p5gen_addr"} \subseteq five /\ {"p5mm"} \subseteq five
      /\ {"p5gen_addr"} \subseteq five /\ {"p5gen_sys"} \subseteq five
  OBVIOUS
<1>6. p5 \in Seq(Fitting("p5"))
  BY <1>2, <1>4, <1>5, Both DEF p5
<1>7. /\ p5gen_bus \in Seq(Fitting("p5gen_bus")) /\ p5gen_addr \in Seq(Fitting("p5gen_addr"))
      /\ p5gen_sys \in Seq(Fitting("p5gen_sys"))
  BY <1>3, <1>4, Both DEF p5gen_bus, p5gen_addr, p5gen_sys
<1>8. /\ p5a \in Seq(Fitting("p5a")) /\ p5b_user \in Seq(Fitting("p5b_user"))
      /\ p5b \in Seq(Fitting("p5b"))
  BY <1>2, <1>5 DEF p5a, p5b_user, p5b
<1>9. p5mm \in Seq(Fitting("p5mm"))
  <2>1. IsSupport("pFiveSupport") \in Seq(Fitting("p5mm"))
    BY PlainFits
  <2>2. QED  BY <1>3, <1>4, <2>1, Both DEF p5mm
<1>10. p5b_rest \in Seq(Fitting("p5b_rest"))
  <2>1. /\ P("endp4") \in Seq(Fitting("p5b_rest")) /\ V("blkp4") \in Seq(Fitting("p5b_rest"))
        /\ V("endp5") \in Seq(Fitting("p5b_rest"))
    BY CallsFit DEF TestSem, RoundSems
  <2>2. QED  BY <2>1, PlainFits, Both DEF p5b_rest
<1>11. QED  BY <1>6, <1>7, <1>8, <1>9, <1>10 DEF Code

\* p6, p7, p9, p10 and those of high priority.
LEMMA FitsOther ==
  /\ p6 \in Seq(Fitting("p6")) /\ p7 \in Seq(Fitting("p7"))
  /\ p9 \in Seq(Fitting("p9")) /\ p10 \in Seq(Fitting("p10"))
  /\ hp_p1 \in Seq(Fitting("hp_p1")) /\ hp_p2 \in Seq(Fitting("hp_p2"))
<1>1. \A prog : print \in Seq(Fitting(prog))
  BY print_Fits
<1>2. \A prog : Trap({}) \in Seq(Fitting(prog))
  BY TrapFits
<1>3. Start("p10") \in Seq(Fitting("p9"))
  BY StartFits, ProgsAre DEF Children, Leaves
<1>4. P("blkp9") \in Seq(Fitting("p9"))
  BY CallsFit DEF TestSem, RoundSems
<1>5. IsParent("p9pid") \in Seq(Fitting("p10"))
  BY VariableFits DEF Variable
<1>6. p9 \in Seq(Fitting("p9")) /\ p10 \in Seq(Fitting("p10"))
  BY <1>1, <1>3, <1>4, <1>5, PlainFits, Both DEF p9, p10
<1>7. hp_p1 \in Seq(Fitting("hp_p1"))
  BY <1>1, Constants, TimesFits, PlainFits, Both DEF hp_p1
<1>8. hp_p2 \in Seq(Fitting("hp_p2"))
  BY <1>1, PlainFits, Both DEF hp_p2
<1>9. QED  BY <1>1, <1>2, <1>6, <1>7, <1>8, Both DEF p6, p7

\* The processes of the tree of p8.
LEMMA FitsTree ==
  /\ p8root \in Seq(Fitting("p8root"))
  /\ child("leaf1", "leaf2") \in Seq(Fitting("child1"))
  /\ child("leaf3", "leaf4") \in Seq(Fitting("child2"))
  /\ \A prog \in Leaves : \A i \in 1 .. 4 : p8leaf(i) \in Seq(Fitting(prog))
<1>1. \A prog : print \in Seq(Fitting(prog))
  BY print_Fits
<1>2. \A i \in 1 .. 4 : EndCreate[i] \in TestSem /\ EndCreate[i] # "endp8"
  BY DEF EndCreate, TestSem
<1>3. \A i \in 1 .. 4 : P(EndCreate[i]) \in Seq(Fitting("p8root"))
  <2>1. \A i \in 1 .. 4 : Waits("p8root", EndCreate[i])
    BY DEF Waits, EndCreate
  <2>2. QED  BY <1>2, <2>1, CallFits
<1>4. \A prog : \A i \in 1 .. 4 : V(EndCreate[i]) \in Seq(Fitting(prog))
  BY <1>2, CallFits
<1>5. \A prog \in Children \cup Leaves : P("blkp8") \in Seq(Fitting(prog))
  BY CallFits DEF TestSem, RoundSems, Waits
<1>6. V("endp8") \in Seq(Fitting("p8root"))
  BY CallFits DEF TestSem
<1>7. p8root \in Seq(Fitting("p8root"))
  <2> DEFINE a == print \o Start("child1") \o Start("child2")
  <2>1. Start("child1") \in Seq(Fitting("p8root")) /\ Start("child2") \in Seq(Fitting("p8root"))
    BY StartFits, ProgsAre DEF Children, Leaves
  <2>2. a \in Seq(Fitting("p8root"))
    BY <1>1, <2>1, Both
  <2>3. p8root = a \o P(EndCreate[1]) \o P(EndCreate[2]) \o P(EndCreate[3])
                   \o P(EndCreate[4]) \o V("endp8") \o Term
    BY DEF p8root
  <2> HIDE DEF a
  <2>4. QED  BY <1>3, <1>6, <2>2, <2>3, PlainFits, Both
<1>8. ASSUME NEW prog \in Children, NEW l1 \in Leaves, NEW l2 \in Leaves
      PROVE  child(l1, l2) \in Seq(Fitting(prog))
  <2>1. \A l \in Leaves : Start(l) \in Seq(Fitting(prog))
    <3> SUFFICES ASSUME NEW l \in Leaves PROVE Start(l) \in Seq(Fitting(prog))
      OBVIOUS
    <3>1. l \in Progs /\ l \notin {"test", "p8root"} /\ l \notin Children
      BY ProgsAre DEF Leaves, Children
    <3>2. QED  BY <3>1, StartFits
  <2>2. IsParent("p8pid") \in Seq(Fitting(prog))
    BY VariableFits DEF Variable
  <2>3. P("blkp8") \in Seq(Fitting(prog))
    BY <1>5
  <2>4. QED  BY <1>1, <2>1, <2>2, <2>3, Both DEF child
<1>9. ASSUME NEW prog \in Leaves, NEW i \in 1 .. 4 PROVE p8leaf(i) \in Seq(Fitting(prog))
  <2>1. P("blkp8") \in Seq(Fitting(prog))
    BY <1>5
  <2>2. QED  BY <1>1, <1>4, <2>1, Both DEF p8leaf
<1>10. QED  BY <1>7, <1>8, <1>9 DEF Children, Leaves

\* A sequence with one more.
LEMMA AddOne == 
  ASSUME NEW S, NEW a \in Seq(S), NEW b \in Seq(S), Len(b) = 1
  PROVE  LET s == a \o b
         IN  /\ s \in Seq(S) /\ Len(s) = Len(a) + 1 /\ s[Len(a) + 1] = b[1]
             /\ \A k \in 1 .. Len(a) : s[k] = a[k]
<1> DEFINE s == a \o b
<1>1. /\ s \in Seq(S) /\ Len(s) = Len(a) + Len(b)
      /\ \A k \in 1 .. Len(a) + Len(b) : s[k] = IF k <= Len(a) THEN a[k] ELSE b[k - Len(a)]
  BY ConcatFacts
<1> HIDE DEF s
<1>2. Len(a) \in Nat
  OBVIOUS
<1>3. /\ s \in Seq(S) /\ Len(s) = Len(a) + 1 /\ s[Len(a) + 1] = b[1]
      /\ \A k \in 1 .. Len(a) : s[k] = a[k]
  BY <1>1, <1>2
<1>4. QED BY <1>3 DEF s

\* One round, and which four instructions it has.
LEMMA test_p8Fits ==
  /\ test_p8 \in Seq(Fitting("test")) /\ Len(test_p8) = 4
  /\ test_p8[1].op = "reset" /\ test_p8[2] = Start("p8root")[1]
  /\ test_p8[3].op = "store" /\ test_p8[4] = P("endp8")[1]
<1>1. Reset({"blkp8", "endp8"} \cup ToSet(EndCreate)) = Reset(RoundSems)
  <2>1. ToSet(EndCreate) = {"endcreate1", "endcreate2", "endcreate3", "endcreate4"}
    BY DEF ToSet, EndCreate
  <2>2. QED  BY <2>1 DEF RoundSems
<1>2. /\ Start("p8root") \in Seq(Fitting("test")) /\ Store("p8pid") \in Seq(Fitting("test"))
      /\ P("endp8") \in Seq(Fitting("test"))
  BY StartFits, VariableFits, CallFits, ProgsAre
     DEF Children, Leaves, Variable, TestSem, RoundSems, Waits
<1>3. test_p8 = Reset(RoundSems) \o Start("p8root") \o Store("p8pid") \o P("endp8")
  BY <1>1 DEF test_p8
<1>4. test_p8 \in Seq(Fitting("test"))
  BY <1>2, <1>3, ResetFits, Both
<1>5. /\ Len(test_p8) = 4
      /\ test_p8[1] = Reset(RoundSems)[1] /\ test_p8[2] = Start("p8root")[1]
      /\ test_p8[3] = Store("p8pid")[1] /\ test_p8[4] = P("endp8")[1]
  <2> DEFINE S == Fitting("test")
             a == Reset(RoundSems)
             b == Start("p8root")
             c == Store("p8pid")
             d == P("endp8")
  <2>1. Len(a) = 1 /\ Len(b) = 1 /\ Len(c) = 1 /\ Len(d) = 1
    BY DEF Reset, Start, Create, Store, P
  <2>2. a \in Seq(S) /\ b \in Seq(S) /\ c \in Seq(S) /\ d \in Seq(S)
    BY <1>2, ResetFits
  <2> DEFINE u == a \o b
             v == u \o c
  <2>3. test_p8 = v \o d
    BY <1>3
  <2> HIDE DEF S, a, b, c, d
  <2>4. /\ u \in Seq(S) /\ Len(u) = Len(a) + 1 /\ u[Len(a) + 1] = b[1]
        /\ \A k \in 1 .. Len(a) : u[k] = a[k]
    BY <2>1, <2>2, AddOne
  <2> HIDE DEF u
  <2>5. /\ v \in Seq(S) /\ Len(v) = Len(u) + 1 /\ v[Len(u) + 1] = c[1]
        /\ \A k \in 1 .. Len(u) : v[k] = u[k]
    <3>1. u \in Seq(S)
      BY <2>4
    <3>2. QED  BY <2>1, <2>2, <3>1, AddOne
  <2> HIDE DEF v
  <2>6. /\ Len(test_p8) = Len(v) + 1 /\ test_p8[Len(v) + 1] = d[1]
        /\ \A k \in 1 .. Len(v) : test_p8[k] = v[k]
    <3>1. v \in Seq(S)
      BY <2>5
    <3>2. QED  BY <2>1, <2>2, <2>3, <3>1, AddOne
  <2>7. /\ Len(test_p8) = 4
        /\ test_p8[1] = a[1] /\ test_p8[2] = b[1] /\ test_p8[3] = c[1] /\ test_p8[4] = d[1]
    BY <2>1, <2>4, <2>5, <2>6
  <2>8. QED  BY <2>7 DEF a, b, c, d
<1>6. Reset(RoundSems)[1].op = "reset" /\ Store("p8pid")[1].op = "store"
  BY DEF Reset, Store
<1>7. QED  BY <1>4, <1>5, <1>6

\* All of p1.
LEMMA testFits == test \in Seq(Fitting("test"))
<1>1. Times(Rounds, test_p8) \in Seq(Fitting("test"))
  BY test_p8Fits, TimesFits, Constants
<1>2. Trap({}) \in Seq(Fitting("test"))
  BY TrapFits
<1>3. QED
  BY <1>1, <1>2, test_semaphoresFits, test_processesFits, print_Fits, Both DEF test

\* Every instruction of the test fits the program that it is in.
LEMMA Programs == \A prog \in Progs : Code[prog] \in Seq(Fitting(prog))
<1>1. /\ Code["p2"] \in Seq(Fitting("p2")) /\ Code["p3"] \in Seq(Fitting("p3"))
      /\ Code["p4"] \in Seq(Fitting("p4")) /\ Code["test"] \in Seq(Fitting("test"))
  BY FitsFirst, testFits DEF Code
<1>2. /\ Code["p6"] \in Seq(Fitting("p6")) /\ Code["p7"] \in Seq(Fitting("p7"))
      /\ Code["p9"] \in Seq(Fitting("p9")) /\ Code["p10"] \in Seq(Fitting("p10"))
      /\ Code["hp_p1"] \in Seq(Fitting("hp_p1")) /\ Code["hp_p2"] \in Seq(Fitting("hp_p2"))
  BY FitsOther DEF Code
<1>3. /\ Code["p8root"] \in Seq(Fitting("p8root"))
      /\ Code["child1"] \in Seq(Fitting("child1")) /\ Code["child2"] \in Seq(Fitting("child2"))
  BY FitsTree DEF Code
<1>4. \A l \in Leaves : \A i \in 1 .. 4 : p8leaf(i) \in Seq(Fitting(l))
  BY FitsTree
<1>5. /\ Code["leaf1"] = p8leaf(1) /\ Code["leaf2"] = p8leaf(2)
      /\ Code["leaf3"] = p8leaf(3) /\ Code["leaf4"] = p8leaf(4)
  BY DEF Code
<1>6. /\ Code["leaf1"] \in Seq(Fitting("leaf1")) /\ Code["leaf2"] \in Seq(Fitting("leaf2"))
      /\ Code["leaf3"] \in Seq(Fitting("leaf3")) /\ Code["leaf4"] \in Seq(Fitting("leaf4"))
  BY <1>4, <1>5 DEF Leaves
<1>7. QED  BY <1>1, <1>2, <1>3, <1>6, FitsFive, ProgsAre

-----------------------------------------------------------------------------
(* The rounds of p8 *)

\* Starts a tree of p8.
Opens(i) == i.op = "create" /\ i.prog = "p8root"

\* Where the rounds are in test.
LEMMA Parts ==
  \E pre \in Seq(Fitting("none")), tail \in Seq(Fitting("none")) :
    /\ DOMAIN test = 1 .. Len(pre) + 4 * Rounds + Len(tail)
    /\ \A i \in 1 .. Len(pre) : test[i] = pre[i]
    /\ \A i \in 1 .. 4 * Rounds : test[Len(pre) + i] = test_p8[1 + ((i - 1) % 4)]
    /\ \A i \in 1 .. Len(tail) : test[Len(pre) + 4 * Rounds + i] = tail[i]
<1> DEFINE S == Seq(Fitting("none"))
           pre == test_semaphores \o test_processes
           rounds == Times(Rounds, test_p8)
           tail == print \o Trap({})
<1>1. pre \in S
  BY test_semaphoresFits, test_processesFits, Both
<1>2. tail \in S
  <2>1. print \in S /\ Trap({}) \in S
    BY print_Fits, TrapFits
  <2>2. QED  BY <2>1, Both
<1>3. /\ rounds \in Seq(Fitting("test")) /\ Len(rounds) = 4 * Rounds
      /\ \A i \in 1 .. 4 * Rounds : rounds[i] = test_p8[1 + ((i - 1) % 4)]
  <2>1. rounds \in Seq(Fitting("test"))
    BY test_p8Fits, TimesFits, Constants
  <2>2. rounds = [i \in 1 .. 4 * Rounds |-> test_p8[1 + ((i - 1) % 4)]]
    BY test_p8Fits, Constants DEF Times
  <2> HIDE DEF rounds
  <2>3. 4 * Rounds \in Nat
    BY Constants
  <2>4. QED  BY <2>1, <2>2, <2>3
<1>4. test = (pre \o rounds) \o tail
  <2> DEFINE T == Seq(Fitting("test"))
             r == rounds
             t == Trap({})
             u == pre \o r
  <2>1. u \in T /\ print \in T /\ t \in T
    BY <1>3, test_semaphoresFits, test_processesFits, print_Fits, TrapFits, Both
  <2>2. test = u \o print \o t
    BY DEF test
  <2> HIDE DEF u, t
  <2>3. (u \o print) \o t = u \o (print \o t)
    BY <2>1
  <2>4. QED  BY <2>2, <2>3 DEF u, t
<1> HIDE DEF pre, rounds, tail
<1> DEFINE F == Fitting("none") \cup Fitting("test")
           n == Len(pre)
           m == 4 * Rounds
           l == Len(tail)
<1>5. /\ n \in Nat /\ m \in Nat /\ l \in Nat
      /\ pre \in Seq(F) /\ rounds \in Seq(F) /\ tail \in Seq(F)
  BY <1>1, <1>2, <1>3, Constants
<1> DEFINE u == pre \o rounds
<1>6. /\ u \in Seq(F) /\ Len(u) = n + m
      /\ \A i \in 1 .. n + m : u[i] = IF i <= n THEN pre[i] ELSE rounds[i - n]
  <2>1. Len(rounds) = m
    BY <1>3
  <2>2. QED  BY <1>5, <2>1, ConcatFacts
<1>7. test = u \o tail
  BY <1>4
<1> HIDE DEF u
<1>8. /\ Len(test) = Len(u) + Len(tail) /\ test \in Seq(F)
      /\ \A i \in 1 .. Len(u) + Len(tail) :
            test[i] = IF i <= Len(u) THEN u[i] ELSE tail[i - Len(u)]
  <2>1. /\ u \o tail \in Seq(F) /\ Len(u \o tail) = Len(u) + Len(tail)
        /\ \A i \in 1 .. Len(u) + Len(tail) :
              (u \o tail)[i] = IF i <= Len(u) THEN u[i] ELSE tail[i - Len(u)]
    BY <1>5, <1>6, ConcatFacts, Zenon
  <2>2. QED  BY <1>7, <2>1, Zenon
<1>9. Len(u) = n + m /\ Len(tail) = l
  BY <1>6
<1> HIDE DEF n, m, l, F
<1>10. /\ Len(test) = n + m + l /\ test \in Seq(F)
      /\ \A i \in 1 .. n + m + l :
            test[i] = IF i <= n + m THEN u[i] ELSE tail[i - (n + m)]
  BY <1>8, <1>9
<1>11. ASSUME NEW i \in 1 .. n + m PROVE i \in 1 .. n + m + l /\ test[i] = u[i]
  <2>1. i \in 1 .. n + m + l /\ i <= n + m
    BY <1>5
  <2>2. QED  BY <1>10, <2>1
<1>12. \A i \in 1 .. n : test[i] = pre[i]
  <2> TAKE i \in 1 .. n
  <2>1. i \in 1 .. n + m /\ i <= n
    BY <1>5
  <2>2. QED  BY <1>6, <1>11, <2>1
<1>13. \A i \in 1 .. m : test[n + i] = rounds[i]
  <2> TAKE i \in 1 .. m
  <2>1. PICK j : j = n + i
    OBVIOUS
  <2>2. j \in 1 .. n + m /\ ~(j <= n) /\ j - n = i
    BY <1>5, <2>1
  <2>3. test[j] = u[j]
    BY <1>11, <2>2
  <2>4. u[j] = rounds[j - n]
    BY <1>6, <2>2
  <2>5. QED  BY <2>1, <2>2, <2>3, <2>4
<1>14. \A i \in 1 .. l : test[n + m + i] = tail[i]
  <2> TAKE i \in 1 .. l
  <2>1. PICK j : j = n + m + i
    OBVIOUS
  <2>2. j \in 1 .. n + m + l /\ ~(j <= n + m) /\ j - (n + m) = i
    BY <1>5, <2>1
  <2>3. test[j] = tail[j - (n + m)]
    BY <1>10, <2>2
  <2>4. QED  BY <2>1, <2>2, <2>3
<1>15. DOMAIN test = 1 .. n + m + l
  BY <1>10
<1>16. \A i \in 1 .. m : test[n + i] = test_p8[1 + ((i - 1) % 4)]
  BY <1>3, <1>13 DEF m
<1>17. QED  BY <1>1, <1>2, <1>12, <1>14, <1>15, <1>16 DEF n, m, l

\* What p1 does around the start of a tree: it resets the semaphores before, and
\* waits for the tree after it has stored its pid.
LEMMA Surroundings ==
  ASSUME NEW i \in DOMAIN test, Opens(test[i])
  PROVE  /\ i - 1 \in DOMAIN test /\ test[i - 1].op = "reset"
         /\ i + 1 \in DOMAIN test /\ test[i + 1].op = "store"
         /\ i + 2 \in DOMAIN test /\ test[i + 2] = P("endp8")[1]
<1>1. PICK pre \in Seq(Fitting("none")), tail \in Seq(Fitting("none")) :
        /\ DOMAIN test = 1 .. Len(pre) + 4 * Rounds + Len(tail)
        /\ \A k \in 1 .. Len(pre) : test[k] = pre[k]
        /\ \A k \in 1 .. 4 * Rounds : test[Len(pre) + k] = test_p8[1 + ((k - 1) % 4)]
        /\ \A k \in 1 .. Len(tail) : test[Len(pre) + 4 * Rounds + k] = tail[k]
  BY Parts
<1> DEFINE n == Len(pre)
           m == 4 * Rounds
           l == Len(tail)
<1>2. n \in Nat /\ Rounds \in Nat /\ m \in Nat /\ l \in Nat
  BY Constants
<1>3. /\ \A k \in 1 .. n : ~Opens(pre[k])
      /\ \A k \in 1 .. l : ~Opens(tail[k])
  BY DEF Fitting, Fits, Opens
<1>4. i \in 1 .. n + m + l
  BY <1>1
<1>5. i > n
  BY <1>1, <1>3, <1>4
<1>6. i <= n + m
  <2> SUFFICES ASSUME ~(i <= n + m) PROVE FALSE
    OBVIOUS
  <2>1. PICK k : k = i - (n + m)
    OBVIOUS
  <2>2. k \in 1 .. l /\ i = n + m + k
    BY <1>2, <1>4, <2>1
  <2>3. test[i] = tail[k]
    BY <1>1, <2>2
  <2>4. QED  BY <1>3, <2>2, <2>3
<1>7. PICK j \in 1 .. m : i = n + j
  <2>1. i - n \in 1 .. m /\ i = n + (i - n)
    BY <1>2, <1>4, <1>5, <1>6
  <2>2. QED  BY <2>1
<1>8. \A k \in 1 .. m : n + k \in DOMAIN test /\ test[n + k] = test_p8[1 + ((k - 1) % 4)]
  BY <1>1, <1>2
<1> HIDE DEF n, m, l
<1>9. (j - 1) % 4 = 1
  <2>1. (j - 1) % 4 \in 0 .. 3
    BY <1>2, <1>7
  <2>2. Opens(test_p8[1 + ((j - 1) % 4)])
    BY <1>7, <1>8
  <2>3. test_p8[1].op = "reset" /\ test_p8[3].op = "store" /\ test_p8[4].op = "passeren"
    BY test_p8Fits DEF P
  <2>4. QED  BY <2>1, <2>2, <2>3 DEF Opens
<1>10. /\ j - 1 \in 1 .. m /\ (j - 1 - 1) % 4 = 0
       /\ j + 1 \in 1 .. m /\ (j + 1 - 1) % 4 = 2
       /\ j + 2 \in 1 .. m /\ (j + 2 - 1) % 4 = 3
  BY <1>2, <1>7, <1>9 DEF m
<1>11. /\ test[n + (j - 1)] = test_p8[1] /\ n + (j - 1) \in DOMAIN test
       /\ test[n + (j + 1)] = test_p8[3] /\ n + (j + 1) \in DOMAIN test
       /\ test[n + (j + 2)] = test_p8[4] /\ n + (j + 2) \in DOMAIN test
  BY <1>8, <1>10
<1>12. n + (j - 1) = i - 1 /\ n + (j + 1) = i + 1 /\ n + (j + 2) = i + 2
  BY <1>2, <1>7
<1>13. QED  BY <1>11, <1>12, test_p8Fits

\* The root of a tree ends right after its V on sem_endp8, and only there.
LEMMA LastOfRoot ==
  ASSUME NEW i \in DOMAIN p8root
  PROVE  /\ p8root[i] = V("endp8")[1] =>
               i + 1 \in DOMAIN p8root /\ p8root[i + 1].op = "terminate"
         /\ p8root[i].op = "terminate" =>
               i - 1 \in DOMAIN p8root /\ p8root[i - 1] = V("endp8")[1]
<1> DEFINE S == Instructions
           end == V("endp8")
           Q == {x \in S : x # end[1] /\ x.op # "terminate"}
           start == print \o Start("child1") \o Start("child2")
           a == start \o P(EndCreate[1]) \o P(EndCreate[2]) \o P(EndCreate[3]) \o P(EndCreate[4])
           b == a \o end
<1>1. end \in Seq(S) /\ Len(end) = 1 /\ end[1].op = "verhogen" /\ end[1].sem = "endp8"
  <2>1. end \in Seq(Fitting("p8root"))
    BY CallFits DEF TestSem
  <2>2. QED  BY <2>1 DEF V, Fitting
<1>2. Term \in Seq(S) /\ Len(Term) = 1 /\ Term[1].op = "terminate"
  <2>1. Term \in Seq(Fitting("none"))
    BY PlainFits
  <2>2. Fitting("none") \subseteq S
    BY DEF Fitting
  <2>3. Len(Term) = 1 /\ Term[1].op = "terminate"
    BY DEF Term
  <2> HIDE DEF S
  <2>4. QED  BY <2>1, <2>2, <2>3
<1>3. print \in Seq(Q)
  <2> DEFINE p == [op |-> "passeren", sem |-> "term_mut"]
             v == [op |-> "verhogen", sem |-> "term_mut"]
             d == [op |-> "doio"]
  <2>1. "term_mut" \in UserSem
    BY Constants DEF TestSem
  <2>2. p \in S /\ v \in S /\ d \in S
    BY <2>1 DEF Instructions
  <2>3. p \in Q /\ v \in Q /\ d \in Q
    BY <1>1, <2>2
  <2>4. P("term_mut") = <<p>> /\ V("term_mut") = <<v>> /\ DoTerminal = <<d>>
    BY DEF P, V, DoTerminal
  <2> HIDE DEF Q, p, v, d
  <2>5. QED  BY <2>3, <2>4, Single, Both DEF print
<1>4. Start("child1") \in Seq(Q) /\ Start("child2") \in Seq(Q)
  <2>1. \A q \in {"child1", "child2"} : Start(q) \in Seq(Fitting("p8root"))
    BY StartFits, ProgsAre DEF Children, Leaves
  <2>2. \A q \in {"child1", "child2"} : Len(Start(q)) = 1 /\ Start(q)[1].op = "create"
    BY DEF Start, Create
  <2>3. \A q \in {"child1", "child2"} : Start(q)[1] \in Q
    BY <1>1, <2>1, <2>2 DEF Fitting
  <2>4. \A q \in {"child1", "child2"} : Start(q) = <<Start(q)[1]>>
    BY DEF Start, Create
  <2> HIDE DEF Q
  <2>5. QED  BY <2>3, <2>4, Single
<1>5. \A k \in 1 .. 4 : P(EndCreate[k]) \in Seq(Q)
  <2>1. \A k \in 1 .. 4 : EndCreate[k] \in TestSem
    BY DEF EndCreate, TestSem
  <2>2. \A k \in 1 .. 4 : P(EndCreate[k])[1] \in Q
    <3> TAKE k \in 1 .. 4
    <3>1. PICK s \in UserSem : s = EndCreate[k]
      BY <2>1, Constants
    <3> DEFINE p == [op |-> "passeren", sem |-> s]
    <3>2. P(EndCreate[k])[1] = p
      BY <3>1 DEF P
    <3>3. p \in Instructions /\ p.op = "passeren"
      BY DEF Instructions
    <3> HIDE DEF p
    <3>4. QED  BY <1>1, <3>2, <3>3
  <2>3. \A k \in 1 .. 4 : P(EndCreate[k]) = <<P(EndCreate[k])[1]>>
    BY DEF P
  <2> HIDE DEF Q
  <2>4. QED  BY <2>2, <2>3, Single
<1>6. a \in Seq(Q)
  <2>1. start \in Seq(Q)
    <3> HIDE DEF Q
    <3>1. QED  BY <1>3, <1>4, Both
  <2> HIDE DEF Q, start
  <2>2. QED  BY <1>5, <2>1, Both
<1>7. a \in Seq(S) /\ \A k \in 1 .. Len(a) : a[k] # end[1] /\ a[k].op # "terminate"
  <2> HIDE DEF a, S
  <2>1. QED  BY <1>6
<1>8. p8root = b \o Term
  BY DEF p8root
<1> HIDE DEF S, Q, start, a, end
<1>9. /\ b \in Seq(S) /\ Len(b) = Len(a) + 1 /\ b[Len(a) + 1] = end[1]
      /\ \A k \in 1 .. Len(a) : b[k] = a[k]
  <2>1. a \in Seq(S)
    BY <1>7
  <2>2. QED  BY <1>1, <2>1, AddOne
<1> HIDE DEF b
<1>10. /\ p8root \in Seq(S) /\ Len(p8root) = Len(b) + 1 /\ p8root[Len(b) + 1] = Term[1]
       /\ \A k \in 1 .. Len(b) : p8root[k] = b[k]
  <2>1. b \in Seq(S)
    BY <1>9
  <2>2. QED  BY <1>2, <1>8, <2>1, AddOne
<1>11. Term[1] # end[1] /\ end[1].op # "terminate"
  BY <1>1, <1>2
<1>12. i \in 1 .. Len(a) + 2 /\ Len(a) \in Nat
  BY <1>7, <1>9, <1>10
<1>13. i \in 1 .. Len(a) => p8root[i] # end[1] /\ p8root[i].op # "terminate"
  BY <1>7, <1>9, <1>10, <1>12
<1>14. /\ p8root[Len(a) + 1] = end[1] /\ Len(a) + 1 \in DOMAIN p8root
       /\ p8root[Len(a) + 2] = Term[1] /\ Len(a) + 2 \in DOMAIN p8root
  BY <1>9, <1>10, <1>12
<1>15. CASE i \in 1 .. Len(a)
  BY <1>13, <1>15 DEF end
<1>16. CASE i = Len(a) + 1
  <2>1. i + 1 = Len(a) + 2
    BY <1>12, <1>16
  <2>2. QED  BY <1>2, <1>11, <1>14, <1>16, <2>1
<1>17. CASE i = Len(a) + 2
  <2>1. i - 1 = Len(a) + 1
    BY <1>12, <1>17
  <2>2. QED  BY <1>11, <1>14, <1>17, <2>1 DEF end
<1>18. QED  BY <1>12, <1>15, <1>16, <1>17

-----------------------------------------------------------------------------
(* Where the processes are *)

\* A process that exists is somewhere in one of the programs, p1 alone in test.
AtOK ==
    /\ at \in [Pcb -> [prog : Progs \cup {"none"}, pc : Nat, a0 : Int]]
    /\ \A p \in Live : at[p].prog \in Progs /\ (at[p].prog = "test" => p = 1)
    /\ \A p \in pcbFree : at[p] = Nowhere

\* A process that waits on a semaphore of the test is past the P that it waits in.
WaitsPast == \A p \in Live : p_semAdd[p] \in UserSem =>
    /\ at[p].pc - 1 \in DOMAIN Code[at[p].prog]
    /\ Code[at[p].prog][at[p].pc - 1] = P(p_semAdd[p])[1]

InTree8 == {p \in Live : at[p].prog \in Tree8}

\* A tree of p8 hangs from p1 by its root.
Tree8Shape == \A p \in InTree8 :
    /\ p_parent[p] \in Live
    /\ at[p].prog = "p8root" => at[p_parent[p]].prog = "test"
    /\ at[p].prog \in Children => at[p_parent[p]].prog = "p8root"
    /\ at[p].prog \in Leaves => at[p_parent[p]].prog \in Children

\* The roots that have not come to their end.
Young == {r \in Live : at[r].prog = "p8root" /\ ~AtEnd(r)}

\* p1 has just started a tree; it is about to wait for its end.
Opening ==
    /\ at[1].prog = "test" /\ at[1].pc - 1 \in DOMAIN test
    /\ Opens(test[at[1].pc - 1])
Closing ==
    /\ at[1].prog = "test" /\ at[1].pc \in DOMAIN test
    /\ test[at[1].pc] = P("endp8")[1]

\* While there is such a root, it is the only one, and p1 waits for its V or does
\* nothing before it waits.
Round == \A r \in Young :
    /\ \A q \in Young : q = r
    /\ \/ semval["endp8"] <= 0 /\ (Opening \/ Closing)
       \/ p_semAdd[1] = "endp8"

\* There is none when p1 starts one.
Closed == at[1].prog = "test" /\ at[1].pc \in DOMAIN test /\ Opens(test[at[1].pc]) =>
    Young = {} /\ semval["endp8"] <= 0

TestInv == AtOK /\ WaitsPast /\ Tree8Shape /\ Round /\ Closed

-----------------------------------------------------------------------------
(* The current instruction *)

\* What the kinds of instructions carry.
LEMMA InstructionFields ==
  ASSUME NEW i \in Instructions
  PROVE  /\ i.op \in {"passeren", "verhogen"} =>
               i.sem \in UserSem /\ i = [op |-> i.op, sem |-> i.sem]
         /\ i.op = "create" =>
               i.prog \in Progs /\ i.prio \in Prio /\ i.sup \in Supports \cup {NULL}
         /\ i.op = "trap" => i.handlers \in SUBSET Progs
         /\ i.op = "return" => i.prog \in Progs
         /\ i.op = "reset" => i.sems = RoundSems
<1>1. CASE i \in [op : {"passeren", "verhogen"}, sem : UserSem]
  BY <1>1
<1>2. CASE i \notin [op : {"passeren", "verhogen"}, sem : UserSem]
  <2>1. i.op \notin {"passeren", "verhogen"}
    BY <1>2 DEF Instructions
  <2>2. QED  BY <2>1 DEF Instructions
<1>3. QED  BY <1>1, <1>2

\* The current process, when it is at an instruction.
LEMMA DoesFacts ==
  ASSUME PlaceInv, AtOK, NEW op, Does(op)
  PROVE  /\ Running /\ current_process \in Live /\ current_process \in Pcb
         /\ p_semAdd[current_process] = NULL
         /\ at[current_process].prog \in Progs
         /\ at[current_process].pc \in DOMAIN Code[at[current_process].prog]
         /\ It \in Instructions /\ Fits(at[current_process].prog, It) /\ It.op = op
<1>1. Running
  BY DEF Does
<1>2. current_process \in Live /\ current_process \in Pcb /\ p_semAdd[current_process] = NULL
  BY <1>1, RunnerFree, PcbAssumption DEF PlaceInv, PlacedNow, Placed, OnCpu, Live
<1>3. at[current_process].prog \in Progs
  BY <1>2 DEF AtOK
<1>4. PICK prog \in Progs : prog = at[current_process].prog
  BY <1>3
<1>5. at[current_process].pc \in DOMAIN Code[prog] /\ It = Code[prog][at[current_process].pc]
  BY <1>4 DEF Does, It
<1>6. Code[prog] \in Seq(Fitting(prog))
  BY Programs
<1>7. It \in Fitting(prog)
  BY <1>5, <1>6
<1>8. It.op = op
  BY DEF Does, It
<1>9. QED  BY <1>1, <1>2, <1>4, <1>5, <1>7, <1>8 DEF Fitting

\* An instruction of p1 is one of test.
LEMMA RootDoes ==
  ASSUME PlaceInv, AtOK, NEW op, Does(op), at[current_process].prog = "test"
  PROVE  /\ current_process = 1 /\ at[1].pc \in DOMAIN test /\ It = test[at[1].pc]
BY DoesFacts DEF AtOK, It, Code

\* An instruction of the root of the tree is one of p8root.
LEMMA TreeRootDoes ==
  ASSUME PlaceInv, AtOK, NEW op, Does(op), at[current_process].prog = "p8root"
  PROVE  at[current_process].pc \in DOMAIN p8root /\ It = p8root[at[current_process].pc]
BY DoesFacts DEF AtOK, It, Code

\* While there is a root that has not come to its end, all that p1 can do is to store
\* its pid and then to wait for it.
LEMMA RootBusy ==
  ASSUME PlaceInv, TestInv, NEW op, Does(op), current_process = 1, Young # {}
  PROVE  /\ semval["endp8"] <= 0 /\ at[1].prog = "test"
         /\ \/ op = "store" /\ at[1].pc + 1 \in DOMAIN test /\ test[at[1].pc + 1] = P("endp8")[1]
            \/ op = "passeren" /\ It = P("endp8")[1]
<1>0. AtOK
  BY DEF TestInv
<1>1. p_semAdd[1] = NULL /\ NULL # "endp8"
  BY <1>0, DoesFacts, SemAssumption, Constants DEF Sem, TestSem
<1>2. at[1] \in [prog : Progs \cup {"none"}, pc : Nat, a0 : Int]
  BY <1>0, Constants DEF AtOK
<1>3. \/ semval["endp8"] <= 0 /\ (Opening \/ Closing)
      \/ p_semAdd[1] = "endp8"
  BY DEF TestInv, Round
<1>4. CASE semval["endp8"] <= 0 /\ Opening
  <2>1. PICK i \in DOMAIN test : i = at[1].pc - 1 /\ Opens(test[i])
    BY <1>4 DEF Opening
  <2>2. at[1].pc = i + 1 /\ at[1].prog = "test"
    BY <1>2, <1>4, <2>1, testFits DEF Opening
  <2>3. /\ test[i + 1].op = "store"
        /\ i + 2 \in DOMAIN test /\ test[i + 2] = P("endp8")[1]
    BY <2>1, Surroundings
  <2>4. It.op = op /\ It = test[i + 1]
    BY <1>0, <2>2, DoesFacts, RootDoes
  <2>5. at[1].pc + 1 = i + 2
    BY <1>2, <2>1, <2>2, testFits
  <2>6. QED  BY <1>4, <2>2, <2>3, <2>4, <2>5
<1>5. CASE semval["endp8"] <= 0 /\ Closing
  <2>1. at[1].prog = "test"
    BY <1>5 DEF Closing
  <2>2. It = P("endp8")[1]
    BY <1>0, <1>5, <2>1, RootDoes DEF Closing
  <2>3. It.op = "passeren"
    BY <2>2 DEF P
  <2>4. QED  BY <1>0, <1>5, <2>1, <2>2, <2>3, DoesFacts
<1>6. QED  BY <1>1, <1>3, <1>4, <1>5

-----------------------------------------------------------------------------
(* Steps after which the same processes exist *)

\* The places that a process can be in.
Place == [prog : Progs \cup {"none"}, pc : Nat, a0 : Int]

\* The current process goes on to next: in its program, or from a handler of p5 to
\* another of its functions.
GoesTo(next) ==
    /\ Goes(next, Nowhere)
    /\ pcbFree' = pcbFree /\ p_parent' = p_parent
    /\ next \in Place /\ next.prog \in Progs
    /\ \/ next.prog = at[current_process].prog /\ next.pc = at[current_process].pc + 1
       \/ {next.prog, at[current_process].prog} \cap (Tree8 \cup {"test"}) = {}

\* The next instruction is in the same program.
LEMMA OnwardPlace ==
  ASSUME PlaceInv, AtOK, NEW op, Does(op)
  PROVE  /\ Onward \in Place /\ Onward.prog = at[current_process].prog
         /\ Onward.pc = at[current_process].pc + 1
         /\ at[current_process] \in Place
<1>1. PICK p \in Pcb : p = current_process
  BY DoesFacts
<1>2. at[p] \in Place
  BY DEF AtOK, Place
<1>3. QED  BY <1>1, <1>2 DEF Onward, Place

\* One process goes on, and nobody is created or dies: the tree stays as it is.
LEMMA StayPlaces ==
  ASSUME PlaceInv, TestInv, NEW op, Does(op), NEW next, GoesTo(next)
  PROVE  /\ AtOK' /\ Tree8Shape' /\ InTree8' = InTree8 /\ Live' = Live
         /\ at'[current_process] = next
         /\ \A p \in Pcb : p # current_process => at'[p] = at[p]
<1> USE DEF TestInv
<1>1. /\ pcbFree' = pcbFree /\ Live' = Live /\ p_parent' = p_parent
      /\ pcbFree \in SUBSET Pcb /\ Live \in SUBSET Pcb
      /\ current_process \in Live /\ current_process \in Pcb
  BY DoesFacts DEF GoesTo, Live, PlaceInv, TypeInv, TypeOK
<1>2. at' \in [Pcb -> Place]
  BY <1>1 DEF GoesTo, Goes, AtOK, Place, Nowhere
<1>3. /\ at'[current_process] = next
      /\ \A p \in Pcb : p # current_process => at'[p] = at[p]
  BY <1>1 DEF GoesTo, Goes, AtOK, Live
<1>4. \A p \in Live : \/ at'[p].prog = at[p].prog
                      \/ {at'[p].prog, at[p].prog} \cap (Tree8 \cup {"test"}) = {}
  BY <1>1, <1>3 DEF GoesTo
<1>5. \A p \in Live : at'[p].prog \in Progs
  BY <1>1, <1>3 DEF GoesTo, AtOK
<1>6. AtOK'
  <2>1. \A p \in Live : at'[p].prog = "test" => p = 1
    BY <1>4 DEF AtOK
  <2>2. \A p \in pcbFree : at'[p] = Nowhere
    BY <1>1, <1>3 DEF AtOK, Live
  <2>3. QED  BY <1>1, <1>2, <1>5, <2>1, <2>2 DEF AtOK, Place
<1>7. \A p \in Live : \A prog \in Tree8 \cup {"test"} : at'[p].prog = prog <=> at[p].prog = prog
  BY <1>4
<1>8. InTree8' = InTree8
  <2>1. \A p \in Live : at'[p].prog \in Tree8 <=> at[p].prog \in Tree8
    BY <1>7
  <2>2. QED  BY <1>1, <2>1 DEF InTree8
<1>9. Tree8Shape'
  <2>1. \A p \in InTree8 : p \in Live /\ p_parent[p] \in Live
    BY DEF Tree8Shape, InTree8
  <2>2. "p8root" \in Tree8 /\ Children \subseteq Tree8 /\ Leaves \subseteq Tree8
    BY DEF Tree8
  <2>3. \A p \in Live : /\ at'[p].prog = "p8root" <=> at[p].prog = "p8root"
                        /\ at'[p].prog = "test" <=> at[p].prog = "test"
                        /\ at'[p].prog \in Children <=> at[p].prog \in Children
                        /\ at'[p].prog \in Leaves <=> at[p].prog \in Leaves
    BY <1>7, <2>2
  <2>4. QED  BY <1>1, <1>8, <2>1, <2>3 DEF Tree8Shape
<1>10. QED  BY <1>1, <1>3, <1>6, <1>8, <1>9

\* No root becomes one that has not come to its end; one that has is about to end.
LEMMA StayYoung ==
  ASSUME PlaceInv, TestInv, NEW op, Does(op), NEW next, GoesTo(next), op # "terminate"
  PROVE  Young' \subseteq Young
<1>1. /\ Live' = Live /\ Live \in SUBSET Pcb
      /\ \A p \in Pcb : p # current_process => at'[p] = at[p]
  BY StayPlaces DEF Live
<1>2. AtOK /\ current_process \in Live
  BY DoesFacts DEF TestInv
<1>3. SUFFICES ASSUME NEW r \in Pcb, r \in Young' PROVE r \in Young
  BY <1>1 DEF Young
<1>4. r \in Live /\ at'[r].prog = "p8root" /\ ~AtEnd(r)'
  BY <1>1, <1>3 DEF Young
<1>5. CASE r # current_process
  BY <1>1, <1>4, <1>5 DEF Young, AtEnd
<1>6. CASE r = current_process
  <2>1. at'[r] = next
    BY <1>6, StayPlaces
  <2>2. at[r].prog = "p8root"
    BY <1>4, <1>6, <2>1 DEF GoesTo, Tree8
  <2>3. It = p8root[at[r].pc] /\ It.op = op
    BY <1>2, <1>6, <2>2, DoesFacts, TreeRootDoes
  <2>4. ~AtEnd(r)
    BY <2>3 DEF AtEnd
  <2>5. QED  BY <1>4, <2>2, <2>4 DEF Young
<1>7. QED  BY <1>5, <1>6

\* The same processes wait on the semaphores of the test.
SameWaits == \A p \in Pcb :
    p_semAdd[p] \in UserSem \/ p_semAdd'[p] \in UserSem => p_semAdd'[p] = p_semAdd[p]

\* If also nobody begins to wait, those who wait are where they were.
LEMMA StayWaits ==
  ASSUME PlaceInv, TestInv, NEW op, Does(op), NEW next, GoesTo(next), SameWaits
  PROVE  WaitsPast'
<1>1. Live' = Live /\ \A p \in Pcb : p # current_process => at'[p] = at[p]
  BY StayPlaces
<1>2. p_semAdd[current_process] \notin UserSem /\ Live \in SUBSET Pcb
  BY DoesFacts, SemAssumption DEF TestInv, Sem, Live
<1>3. \A p \in Live' : p_semAdd'[p] \in UserSem =>
         p \in Live /\ p_semAdd[p] \in UserSem /\ p_semAdd'[p] = p_semAdd[p] /\ at'[p] = at[p]
  BY <1>1, <1>2 DEF SameWaits
<1>4. QED  BY <1>3 DEF TestInv, WaitsPast

\* p1 comes to the start of a tree from the reset.
LEMMA StayClosed ==
  ASSUME PlaceInv, TestInv, NEW op, Does(op), NEW next, GoesTo(next), op # "reset",
         op # "terminate",
         current_process # 1 /\ Young = {} /\ semval["endp8"] <= 0 => semval'["endp8"] <= 0
  PROVE  Closed'
<1>0. AtOK /\ Closed /\ 1 \in Pcb
  BY Constants DEF TestInv
<1>1. CASE current_process # 1
  <2>1. at'[1] = at[1] /\ Young' \subseteq Young
    BY <1>0, <1>1, StayPlaces, StayYoung
  <2>2. QED  BY <1>0, <1>1, <2>1 DEF Closed
<1>2. CASE current_process = 1
  <2> SUFFICES ASSUME at'[1].prog = "test", at'[1].pc \in DOMAIN test, Opens(test[at'[1].pc])
              PROVE  FALSE
    BY DEF Closed
  <2>1. at'[1] = next
    BY <1>2, StayPlaces
  <2>2. at[1].prog = "test" /\ next.pc = at[1].pc + 1
    BY <1>2, <2>1 DEF GoesTo
  <2>3. test[at'[1].pc - 1].op = "reset"
    BY Surroundings
  <2>4. at[1] \in Place
    BY <1>0 DEF AtOK, Place
  <2>5. at'[1].pc - 1 = at[1].pc
    BY <2>1, <2>2, <2>4 DEF Place
  <2>6. It = test[at[1].pc] /\ It.op = op
    BY <1>0, <1>2, <2>2, RootDoes, DoesFacts
  <2>7. QED  BY <2>3, <2>5, <2>6
<1>3. QED  BY <1>1, <1>2

\* An instruction by which the current process neither waits on a semaphore of the
\* test nor changes one, and which does not make it the parent of another.
LEMMA KeepInv ==
  ASSUME PlaceInv, TestInv, NEW op, Does(op), NEW next, GoesTo(next),
         op \notin {"terminate", "passeren", "reset"}, SameWaits,
         semval'["endp8"] = semval["endp8"]
  PROVE  TestInv'
<1>1. /\ AtOK' /\ Tree8Shape' /\ InTree8' = InTree8
      /\ at'[current_process] = next
      /\ \A p \in Pcb : p # current_process => at'[p] = at[p]
  BY StayPlaces
<1>2. WaitsPast' /\ Closed'
  BY StayWaits, StayClosed
<1>3. Round'
  <2>0. AtOK /\ Round /\ 1 \in Pcb /\ Young' \subseteq Young
    BY Constants, StayYoung DEF TestInv
  <2> SUFFICES ASSUME Young # {},
                      \/ semval["endp8"] <= 0 /\ (Opening \/ Closing)
                      \/ p_semAdd[1] = "endp8"
              PROVE  \/ semval'["endp8"] <= 0 /\ (Opening' \/ Closing')
                     \/ p_semAdd'[1] = "endp8"
    BY <2>0 DEF Round
  <2>1. CASE current_process = 1
    <3>1. /\ semval["endp8"] <= 0 /\ at[1].prog = "test"
          /\ at[1].pc + 1 \in DOMAIN test /\ test[at[1].pc + 1] = P("endp8")[1]
      BY <2>1, RootBusy
    <3>2. next.prog = "test" /\ next.pc = at[1].pc + 1
      BY <2>1, <3>1 DEF GoesTo
    <3>3. Closing'
      BY <1>1, <2>1, <3>1, <3>2 DEF Closing
    <3>4. QED  BY <3>1, <3>3
  <2>2. CASE current_process # 1
    <3>1. at'[1] = at[1]
      BY <1>1, <2>0, <2>2
    <3>2. "endp8" \in UserSem
      BY Constants DEF TestSem
    <3>3. p_semAdd[1] = "endp8" => p_semAdd'[1] = "endp8"
      BY <2>0, <3>2 DEF SameWaits
    <3>4. /\ Opening => Opening'
          /\ Closing => Closing'
      BY <3>1 DEF Opening, Closing
    <3>5. QED  BY <3>3, <3>4
  <2>3. QED  BY <2>1, <2>2
<1>4. QED  BY <1>1, <1>2, <1>3 DEF TestInv

-----------------------------------------------------------------------------
(* The system calls on the semaphores of the test *)

\* A call after which the caller goes on.
LEMMA CallOnward ==
  ASSUME PlaceInv, AtOK, NEW op, Does(op), GoesOn, pcbFree' = pcbFree, p_parent' = p_parent
  PROVE  GoesTo(Onward)
BY OnwardPlace, DoesFacts DEF GoesOn, GoesTo

\* P. By it p1 enters the wait for the tree that it has started.
LEMMA PasserenTest ==
  ASSUME PlaceInv, TestInv, Does("passeren"), Passeren(It.sem), GoesOn
  PROVE  TestInv'
<1>0. AtOK /\ Round /\ Closed /\ 1 \in Pcb
  BY Constants DEF TestInv
<1>1. PICK s \in UserSem : s = It.sem /\ It = [op |-> "passeren", sem |-> s]
  BY <1>0, DoesFacts, InstructionFields
<1>2. /\ Running /\ current_process \in Pcb /\ current_process \in Live
      /\ p_semAdd[current_process] = NULL /\ s \in Sem
  BY <1>0, <1>1, DoesFacts DEF Sem
<1>3. Passeren(s)
  BY <1>1
<1>4. /\ pcbFree' = pcbFree /\ p_parent' = p_parent
      /\ semval' = [semval EXCEPT ![s] = @ - 1]
  BY <1>3 DEF Passeren, pcbVars
<1>5. GoesTo(Onward)
  BY <1>0, <1>4, CallOnward
<1>6. /\ AtOK' /\ Tree8Shape' /\ InTree8' = InTree8 /\ Live' = Live
      /\ at'[current_process] = Onward
      /\ \A p \in Pcb : p # current_process => at'[p] = at[p]
  BY <1>5, StayPlaces
<1>7. semval[s] - 1 < 0 => p_semAdd' = [p_semAdd EXCEPT ![current_process] = s]
  <2>1. ~NoDescriptor(s)
    BY <1>2, Descriptors DEF PlaceInv
  <2>2. QED
    <3> SUFFICES ASSUME semval[s] - 1 < 0 PROVE p_semAdd' = [p_semAdd EXCEPT ![current_process] = s]
      OBVIOUS
    <3>1. semval[s] \in Int
      BY <1>2 DEF PlaceInv, TypeInv, TypeOK
    <3>2. ~(semval[s] - 1 >= 0)
      BY <3>1
    <3>3. BlockOn(s)
      BY <1>3, <3>2 DEF Passeren
    <3>4. QED  BY <2>1, <3>3 DEF BlockOn
<1>8. \/ p_semAdd' = p_semAdd
      \/ p_semAdd' = [p_semAdd EXCEPT ![current_process] = s]
  BY <1>3 DEF Passeren, BlockOn
<1>9. p_semAdd \in [Pcb -> Sem \cup {NULL}] /\ semval \in [Sem -> Int]
  BY DEF PlaceInv, TypeInv, TypeOK
<1>10. \A p \in Pcb : p # current_process => p_semAdd'[p] = p_semAdd[p]
  BY <1>8, <1>9
<1>11. /\ Onward.prog = at[current_process].prog /\ Onward.pc - 1 = at[current_process].pc
       /\ at[current_process].pc \in DOMAIN Code[at[current_process].prog]
  BY <1>0, OnwardPlace, DoesFacts DEF Place
<1>12. WaitsPast'
  <2> SUFFICES ASSUME NEW p \in Live, p_semAdd'[p] \in UserSem
              PROVE  /\ at'[p].pc - 1 \in DOMAIN Code[at'[p].prog]
                     /\ Code[at'[p].prog][at'[p].pc - 1] = P(p_semAdd'[p])[1]
    BY <1>6 DEF WaitsPast
  <2>1. CASE p # current_process
    BY <1>6, <1>10, <2>1 DEF TestInv, WaitsPast, Live
  <2>2. CASE p = current_process
    <3>1. p_semAdd'[p] = s
      BY <1>2, <1>8, <1>9, <2>2, SemAssumption DEF Sem
    <3>2. at'[p] = Onward
      BY <1>6, <2>2
    <3>3. Code[at'[p].prog][at'[p].pc - 1] = It
      BY <1>11, <2>2, <3>2 DEF It
    <3>4. P(s)[1] = It
      BY <1>1 DEF P
    <3>5. QED  BY <1>11, <2>2, <3>1, <3>2, <3>3, <3>4
  <2>3. QED  BY <2>1, <2>2
<1>13. "endp8" \in UserSem /\ "endp8" \in Sem
  BY Constants DEF TestSem, Sem
<1>14. s = "endp8" => current_process = 1
  BY <1>0, <1>1, DoesFacts DEF Fits, Waits, AtOK
<1>15. semval["endp8"] <= 0 => semval'["endp8"] <= 0
  BY <1>4, <1>9, <1>13
<1>16. Closed'
  BY <1>5, <1>15, StayClosed
<1>17. Round'
  <2>0. Young' \subseteq Young
    BY <1>5, StayYoung
  <2> SUFFICES ASSUME Young # {},
                      \/ semval["endp8"] <= 0 /\ (Opening \/ Closing)
                      \/ p_semAdd[1] = "endp8"
              PROVE  \/ semval'["endp8"] <= 0 /\ (Opening' \/ Closing')
                     \/ p_semAdd'[1] = "endp8"
    BY <1>0, <2>0 DEF Round
  <2>1. CASE current_process = 1
    <3>1. semval["endp8"] <= 0 /\ It = P("endp8")[1]
      BY <2>1, RootBusy
    <3>2. s = "endp8"
      BY <1>1, <3>1 DEF P
    <3>3. p_semAdd'[1] = "endp8"
      BY <1>0, <1>7, <1>9, <1>13, <2>1, <3>1, <3>2
    <3>4. QED  BY <3>3
  <2>2. CASE current_process # 1
    <3>1. at'[1] = at[1] /\ p_semAdd'[1] = p_semAdd[1]
      BY <1>0, <1>6, <1>10, <2>2
    <3>2. /\ Opening => Opening'
          /\ Closing => Closing'
      BY <3>1 DEF Opening, Closing
    <3>3. QED  BY <1>15, <3>1, <3>2
  <2>3. QED  BY <2>1, <2>2
<1>18. QED  BY <1>6, <1>12, <1>16, <1>17 DEF TestInv

\* The V that ends the wait of p1 is the root of the tree's.
LEMMA VerhogenTest ==
  ASSUME PlaceInv, TestInv, Does("verhogen"), Verhogen(It.sem), GoesOn
  PROVE  TestInv'
<1>0. AtOK /\ Round /\ Closed /\ 1 \in Pcb
  BY Constants DEF TestInv
<1>1. PICK s \in UserSem : s = It.sem /\ It = [op |-> "verhogen", sem |-> s]
  BY <1>0, DoesFacts, InstructionFields
<1>2. /\ Running /\ current_process \in Pcb /\ current_process \in Live
      /\ s \in Sem /\ current_process # NULL
  BY <1>0, <1>1, DoesFacts, PcbAssumption DEF Sem
<1>3. Verhogen(s)
  BY <1>1
<1>4. /\ pcbFree' = pcbFree /\ p_parent' = p_parent /\ current_process' = current_process
      /\ semval' = [semval EXCEPT ![s] = @ + 1]
  BY <1>3 DEF Verhogen, pcbVars
<1>5. GoesTo(Onward)
  BY <1>0, <1>4, CallOnward
<1>6. /\ AtOK' /\ Tree8Shape' /\ InTree8' = InTree8 /\ Live' = Live
      /\ at'[current_process] = Onward
      /\ \A p \in Pcb : p # current_process => at'[p] = at[p]
  BY <1>5, StayPlaces
<1>7. p_semAdd \in [Pcb -> Sem \cup {NULL}] /\ semval \in [Sem -> Int]
  BY DEF PlaceInv, TypeInv, TypeOK
<1>8. \A p \in Pcb : \/ p_semAdd'[p] = p_semAdd[p]
                     \/ p_semAdd[p] = s /\ p_semAdd'[p] = NULL
  <2>1. CASE p_semAdd' = p_semAdd
    BY <2>1
  <2>2. CASE semd_h[s] # <<>> /\ RemoveBlocked(s)
    BY <1>2, <2>2, HeadWaits DEF PlaceInv
  <2>3. QED  BY <1>3, <2>1, <2>2 DEF Verhogen
<1>9. NULL \notin UserSem /\ "endp8" \in UserSem /\ "endp8" \in Sem
  BY SemAssumption, Constants DEF Sem, TestSem
<1>10. s = "endp8" => at[current_process].prog = "p8root"
  BY <1>0, <1>1, DoesFacts DEF Fits
<1>11. s # "endp8" => semval'["endp8"] = semval["endp8"]
  BY <1>4, <1>7, <1>9
<1>12. WaitsPast'
  <2>1. \A p \in Live' : p_semAdd'[p] \in UserSem =>
           p \in Live /\ p_semAdd'[p] = p_semAdd[p] /\ at'[p] = at[p]
    <3>1. p_semAdd[current_process] = NULL /\ Live \in SUBSET Pcb
      BY <1>0, DoesFacts DEF Live
    <3>2. QED  BY <1>6, <1>8, <1>9, <3>1
  <2>2. QED  BY <2>1 DEF TestInv, WaitsPast
\* A root is not at its end when it does its V, and is there afterwards.
<1>13. Young' \subseteq Young
  BY <1>5, StayYoung
<1>14. ASSUME s = "endp8"
      PROVE  current_process \in Young /\ AtEnd(current_process)'
  <2>1. at[current_process].pc \in DOMAIN p8root /\ p8root[at[current_process].pc] = V("endp8")[1]
    BY <1>0, <1>1, <1>10, <1>14, TreeRootDoes DEF V
  <2>2. PICK i \in DOMAIN p8root : i = at[current_process].pc /\ p8root[i] = V("endp8")[1]
    BY <2>1
  <2>3. i + 1 \in DOMAIN p8root /\ p8root[i + 1].op = "terminate"
    BY <2>2, LastOfRoot
  <2>4. Onward.prog = "p8root" /\ Onward.pc = i + 1
    BY <1>0, <1>10, <1>14, <2>2, OnwardPlace
  <2>5. PICK r \in Pcb : r = current_process
    BY <1>2
  <2>6. AtEnd(r)'
    BY <1>6, <2>3, <2>4, <2>5 DEF AtEnd
  <2>7. p8root[i].op # "terminate"
    BY <2>2 DEF V
  <2>8. r \in Young
    BY <1>2, <1>10, <1>14, <2>2, <2>5, <2>7 DEF Young, AtEnd
  <2>9. QED  BY <1>4, <2>5, <2>6, <2>8
<1>15. Closed'
  <2>1. Young = {} => s # "endp8"
    BY <1>14
  <2>2. QED  BY <1>5, <1>11, <2>1, StayClosed
<1>16. Round'
  <2>1. CASE s = "endp8"
    <3>1. PICK r \in Pcb : r = current_process
      BY <1>2
    <3>2. r \in Young /\ AtEnd(r)'
      BY <1>4, <1>14, <2>1, <3>1
    <3>3. \A q \in Young : q = r
      BY <1>0, <3>2 DEF Round
    <3>4. r \notin Young'
      BY <3>2 DEF Young
    <3>5. Young' = {}
      BY <1>13, <3>3, <3>4
    <3>6. QED  BY <3>5 DEF Round
  <2>2. CASE s # "endp8"
    <3> SUFFICES ASSUME Young # {},
                        \/ semval["endp8"] <= 0 /\ (Opening \/ Closing)
                        \/ p_semAdd[1] = "endp8"
                PROVE  \/ semval'["endp8"] <= 0 /\ (Opening' \/ Closing')
                       \/ p_semAdd'[1] = "endp8"
      BY <1>0, <1>13 DEF Round
    <3>1. current_process # 1
      BY RootBusy
    <3>2. at'[1] = at[1]
      BY <1>0, <1>6, <3>1
    <3>3. p_semAdd[1] = "endp8" => p_semAdd'[1] = "endp8"
      BY <1>0, <1>8, <2>2
    <3>4. /\ Opening => Opening'
          /\ Closing => Closing'
      BY <3>2 DEF Opening, Closing
    <3>5. QED  BY <1>11, <2>2, <3>3, <3>4
  <2>3. QED  BY <2>1, <2>2
<1>17. QED  BY <1>6, <1>12, <1>15, <1>16 DEF TestInv

-----------------------------------------------------------------------------
(* The reset *)

\* When p1 resets the semaphores of the tree every root has come to its end; whoever
\* waits for one of them waits on sem_blkp8, below such a root.
LEMMA ResetAlone ==
  ASSUME PlaceInv, TestInv, Does("reset")
  PROVE  /\ current_process = 1 /\ It.sems = RoundSems /\ Young = {}
         /\ \A s \in RoundSems : s \in Sem /\ (s # "blkp8" => semd_h[s] = <<>>)
         /\ \A p \in ToSet(semd_h["blkp8"]) : \E r \in Live : AtEnd(r) /\ p \in Subtree(r)
<1>0. AtOK /\ WaitsPast /\ Tree8Shape
  BY DEF TestInv
<1>1. at[current_process].prog = "test" /\ It.sems = RoundSems
  BY <1>0, DoesFacts, InstructionFields DEF Fits
<1>2. current_process = 1 /\ p_semAdd[1] = NULL
  BY <1>0, <1>1, DoesFacts, RootDoes
<1>3. Young = {}
  BY <1>2, RootBusy
<1>4. RoundSems \subseteq UserSem /\ RoundSems \subseteq Sem /\ NULL \notin Sem
  BY Constants, SemAssumption DEF RoundSems, TestSem, Sem
<1>5. \A r \in Live : at[r].prog = "p8root" => AtEnd(r)
  BY <1>3 DEF Young
<1>6. ASSUME NEW p \in Pcb, p_semAdd[p] \in RoundSems
      PROVE  p \in Live /\ at[p].prog \in Children \cup Leaves /\ p_semAdd[p] = "blkp8"
  <2>1. p \in Live
    BY <1>4, <1>6 DEF PlaceInv, PlacedNow, Placed, Live
  <2>2. PICK prog \in Progs : prog = at[p].prog
    BY <1>0, <2>1 DEF AtOK
  <2>3. PICK i \in DOMAIN Code[prog] : i = at[p].pc - 1 /\ Code[prog][i] = P(p_semAdd[p])[1]
    BY <1>0, <1>4, <1>6, <2>1, <2>2 DEF WaitsPast
  <2>4. Code[prog][i] \in Fitting(prog)
    BY Programs
  <2>5. Code[prog][i].op = "passeren" /\ Code[prog][i].sem = p_semAdd[p]
    BY <2>3 DEF P
  <2>6. Waits(prog, p_semAdd[p])
    BY <2>4, <2>5 DEF Fitting, Fits
  <2>7. prog # "test"
    BY <1>0, <1>2, <1>4, <1>6, <2>1, <2>2 DEF AtOK
  \* The instruction before the end of a root is a V.
  <2>8. prog # "p8root"
    <3> SUFFICES ASSUME prog = "p8root" PROVE FALSE
      OBVIOUS
    <3>1. at[p].pc \in DOMAIN p8root /\ p8root[at[p].pc].op = "terminate"
      BY <1>5, <2>1, <2>2 DEF AtEnd
    <3>2. PICK k \in DOMAIN p8root : k = at[p].pc /\ p8root[k].op = "terminate"
      BY <3>1
    <3>3. p8root[k - 1] = V("endp8")[1]
      BY <3>2, LastOfRoot
    <3>4. Code[prog][i] = p8root[k - 1]
      BY <2>3, <3>2 DEF Code
    <3>5. QED  BY <2>5, <3>3, <3>4 DEF V
  <2>9. QED  BY <1>6, <2>1, <2>2, <2>6, <2>7, <2>8 DEF Waits
<1>7. ASSUME NEW s \in RoundSems
      PROVE  /\ semd_h[s] \in Seq(Pcb)
             /\ ToSet(semd_h[s]) = {p \in Pcb \ pcbFree : p_semAdd[p] = s}
  <2>1. s \in Sem /\ semd_h[s] \in Seq(Pcb)
    BY <1>4 DEF PlaceInv, TypeInv, TypeOK
  <2>2. QED  BY <2>1 DEF PlaceInv, PlacedNow, Placed
<1>8. ASSUME NEW s \in RoundSems, s # "blkp8" PROVE semd_h[s] = <<>>
  <2>1. ToSet(semd_h[s]) = {}
    BY <1>6, <1>7, <1>8
  <2>2. semd_h[s] # <<>> => Head(semd_h[s]) \in ToSet(semd_h[s])
    BY <1>7, HeadTailFacts
  <2>3. QED  BY <2>1, <2>2
\* A child is below its root, a leaf below that of its parent.
<1>9. ASSUME NEW r \in Live
      PROVE  /\ r \in Subtree(r)
             /\ \A c \in Pcb : p_parent[c] \in Subtree(r) => c \in Subtree(r)
  <2>1. \A c \in Pcb : p_parent[c] \in Subtree(r) => c \in Subtree(r)
    BY SubtreeLive DEF PlaceInv
  <2>2. QED  BY <2>1 DEF Subtree, Live
<1>10. ASSUME NEW c \in Live, at[c].prog \in Children
       PROVE  \E r \in Live : AtEnd(r) /\ c \in Subtree(r)
  <2>1. c \in InTree8 /\ c \in Pcb
    BY <1>10 DEF InTree8, Tree8, Live
  <2>2. PICK r \in Live : r = p_parent[c] /\ at[r].prog = "p8root"
    BY <1>0, <1>10, <2>1 DEF Tree8Shape
  <2>3. QED  BY <1>5, <1>9, <2>1, <2>2
<1>11. ASSUME NEW l \in Live, at[l].prog \in Leaves
       PROVE  \E r \in Live : AtEnd(r) /\ l \in Subtree(r)
  <2>1. l \in InTree8 /\ l \in Pcb
    BY <1>11 DEF InTree8, Tree8, Live
  <2>2. PICK c \in Live : c = p_parent[l] /\ at[c].prog \in Children
    BY <1>0, <1>11, <2>1 DEF Tree8Shape
  <2>3. PICK r \in Live : AtEnd(r) /\ c \in Subtree(r)
    BY <1>10, <2>2
  <2>4. QED  BY <1>9, <2>1, <2>2, <2>3
<1>12. ASSUME NEW p \in ToSet(semd_h["blkp8"])
       PROVE  \E r \in Live : AtEnd(r) /\ p \in Subtree(r)
  <2>1. "blkp8" \in RoundSems
    BY DEF RoundSems
  <2>2. p \in Pcb /\ p_semAdd[p] = "blkp8"
    BY <1>7, <2>1
  <2>3. QED  BY <1>6, <1>10, <1>11, <2>1, <2>2
<1>13. QED  BY <1>1, <1>2, <1>3, <1>4, <1>8, <1>12

\* The reset.
LEMMA ResetTest ==
  ASSUME PlaceInv, TestInv, ResetSemaphores
  PROVE  PlaceInv' /\ TestInv'
<1>0. AtOK /\ 1 \in Pcb /\ Does("reset") /\ GoesOn
  BY Constants DEF TestInv, ResetSemaphores
<1>1. /\ current_process = 1 /\ It.sems = RoundSems /\ Young = {}
  BY <1>0, ResetAlone
<1>2. /\ UNCHANGED <<pcbVars, p_semAdd, semd_h, cpuVars, counters, busy>>
      /\ semval' = [s \in Sem |-> IF s \in RoundSems THEN 0 ELSE semval[s]]
  BY <1>1 DEF ResetSemaphores
<1>3. PlaceInv'
  <2>1. semval' \in [Sem -> Int]
    BY <1>2 DEF PlaceInv, TypeInv, TypeOK
  <2>2. TypeInv'
    BY <1>2, <2>1 DEF PlaceInv, TypeInv, TypeOK, Running, pcbVars, cpuVars, counters
  <2>3. FamilyTree' /\ PlacedNow'
    BY <1>2 DEF PlaceInv, FamilyTree, PlacedNow, Placed, OnCpu, Live, pcbVars, cpuVars
  <2>4. QED  BY <2>2, <2>3 DEF PlaceInv
<1>4. GoesTo(Onward) /\ SameWaits
  BY <1>0, <1>2, CallOnward DEF pcbVars, SameWaits
<1>5. AtOK' /\ Tree8Shape'
  BY <1>0, <1>4, StayPlaces
<1>6. WaitsPast'
  BY <1>0, <1>4, StayWaits
<1>7. Closed' /\ Round'
  <2>1. "endp8" \in Sem /\ "endp8" \in RoundSems
    BY Constants DEF TestSem, RoundSems, Sem
  <2>2. Young' = {}
    BY <1>0, <1>1, <1>4, StayYoung
  <2>3. QED  BY <1>2, <2>1, <2>2 DEF Closed, Round
<1>8. QED  BY <1>3, <1>5, <1>6, <1>7 DEF TestInv

-----------------------------------------------------------------------------
(* Instructions that touch neither the semaphores of the test nor its processes *)

\* A step that the nucleus has no part in.
LEMMA StillWaits == ASSUME UNCHANGED vars PROVE SameWaits /\ semval' = semval
BY DEF vars, semVars, SameWaits

\* To block on a device or the clock is no wait on a semaphore of the test.
LEMMA KernelWaits ==
  ASSUME PlaceInv, AtOK, NEW op, Does(op), NEW s \in KernelSem, BlockOn(s)
  PROVE  SameWaits
<1>1. p_semAdd \in [Pcb -> Sem \cup {NULL}] /\ p_semAdd[current_process] = NULL
  BY DoesFacts DEF PlaceInv, TypeInv, TypeOK
<1>2. s \notin UserSem /\ NULL \notin UserSem
  BY SemAssumption DEF Sem
<1>3. p_semAdd' = p_semAdd \/ p_semAdd' = [p_semAdd EXCEPT ![current_process] = s]
  BY DEF BlockOn
<1>4. QED  BY <1>1, <1>2, <1>3 DEF SameWaits

\* DOIO, CLOCKWAIT and YIELD.
LEMMA WaitingTest ==
  ASSUME PlaceInv, TestInv, WaitingCall
  PROVE  TestInv'
<1>0. AtOK /\ GoesOn
  BY DEF TestInv, WaitingCall
<1>1. semval \in [Sem -> Int] /\ "endp8" \in UserSem /\ "endp8" \notin KernelSem
  BY Constants, SemAssumption DEF PlaceInv, TypeInv, TypeOK, TestSem
<1>2. ASSUME NEW op \in {"doio", "clockwait"}, Does(op), NEW s \in KernelSem, block_sync(s)
      PROVE  TestInv'
  <2>1. /\ BlockOn(s) /\ semval' = [semval EXCEPT ![s] = @ - 1]
        /\ pcbFree' = pcbFree /\ p_parent' = p_parent
    BY <1>2 DEF block_sync, pcbVars
  <2>2. GoesTo(Onward) /\ SameWaits
    BY <1>0, <1>2, <2>1, CallOnward, KernelWaits
  <2>3. semval'["endp8"] = semval["endp8"]
    BY <1>1, <1>2, <2>1
  <2>4. QED  BY <1>2, <2>2, <2>3, KeepInv
<1>3. CASE Does("doio") /\ DoIO("TERM0")
  <2>1. "TERM0" \in KernelSem /\ block_sync("TERM0")
    BY <1>3, Constants DEF DoIO, KernelSem
  <2>2. QED  BY <1>2, <1>3, <2>1
<1>4. CASE Does("clockwait") /\ WaitForClock
  <2>1. PseudoClock \in KernelSem /\ block_sync(PseudoClock)
    BY <1>4 DEF WaitForClock, KernelSem
  <2>2. QED  BY <1>2, <1>4, <2>1
<1>5. CASE Does("yield") /\ Yield
  <2>1. /\ pcbFree' = pcbFree /\ p_parent' = p_parent /\ SameWaits
        /\ semval'["endp8"] = semval["endp8"]
    BY <1>5 DEF Yield, pcbVars, semVars, SameWaits
  <2>2. GoesTo(Onward)
    BY <1>0, <1>5, <2>1, CallOnward
  <2>3. QED  BY <1>5, <2>1, <2>2, KeepInv
<1>6. QED  BY <1>3, <1>4, <1>5 DEF WaitingCall

\* Assignments to shared variables.
LEMMA AssignTest ==
  ASSUME PlaceInv, TestInv, Assign
  PROVE  UNCHANGED vars /\ TestInv'
<1>0. AtOK /\ UNCHANGED vars
  BY DEF TestInv, Assign
<1>1. PICK op \in {"store", "set"} : Does(op)
  BY DEF Assign
<1>2. PICK next : next = [Onward EXCEPT !.a0 = 0]
  OBVIOUS
<1>3. Goes(next, Nowhere)
  BY <1>2 DEF Assign
<1>4. next \in Place /\ next.prog = at[current_process].prog /\ next.pc = at[current_process].pc + 1
  BY <1>0, <1>1, <1>2, OnwardPlace DEF Place
<1>5. GoesTo(next)
  BY <1>0, <1>1, <1>3, <1>4, DoesFacts DEF GoesTo, vars, pcbVars
<1>6. SameWaits /\ semval'["endp8"] = semval["endp8"]
  BY <1>0, StillWaits
<1>7. QED  BY <1>0, <1>1, <1>5, <1>6, KeepInv

\* The end of a handler of p5.
LEMMA ReturnTest ==
  ASSUME PlaceInv, TestInv, HandlerReturns
  PROVE  UNCHANGED vars /\ TestInv'
<1>0. AtOK /\ UNCHANGED vars /\ Does("return")
  BY DEF TestInv, HandlerReturns
<1>1. PICK next : next = Entry(It.prog)
  OBVIOUS
<1>2. Goes(next, Nowhere)
  BY <1>1 DEF HandlerReturns
<1>3. It.prog \in Progs /\ {at[current_process].prog, It.prog} \cap (Tree8 \cup {"test"}) = {}
  BY <1>0, DoesFacts, InstructionFields DEF Fits
<1>4. next \in Place /\ next.prog = It.prog
  BY <1>1, <1>3 DEF Place, Entry
<1>5. GoesTo(next)
  BY <1>0, <1>2, <1>3, <1>4 DEF GoesTo, vars, pcbVars
<1>6. SameWaits /\ semval'["endp8"] = semval["endp8"]
  BY <1>0, StillWaits
<1>7. QED  BY <1>0, <1>5, <1>6, KeepInv

\* Checks, those that fail among them.
LEMMA CheckTest ==
  ASSUME PlaceInv, TestInv, Check
  PROVE  PlaceInv' /\ TestInv'
<1>0. AtOK /\ GoesOn
  BY DEF TestInv, Check
<1>1. PICK op \in {"is self", "is parent", "is set", "is support", "is value"} : Does(op)
  BY DEF Check
<1>2. /\ UNCHANGED <<pcbVars, semVars, current_process, ready_queue, p_s, counters, busy>>
      /\ cpu' \in {cpu, "panic"}
  BY DEF Check
<1>3. current_process # NULL
  BY <1>0, <1>1, DoesFacts, PcbAssumption
<1>4. PlaceInv'
  <2>1. TypeInv'
    BY <1>2, <1>3 DEF PlaceInv, TypeInv, TypeOK, pcbVars, semVars, counters
  <2>2. FamilyTree' /\ PlacedNow'
    BY <1>2 DEF PlaceInv, FamilyTree, PlacedNow, Placed, OnCpu, Live, pcbVars, semVars
  <2>3. QED  BY <2>1, <2>2 DEF PlaceInv
<1>5. GoesTo(Onward)
  BY <1>0, <1>1, <1>2, CallOnward DEF pcbVars
<1>6. SameWaits /\ semval'["endp8"] = semval["endp8"]
  BY <1>2 DEF semVars, SameWaits
<1>7. TestInv'
  BY <1>1, <1>5, <1>6, KeepInv
<1>8. QED  BY <1>4, <1>7

\* A process with a support structure goes on in a handler of p5.
LEMMA HandledTest ==
  ASSUME PlaceInv, TestInv, Exception, p_supportStruct[current_process] # NULL
  PROVE  TestInv'
<1>0. AtOK /\ Does("trap") /\ UNCHANGED vars
  BY DEF TestInv, Exception, passup_or_die
<1>1. PICK handler \in It.handlers : Goes(Entry(handler), Nowhere)
  BY DEF Exception
<1>2. PICK next : next = Entry(handler) /\ Goes(next, Nowhere)
  BY <1>1
<1>3. handler \in Progs /\ {handler, at[current_process].prog} \cap (Tree8 \cup {"test"}) = {}
  BY <1>0, DoesFacts, InstructionFields DEF Fits
<1>4. next \in Place /\ next.prog = handler
  BY <1>2, <1>3 DEF Place, Entry
<1>5. GoesTo(next)
  BY <1>0, <1>2, <1>3, <1>4 DEF GoesTo, vars, pcbVars
<1>6. SameWaits /\ semval'["endp8"] = semval["endp8"]
  BY <1>0, StillWaits
<1>7. QED  BY <1>0, <1>5, <1>6, KeepInv

-----------------------------------------------------------------------------
(* CREATEPROCESS *)

\* Without a free PCB the caller goes on with -1.
LEMMA NotCreated ==
  ASSUME PlaceInv, TestInv, CreateProcess, pcbFree = {}
  PROVE  UNCHANGED vars /\ TestInv'
<1>0. AtOK /\ Does("create") /\ UNCHANGED vars
  BY DEF TestInv, CreateProcess, create_process
<1>1. PICK next : next = [Onward EXCEPT !.a0 = -1]
  OBVIOUS
<1>2. Goes(next, Entry(It.prog)) /\ pcbFree' = {}
  BY <1>0, <1>1 DEF CreateProcess, vars, pcbVars
<1>3. Goes(next, Nowhere)
  BY <1>2 DEF Goes
<1>4. next \in Place /\ next.prog = at[current_process].prog /\ next.pc = at[current_process].pc + 1
  BY <1>0, <1>1, OnwardPlace DEF Place
<1>5. GoesTo(next)
  BY <1>0, <1>3, <1>4, DoesFacts DEF GoesTo, vars, pcbVars
<1>6. SameWaits /\ semval'["endp8"] = semval["endp8"]
  BY <1>0, StillWaits
<1>7. QED  BY <1>0, <1>5, <1>6, KeepInv

\* CREATEPROCESS. p1 starts a tree when there is none.
LEMMA CreateTest ==
  ASSUME PlaceInv, TestInv, CreateProcess, pcbFree # {}
  PROVE  TestInv'
<1>0. /\ AtOK /\ Round /\ Closed /\ WaitsPast /\ Tree8Shape /\ 1 \in Pcb
      /\ Does("create")
  BY Constants DEF TestInv, CreateProcess
<1>1. /\ current_process \in Live /\ current_process \in Pcb
      /\ at[current_process].prog \in Progs /\ It.op = "create" /\ It.prog \in Progs
      /\ Fits(at[current_process].prog, It)
      /\ Live \in SUBSET Pcb /\ Live = Pcb \ pcbFree /\ pcbFree \in SUBSET Pcb
  BY <1>0, DoesFacts, InstructionFields DEF Live, PlaceInv, TypeInv, TypeOK
<1>2. PICK new \in pcbFree : /\ pcbFree' = pcbFree \ {new}
                            /\ p_parent' = [p_parent EXCEPT ![new] = current_process]
  BY DEF CreateProcess, create_process
<1>3. UNCHANGED semVars /\ next_pid \in Nat
  BY DEF CreateProcess, create_process, PlaceInv, TypeInv, TypeOK
<1>4. PICK next : next = [Onward EXCEPT !.a0 = next_pid]
  OBVIOUS
<1>5. Goes(next, Entry(It.prog))
  BY <1>4 DEF CreateProcess
<1>6. next \in Place /\ next.prog = at[current_process].prog /\ next.pc = at[current_process].pc + 1
  BY <1>0, <1>3, <1>4, OnwardPlace DEF Place
<1>7. Live' = Live \cup {new} /\ new \in Pcb /\ new \notin Live /\ new # current_process
  BY <1>1, <1>2 DEF Live
<1>8. /\ at'[current_process] = next /\ at'[new] = Entry(It.prog)
      /\ \A p \in Pcb : p \notin {current_process, new} => at'[p] = at[p]
  BY <1>0, <1>1, <1>2, <1>5, <1>7 DEF Goes, AtOK, Live
<1>9. /\ p_parent'[new] = current_process
      /\ \A p \in Live : p_parent'[p] = p_parent[p]
  <2>1. p_parent \in [Pcb -> Pcb \cup {NULL}]
    BY DEF PlaceInv, TypeInv, TypeOK
  <2>2. QED  BY <1>1, <1>2, <1>7, <2>1
<1>10. \A p \in Live : at'[p].prog = at[p].prog
  BY <1>1, <1>6, <1>7, <1>8
<1>11. p_semAdd' = p_semAdd /\ semval' = semval
  BY <1>3 DEF semVars
<1>12. p_semAdd[new] = NULL /\ p_semAdd[current_process] = NULL /\ NULL \notin UserSem
  BY <1>0, DoesFacts, SemAssumption DEF PlaceInv, PlacedNow, Placed, Sem
\* The parts of Fits, for the new process.
<1>13. /\ It.prog # "test"
       /\ It.prog = "p8root" => at[current_process].prog = "test"
       /\ It.prog \in Children => at[current_process].prog = "p8root"
       /\ It.prog \in Leaves => at[current_process].prog \in Children
  BY <1>1 DEF Fits
<1>14. at'[new].prog = It.prog
  BY <1>8 DEF Entry
\* The root of a tree is started by p1 when all others have come to their end.
<1>15. It.prog = "p8root" =>
          /\ current_process = 1 /\ Young = {} /\ semval["endp8"] <= 0
          /\ at[1].prog = "test" /\ at[1].pc \in DOMAIN test /\ Opens(test[at[1].pc])
  <2> SUFFICES ASSUME It.prog = "p8root"
              PROVE  /\ current_process = 1 /\ Young = {} /\ semval["endp8"] <= 0
                     /\ at[1].prog = "test" /\ at[1].pc \in DOMAIN test /\ Opens(test[at[1].pc])
    OBVIOUS
  <2>1. at[current_process].prog = "test"
    BY <1>13
  <2>2. current_process = 1 /\ at[1].pc \in DOMAIN test /\ It = test[at[1].pc]
    BY <1>0, <2>1, RootDoes
  <2>3. Opens(test[at[1].pc])
    BY <1>1, <2>2 DEF Opens
  <2>4. QED  BY <1>0, <2>1, <2>2, <2>3 DEF Closed
\* The new process may be such a root, no other becomes one.
<1>16. \A r \in Young' : r = new \/ r \in Young
  <2> SUFFICES ASSUME NEW r \in Young', r # new PROVE r \in Young
    OBVIOUS
  <2>1. r \in Live /\ r \in Pcb /\ at'[r].prog = "p8root" /\ ~AtEnd(r)'
    BY <1>1, <1>7 DEF Young
  <2>2. at[r].prog = "p8root"
    BY <1>10, <2>1
  <2>3. CASE r = current_process
    <3>1. It = p8root[at[r].pc]
      BY <1>0, <2>2, <2>3, TreeRootDoes
    <3>2. ~AtEnd(r)
      BY <1>1, <3>1 DEF AtEnd
    <3>3. QED  BY <2>1, <2>2, <3>2 DEF Young
  <2>4. CASE r # current_process
    <3>1. at'[r] = at[r]
      BY <1>8, <2>1, <2>4
    <3>2. QED  BY <2>1, <2>2, <3>1 DEF Young, AtEnd
  <2>5. QED  BY <2>3, <2>4
<1>17. new \in Young' => It.prog = "p8root"
  BY <1>14 DEF Young
<1>18. AtOK'
  <2>1. at' \in [Pcb -> Place]
    <3>1. Entry(It.prog) \in Place /\ Nowhere \in Place
      BY <1>1 DEF Place, Entry, Nowhere
    <3>2. at \in [Pcb -> Place]
      BY <1>0 DEF AtOK, Place
    <3>3. QED  BY <1>5, <1>6, <3>1, <3>2 DEF Goes
  <2>2. ASSUME NEW p \in Live' PROVE at'[p].prog \in Progs /\ (at'[p].prog = "test" => p = 1)
    BY <1>0, <1>1, <1>7, <1>10, <1>13, <1>14, <2>2 DEF AtOK
  <2>3. \A p \in pcbFree' : at'[p] = Nowhere
    BY <1>1, <1>2, <1>5 DEF Goes
  <2>4. QED  BY <2>1, <2>2, <2>3 DEF AtOK, Place
<1>19. WaitsPast'
  <2>1. \A p \in Live' : p_semAdd'[p] \in UserSem =>
           p \in Live /\ p_semAdd'[p] = p_semAdd[p] /\ at'[p] = at[p]
    BY <1>1, <1>7, <1>8, <1>11, <1>12
  <2>2. QED  BY <1>0, <2>1 DEF WaitsPast
<1>20. Tree8Shape'
  <2> SUFFICES ASSUME NEW p \in InTree8'
              PROVE  /\ p_parent'[p] \in Live'
                     /\ at'[p].prog = "p8root" => at'[p_parent'[p]].prog = "test"
                     /\ at'[p].prog \in Children => at'[p_parent'[p]].prog = "p8root"
                     /\ at'[p].prog \in Leaves => at'[p_parent'[p]].prog \in Children
    BY DEF Tree8Shape
  <2>1. CASE p = new
    <3>1. p_parent'[p] = current_process /\ at'[p].prog = It.prog
      BY <1>9, <1>14, <2>1
    <3>2. at'[current_process].prog = at[current_process].prog /\ current_process \in Live'
      BY <1>1, <1>7, <1>10
    <3>3. QED  BY <1>13, <2>1, <3>1, <3>2
  <2>2. CASE p # new
    <3>1. p \in InTree8 /\ p \in Live
      BY <1>7, <1>10, <2>2 DEF InTree8
    <3>2. p_parent'[p] = p_parent[p] /\ p_parent[p] \in Live
      BY <1>0, <1>9, <3>1 DEF Tree8Shape
    <3>3. at'[p].prog = at[p].prog /\ at'[p_parent[p]].prog = at[p_parent[p]].prog
      BY <1>10, <3>1, <3>2
    <3>4. p_parent'[p] \in Live'
      BY <1>7, <3>2
    <3>5. QED  BY <1>0, <3>1, <3>2, <3>3, <3>4 DEF Tree8Shape
  <2>3. QED  BY <2>1, <2>2
<1>21. Round'
  <2>1. CASE It.prog = "p8root"
    <3>1. at'[1].prog = "test" /\ at'[1].pc = at[1].pc + 1
      BY <1>6, <1>8, <1>15, <2>1
    <3>2. at'[1].pc - 1 = at[1].pc
      <4>1. at[1] \in Place
        BY <1>0 DEF AtOK, Place
      <4>2. QED  BY <3>1, <4>1 DEF Place
    <3>3. Opening'
      BY <1>15, <2>1, <3>1, <3>2 DEF Opening
    <3>4. \A r \in Young' : r = new
      BY <1>15, <1>16, <2>1
    <3>5. QED  BY <1>11, <1>15, <2>1, <3>3, <3>4 DEF Round
  <2>2. CASE It.prog # "p8root"
    <3>0. Young' \subseteq Young
      BY <1>16, <1>17, <2>2
    <3> SUFFICES ASSUME Young # {},
                        \/ semval["endp8"] <= 0 /\ (Opening \/ Closing)
                        \/ p_semAdd[1] = "endp8"
                PROVE  \/ semval'["endp8"] <= 0 /\ (Opening' \/ Closing')
                       \/ p_semAdd'[1] = "endp8"
      BY <1>0, <3>0 DEF Round
    <3>1. current_process # 1
      BY <1>0, RootBusy
    <3>2. 1 # new
      <4>1. "endp8" # NULL
        BY <1>12, Constants DEF TestSem
      <4>2. QED  BY <1>0, <1>2, <1>12, <4>1 DEF Opening, Closing, AtOK, Nowhere
    <3>3. at'[1] = at[1]
      BY <1>0, <1>8, <3>1, <3>2
    <3>4. /\ Opening => Opening'
          /\ Closing => Closing'
      BY <3>3 DEF Opening, Closing
    <3>5. QED  BY <1>11, <3>4
  <2>3. QED  BY <2>1, <2>2
<1>22. Closed'
  <2> SUFFICES ASSUME at'[1].prog = "test", at'[1].pc \in DOMAIN test, Opens(test[at'[1].pc])
              PROVE  Young' = {} /\ semval'["endp8"] <= 0
    BY DEF Closed
  <2>1. 1 # new
    BY <1>13, <1>14
  <2>2. current_process # 1
    <3> SUFFICES ASSUME current_process = 1 PROVE FALSE
      OBVIOUS
    <3>1. at'[1].pc = at[1].pc + 1 /\ at[1].prog = "test"
      BY <1>6, <1>8
    <3>2. test[at'[1].pc - 1].op = "reset"
      BY Surroundings
    <3>3. at[1] \in Place
      BY <1>0 DEF AtOK, Place
    <3>4. at'[1].pc - 1 = at[1].pc
      BY <3>1, <3>3 DEF Place
    <3>5. It = test[at[1].pc]
      BY <1>0, <3>1, RootDoes
    <3>6. QED  BY <1>1, <3>2, <3>4, <3>5
  <2>3. at'[1] = at[1]
    BY <1>0, <1>8, <2>1, <2>2
  <2>4. Young = {} /\ semval["endp8"] <= 0
    BY <1>0, <2>3 DEF Closed
  <2>5. It.prog # "p8root"
    BY <1>15, <2>2
  <2>6. QED  BY <1>11, <1>16, <1>17, <2>4, <2>5
<1>23. QED  BY <1>18, <1>19, <1>20, <1>21, <1>22 DEF TestInv

-----------------------------------------------------------------------------
(* Deaths *)

\* The current process dies with all of S.
DiesWith(S) ==
    /\ S \in SUBSET Live /\ current_process \in S
    /\ \A c \in Pcb : p_parent[c] \in S => c \in S
    /\ subTree_killer(S)

\* The death of the current process with a subtree.
LEMMA DeathTest ==
  ASSUME PlaceInv, TestInv, NEW op, Does(op), NEW S, DiesWith(S), NEW next, Goes(next, Nowhere)
  PROVE  TestInv'
<1>0. /\ AtOK /\ Round /\ Closed /\ WaitsPast /\ Tree8Shape /\ 1 \in Pcb
  BY Constants DEF TestInv
<1>1. /\ S \in SUBSET Live /\ S \in SUBSET Pcb /\ current_process \in S
      /\ pcbFree' = pcbFree \cup S /\ Live' = Live \ S
      /\ Live \in SUBSET Pcb /\ Live = Pcb \ pcbFree /\ pcbFree \in SUBSET Pcb
  BY DEF DiesWith, subTree_killer, Live, PlaceInv, TypeInv, TypeOK
<1>2. \A p \in Pcb : at'[p] = IF p \in pcbFree' THEN Nowhere ELSE at[p]
  BY <1>1 DEF Goes
<1>3. \A p \in Live' : /\ p \in Live /\ p \notin S /\ p \in Pcb
                       /\ at'[p] = at[p] /\ p_semAdd'[p] = p_semAdd[p]
                       /\ p_parent'[p] = p_parent[p]
  BY <1>1, <1>2 DEF DiesWith, subTree_killer, Live
<1>4. InTree8' = InTree8 \ S /\ Young' \subseteq Young
  <2>1. InTree8' = InTree8 \ S
    BY <1>1, <1>3 DEF InTree8
  <2>2. Young' \subseteq Young
    <3> SUFFICES ASSUME NEW r \in Pcb, r \in Young' PROVE r \in Young
      BY <1>1 DEF Young
    <3>1. r \in Live' /\ at'[r].prog = "p8root" /\ ~AtEnd(r)'
      BY DEF Young
    <3>2. r \in Live /\ at'[r] = at[r]
      BY <1>3, <3>1
    <3>3. QED  BY <3>1, <3>2 DEF Young, AtEnd
  <2>3. QED  BY <2>1, <2>2
<1>5. AtOK'
  <2>1. at' \in [Pcb -> Place]
    <3>1. at \in [Pcb -> Place] /\ Nowhere \in Place
      BY <1>0 DEF AtOK, Place, Nowhere
    <3>2. DOMAIN at' = Pcb /\ at' = [p \in Pcb |-> at'[p]]
      BY DEF Goes
    <3>3. QED  BY <1>2, <3>1, <3>2
  <2>2. \A p \in pcbFree' : at'[p] = Nowhere
    BY <1>1, <1>2
  <2>3. QED  BY <1>0, <1>3, <2>1, <2>2 DEF AtOK, Place
<1>6. WaitsPast'
  BY <1>0, <1>3 DEF WaitsPast
<1>7. Tree8Shape'
  <2>1. \A p \in InTree8' : p \in InTree8 /\ p \in Live'
    BY <1>4 DEF InTree8
  <2>2. \A p \in InTree8' : p_parent[p] \in Live'
    BY <1>0, <1>1, <1>3, <2>1 DEF Tree8Shape, DiesWith
  <2>3. QED  BY <1>0, <1>3, <2>1, <2>2 DEF Tree8Shape
\* The dead that waited for sem_endp8 are p1 if anybody.
<1>8. 1 \notin S => semval'["endp8"] = semval["endp8"]
  <2> SUFFICES ASSUME 1 \notin S PROVE semval'["endp8"] = semval["endp8"]
    OBVIOUS
  <2>1. "endp8" \in UserSem /\ "endp8" \in Sem
    BY Constants DEF TestSem, Sem
  <2>2. ASSUME NEW p \in S, p_semAdd[p] = "endp8" PROVE FALSE
    <3>1. PICK prog \in Progs : prog = at[p].prog
      BY <1>0, <1>1 DEF AtOK
    <3>2. PICK i \in DOMAIN Code[prog] : Code[prog][i] = P("endp8")[1]
      BY <1>0, <1>1, <2>1, <2>2, <3>1 DEF WaitsPast
    <3>3. Code[prog][i] \in Fitting(prog)
      BY Programs
    <3>4. prog = "test"
      BY <3>2, <3>3 DEF P, Fitting, Fits, Waits
    <3>5. QED  BY <1>0, <1>1, <3>1, <3>4 DEF AtOK
  <2>3. Refund(S, "endp8") = {}
    BY <2>1, <2>2 DEF Refund, Blocked
  <2>4. semval'["endp8"] = semval["endp8"] + Cardinality({})
    BY <2>1, <2>3 DEF DiesWith, subTree_killer
  <2>5. semval["endp8"] \in Int /\ Cardinality({}) = 0
    BY <2>1, FS_EmptySet DEF PlaceInv, TypeInv, TypeOK
  <2>6. QED  BY <2>4, <2>5
<1>9. 1 \notin S => at'[1] = at[1] /\ p_semAdd'[1] = p_semAdd[1]
  BY <1>0, <1>1, <1>2 DEF AtOK, DiesWith, subTree_killer
<1>10. Closed'
  <2>1. CASE 1 \in S
    <3>1. at'[1].prog = "none"
      BY <1>0, <1>1, <1>2, <2>1 DEF Nowhere
    <3>2. QED  BY <3>1 DEF Closed
  <2>2. CASE 1 \notin S
    BY <1>0, <1>4, <1>8, <1>9, <2>2 DEF Closed
  <2>3. QED  BY <2>1, <2>2
\* Roots hang from p1, which kills them all if it is among the dead.
<1>11. Round'
  <2> SUFFICES ASSUME NEW r \in Young' PROVE Round'
    BY DEF Round
  <2>1. r \in Live' /\ at'[r].prog = "p8root"
    BY DEF Young
  <2>2. r \in InTree8' /\ r \in InTree8 /\ r \notin S /\ at[r].prog = "p8root" /\ r \in Pcb
    BY <1>1, <1>3, <1>4, <2>1 DEF InTree8, Tree8
  <2>3. 1 \notin S
    <3>1. p_parent[r] \in Live /\ at[p_parent[r]].prog = "test"
      BY <1>0, <2>2 DEF Tree8Shape
    <3>2. p_parent[r] = 1
      BY <1>0, <3>1 DEF AtOK
    <3>3. QED  BY <2>2, <3>2 DEF DiesWith
  <2>4. /\ Opening => Opening'
        /\ Closing => Closing'
    BY <1>9, <2>3 DEF Opening, Closing
  <2>5. QED  BY <1>0, <1>4, <1>8, <1>9, <2>3, <2>4 DEF Round
<1>12. QED  BY <1>5, <1>6, <1>7, <1>10, <1>11 DEF TestInv

\* The two ways in which the test calls TERMPROCESS kill the caller.
LEMMA TerminateDies ==
  ASSUME PlaceInv, AtOK, Terminate
  PROVE  \E pid \in 0 .. MaxPid : terminate_process(pid) /\ \E S : DiesWith(S)
<1>1. PICK pid : /\ pid \in {0, GetProcessID(1)} /\ terminate_process(pid)
                 /\ \E op : Does(op)
  BY DEF Terminate
<1>2. /\ current_process \in Live /\ current_process \in Pcb /\ Live \in SUBSET Pcb
      /\ p_pid \in [Pcb -> {-1} \cup (1 .. MaxPid - 1)] /\ NULL \notin Pcb
      /\ TypeInv /\ FamilyTree /\ MaxPid \in Nat /\ next_pid \in Int
  BY <1>1, DoesFacts, PcbAssumption, NumberAssumption DEF PlaceInv, TypeInv, TypeOK, Live
<1>3. PICK t \in Live :
        /\ pid \in 0 .. MaxPid
        /\ (IF pid = 0 THEN {current_process} ELSE findByPid(pid)) = {t}
        /\ t = current_process \/ t = p_parent[current_process]
  <2>1. CASE pid = 0
    BY <1>2, <2>1
  <2>2. CASE pid # 0
    <3>1. p_parent[current_process] # NULL /\ pid = p_pid[p_parent[current_process]]
      BY <1>1, <2>2 DEF GetProcessID
    <3>2. PICK t \in Live : t = p_parent[current_process] /\ pid = p_pid[t]
      BY <1>2, <3>1 DEF FamilyTree
    <3>3. pid \in 1 .. MaxPid
      <4>1. p_pid[t] \in {-1} \cup (1 .. MaxPid - 1)
        BY <1>2, <3>2
      <4>2. p_pid[t] # -1
        BY <1>2, <3>2 DEF FamilyTree
      <4>3. QED  BY <1>2, <3>2, <4>1, <4>2
    <3>4. findByPid(pid) = {t}
      <4>1. \A p \in Pcb : p_pid[p] = pid => p \in Live
        <5>1. \A p \in pcbFree : p_pid[p] = NoPid
          BY <1>2 DEF FamilyTree
        <5>2. pid # NoPid
          BY <3>3 DEF NoPid
        <5>3. QED  BY <5>1, <5>2 DEF Live
      <4>2. QED  BY <1>2, <3>2, <4>1 DEF findByPid, FamilyTree
    <3>5. QED  BY <2>2, <3>2, <3>3, <3>4
  <2>3. QED  BY <2>1, <2>2
<1>4. PICK S : S = Subtree(t)
  OBVIOUS
<1>5. S \in SUBSET Live /\ \A c \in Pcb : p_parent[c] \in S => c \in S
  BY <1>2, <1>4, SubtreeLive
<1>6. t \in S
  BY <1>2, <1>4 DEF Subtree
<1>7. current_process \in S
  BY <1>2, <1>3, <1>5, <1>6
<1>8. subTree_killer(S)
  <2>1. UNION {Subtree(p) : p \in {t}} = S
    BY <1>4
  <2>2. subTree_killer(UNION {Subtree(p) : p \in {t}})
    BY <1>1, <1>3 DEF terminate_process
  <2>3. QED  BY <2>1, <2>2
<1>9. QED  BY <1>1, <1>3, <1>5, <1>7, <1>8 DEF DiesWith

\* An exception without a support structure kills the caller and what is below it.
LEMMA ExceptionDies ==
  ASSUME PlaceInv, AtOK, Exception, p_supportStruct[current_process] = NULL
  PROVE  \E S : DiesWith(S)
<1>1. Does("trap") /\ passup_or_die
  BY DEF Exception
<1>2. current_process \in Live /\ current_process \in Pcb /\ TypeInv /\ FamilyTree
  BY <1>1, DoesFacts DEF PlaceInv
<1>3. PICK S : S = Subtree(current_process)
  OBVIOUS
<1>4. S \in SUBSET Live /\ \A c \in Pcb : p_parent[c] \in S => c \in S
  BY <1>2, <1>3, SubtreeLive
<1>5. current_process \in S
  BY <1>2, <1>3 DEF Subtree
<1>6. subTree_killer(S)
  BY <1>1, <1>3 DEF passup_or_die
<1>7. QED  BY <1>4, <1>5, <1>6 DEF DiesWith

\* TERMPROCESS.
LEMMA TerminateTest ==
  ASSUME PlaceInv, TestInv, Terminate
  PROVE  TestInv'
<1>1. AtOK /\ Goes(Onward, Nowhere)
  BY DEF TestInv, Terminate, GoesOn
<1>2. PICK S : DiesWith(S)
  BY <1>1, TerminateDies
<1>3. PICK op \in {"terminate", "terminate parent"} : Does(op)
  BY DEF Terminate
<1>4. QED  BY <1>1, <1>2, <1>3, DeathTest

\* Exceptions.
LEMMA TrapTest ==
  ASSUME PlaceInv, TestInv, Exception
  PROVE  TestInv'
<1>1. CASE p_supportStruct[current_process] # NULL
  BY <1>1, HandledTest
<1>2. CASE p_supportStruct[current_process] = NULL
  <2>1. PICK S : DiesWith(S)
    BY <1>2, ExceptionDies DEF TestInv
  <2>2. Does("trap") /\ Goes(Onward, Nowhere)
    BY <1>2 DEF Exception
  <2>3. QED  BY <2>1, <2>2, DeathTest
<1>3. QED  BY <1>1, <1>2

-----------------------------------------------------------------------------
(* Interrupts *)

\* An interrupt moves nobody.
LEMMA InterruptKeeps ==
  ASSUME PlaceInv, TestInv, UNCHANGED <<at, pcbVars>>, SameWaits,
         semval'["endp8"] = semval["endp8"]
  PROVE  TestInv'
<1>1. /\ at' = at /\ pcbFree' = pcbFree /\ p_parent' = p_parent
      /\ Live' = Live /\ InTree8' = InTree8 /\ Live \in SUBSET Pcb /\ 1 \in Pcb
      /\ "endp8" \in UserSem
  BY Constants DEF pcbVars, Live, InTree8, TestSem
<1>2. AtOK' /\ Tree8Shape' /\ Young' = Young
  BY <1>1 DEF TestInv, AtOK, Tree8Shape, Young, AtEnd
<1>3. WaitsPast'
  BY <1>1 DEF TestInv, WaitsPast, SameWaits
<1>4. Closed'
  BY <1>1, <1>2 DEF TestInv, Closed
<1>5. Round'
  <2>1. (Opening => Opening') /\ (Closing => Closing')
    BY <1>1 DEF Opening, Closing
  <2>2. p_semAdd[1] = "endp8" => p_semAdd'[1] = "endp8"
    BY <1>1 DEF SameWaits
  <2>3. QED  BY <1>1, <1>2, <2>1, <2>2 DEF TestInv, Round
<1>6. QED  BY <1>2, <1>3, <1>4, <1>5 DEF TestInv

\* The end of a time slice.
LEMMA SliceTest ==
  ASSUME PlaceInv, TestInv, SliceEnds
  PROVE  TestInv'
<1>1. UNCHANGED <<at, pcbVars, semVars>>
  BY DEF SliceEnds, PLTInterrupt
<1>2. QED  BY <1>1, InterruptKeeps DEF semVars, SameWaits

\* The end of a function, after which the machine is not followed any further.
LEMMA FunctionTest ==
  ASSUME PlaceInv, TestInv, FunctionEnds
  PROVE  PlaceInv' /\ TestInv'
<1>1. /\ UNCHANGED <<pcbVars, semVars, current_process, ready_queue, p_s, counters, busy, at>>
      /\ cpu' = "lost"
  BY DEF FunctionEnds
<1>2. PlaceInv'
  <2>1. TypeInv'
    BY <1>1 DEF PlaceInv, TypeInv, TypeOK, Running, pcbVars, semVars, counters
  <2>2. FamilyTree' /\ PlacedNow'
    BY <1>1 DEF PlaceInv, FamilyTree, PlacedNow, Placed, OnCpu, Live, pcbVars, semVars
  <2>3. QED  BY <2>1, <2>2 DEF PlaceInv
<1>3. QED  BY <1>1, <1>2, InterruptKeeps DEF semVars, SameWaits

\* The terminal and the interval timer.
LEMMA OtherInterruptTest ==
  ASSUME PlaceInv, TestInv, OtherInterrupt
  PROVE  TestInv'
<1>1. "endp8" \in UserSem /\ "TERM0" \in KernelSem /\ PseudoClock \in KernelSem
  BY Constants DEF TestSem, KernelSem
<1>2. /\ UserSem \cap KernelSem = {} /\ NULL \notin UserSem /\ KernelSem \subseteq Sem
      /\ p_semAdd \in [Pcb -> Sem \cup {NULL}] /\ semval \in [Sem -> Int]
      /\ "endp8" \in Sem
  BY <1>1, SemAssumption DEF Sem, PlaceInv, TypeInv, TypeOK
<1>3. UNCHANGED <<at, pcbVars>>
  BY DEF OtherInterrupt, DeviceInterrupt, IntervalTimer
<1>4. CASE DeviceInterrupt("TERM0")
  <2>1. semval'["endp8"] = semval["endp8"]
    BY <1>1, <1>2, <1>4 DEF DeviceInterrupt
  <2>2. \/ p_semAdd' = p_semAdd
        \/ semd_h["TERM0"] # <<>> /\ RemoveBlocked("TERM0")
    BY <1>4 DEF DeviceInterrupt
  <2>3. SameWaits
    <3>1. CASE p_semAdd' = p_semAdd
      BY <3>1 DEF SameWaits
    <3>2. CASE semd_h["TERM0"] # <<>> /\ RemoveBlocked("TERM0")
      <4>1. \A p \in Pcb : \/ p_semAdd'[p] = p_semAdd[p]
                           \/ p_semAdd[p] = "TERM0" /\ p_semAdd'[p] = NULL
        BY <1>1, <1>2, <3>2, HeadWaits DEF PlaceInv
      <4>2. QED  BY <1>1, <1>2, <4>1 DEF SameWaits
    <3>3. QED  BY <2>2, <3>1, <3>2
  <2>4. QED  BY <1>3, <2>1, <2>3, InterruptKeeps
<1>5. CASE IntervalTimer
  <2>1. semval'["endp8"] = semval["endp8"]
    BY <1>1, <1>2, <1>5 DEF IntervalTimer, unblock_pseudoclock
  <2>2. ToSet(ClockWaiters) = {p \in Pcb \ pcbFree : p_semAdd[p] = PseudoClock}
    BY <1>1, <1>2 DEF PlaceInv, PlacedNow, Placed, ClockWaiters
  <2>3. SameWaits
    BY <1>1, <1>2, <1>5, <2>2 DEF IntervalTimer, unblock_pseudoclock, SameWaits
  <2>4. QED  BY <1>3, <2>1, <2>3, InterruptKeeps
<1>6. QED  BY <1>4, <1>5 DEF OtherInterrupt

-----------------------------------------------------------------------------
(* Every step *)

\* The caller of a TERMPROCESS does not outlive it.
Dying == \E pid \in 0 .. MaxPid : terminate_process(pid) /\ current_process \in pcbFree'

\* A step of the test is one of the nucleus, a reset, a check or the end of a function.
LEMMA TestSteps ==
  ASSUME PlaceInv, TestInv, [TestNext]_testVars
  PROVE  \/ OtherNext \/ Dying \/ UNCHANGED vars
         \/ ResetSemaphores \/ Check \/ FunctionEnds
<1>0. AtOK
  BY DEF TestInv
<1>1. CASE CreateProcess
  <2>1. It.prio \in Prio /\ It.sup \in Supports \cup {NULL}
    BY <1>0, <1>1, DoesFacts, InstructionFields DEF CreateProcess
  <2>2. create_process(It.prio, It.sup)
    BY <1>1 DEF CreateProcess
  <2>3. QED  BY <2>1, <2>2 DEF OtherNext
<1>2. CASE Terminate
  <2>1. PICK pid \in 0 .. MaxPid : terminate_process(pid) /\ \E S : DiesWith(S)
    BY <1>0, <1>2, TerminateDies
  <2>2. current_process \in pcbFree'
    BY <2>1 DEF DiesWith, subTree_killer
  <2>3. QED  BY <2>1, <2>2 DEF Dying
<1>3. CASE SemaphoreCall
  <2>1. CASE Does("passeren") /\ Passeren(It.sem)
    <3>1. It.sem \in UserSem
      BY <1>0, <2>1, DoesFacts, InstructionFields
    <3>2. QED  BY <2>1, <3>1 DEF OtherNext
  <2>2. CASE Does("verhogen") /\ Verhogen(It.sem)
    <3>1. It.sem \in UserSem
      BY <1>0, <2>2, DoesFacts, InstructionFields
    <3>2. QED  BY <2>2, <3>1 DEF OtherNext
  <2>3. QED  BY <1>3, <2>1, <2>2 DEF SemaphoreCall
<1>4. CASE WaitingCall
  <2>1. DoIO("TERM0") \/ WaitForClock \/ Yield
    BY <1>4 DEF WaitingCall
  <2>2. QED  BY <2>1, Constants DEF OtherNext
<1>5. CASE Exception
  BY <1>5 DEF Exception, OtherNext
<1>6. CASE HandlerReturns \/ Assign
  BY <1>6 DEF HandlerReturns, Assign
<1>7. CASE SliceEnds
  BY <1>7 DEF SliceEnds, OtherNext
<1>8. CASE OtherInterrupt
  BY <1>8, Constants DEF OtherInterrupt, OtherNext
<1>9. CASE UNCHANGED testVars
  BY <1>9 DEF testVars
<1>10. QED
  BY <1>1, <1>2, <1>3, <1>4, <1>5, <1>6, <1>7, <1>8, <1>9 DEF TestNext, Instruction

\* The first kind of these steps.
LEMMA NucleusSteps ==
  ASSUME OtherNext \/ Dying \/ UNCHANGED vars PROVE [Next]_vars
BY DEF OtherNext, Dying, Next

\* Every step keeps the two invariants.
LEMMA NextTest ==
  ASSUME PlaceInv, TestInv, [TestNext]_testVars
  PROVE  PlaceInv' /\ TestInv'
<1>1. PlaceInv'
  <2>1. CASE [Next]_vars
    BY <2>1, NextType, NextPlaces DEF PlaceInv
  <2>2. CASE ResetSemaphores
    BY <2>2, ResetTest
  <2>3. CASE Check
    BY <2>3, CheckTest
  <2>4. CASE FunctionEnds
    BY <2>4, FunctionTest
  <2>5. QED  BY <2>1, <2>2, <2>3, <2>4, TestSteps, NucleusSteps
<1>2. TestInv'
  <2>1. CASE CreateProcess
    BY <2>1, CreateTest, NotCreated
  <2>2. CASE Terminate
    BY <2>2, TerminateTest
  <2>3. CASE SemaphoreCall
    BY <2>3, PasserenTest, VerhogenTest DEF SemaphoreCall
  <2>4. CASE WaitingCall
    BY <2>4, WaitingTest
  <2>5. CASE Exception
    BY <2>5, TrapTest
  <2>6. CASE HandlerReturns
    BY <2>6, ReturnTest
  <2>7. CASE Assign
    BY <2>7, AssignTest
  <2>8. CASE ResetSemaphores
    BY <2>8, ResetTest
  <2>9. CASE Check
    BY <2>9, CheckTest
  <2>10. CASE SliceEnds
    BY <2>10, SliceTest
  <2>11. CASE OtherInterrupt
    BY <2>11, OtherInterruptTest
  <2>12. CASE FunctionEnds
    BY <2>12, FunctionTest
  <2>13. CASE UNCHANGED testVars
    <3>1. UNCHANGED <<at, pcbVars, semVars>>
      BY <2>13 DEF testVars, vars
    <3>2. QED  BY <3>1, InterruptKeeps DEF semVars, SameWaits
  <2>14. QED
    BY <2>1, <2>2, <2>3, <2>4, <2>5, <2>6, <2>7, <2>8, <2>9, <2>10, <2>11, <2>12, <2>13
       DEF TestNext, Instruction
<1>3. QED  BY <1>1, <1>2

\* They hold when p1 starts.
LEMMA InitTest == TestInit => Init /\ PlaceInv /\ TestInv
<1> SUFFICES ASSUME TestInit PROVE Init /\ PlaceInv /\ TestInv
  OBVIOUS
<1>1. Init /\ PlaceInv
  BY InitType, InitPlaces DEF TestInit, PlaceInv
<1>2. pcbFree = Pcb \ {1} /\ Live = {1} /\ 1 \in Pcb /\ p_semAdd = [p \in Pcb |-> NULL]
  BY Constants DEF TestInit, Init, Live
<1>3. at = [p \in Pcb |-> IF p = 1 THEN Entry("test") ELSE Nowhere]
  BY DEF TestInit
<1>4. AtOK
  BY <1>2, <1>3, ProgsAre DEF AtOK, Entry, Nowhere
<1>5. InTree8 = {} /\ Young = {}
  BY <1>2, <1>3 DEF InTree8, Young, Entry, Tree8, Children, Leaves
<1>6. semval["endp8"] = 0
  BY Constants DEF TestInit, InitialValue, Sem, TestSem
<1>7. WaitsPast
  BY <1>2, SemAssumption DEF WaitsPast, Sem
<1>8. QED  BY <1>1, <1>4, <1>5, <1>6, <1>7 DEF TestInv, Tree8Shape, Round, Closed

\* The invariant of the test.
LEMMA TestInvariant == TestSpec => [](PlaceInv /\ TestInv)
<1>1. TestInit => PlaceInv /\ TestInv
  BY InitTest
<1>2. PlaceInv /\ TestInv /\ [TestNext]_testVars => (PlaceInv /\ TestInv)'
  BY NextTest
<1>3. QED  BY <1>1, <1>2, PTL DEF TestSpec

-----------------------------------------------------------------------------
(* The theorems *)

\* While the test runs, every variable has its type and every process is in one place
\* and has its parent, as in any use of the nucleus.
THEOREM TestNucleus == TestSpec => [](TypeOK /\ OnePlace /\ FamilyTree)
<1>1. PlaceInv => TypeOK /\ OnePlace /\ FamilyTree
  BY PlacedIsOnePlace DEF PlaceInv, TypeInv
<1>2. QED  BY <1>1, TestInvariant, PTL

\* Whomever p1 may forget when it resets the semaphores of p8 is about to be killed: at a
\* reset nobody waits for them but on sem_blkp8, there only below a root of p8 that has
\* done its V and not yet ended, however many time slices ended at such a place.
THEOREM ResetsIdleCorrect == TestSpec => []ResetsIdle
<1>1. PlaceInv /\ TestInv => ResetsIdle
  <2> SUFFICES ASSUME PlaceInv, TestInv, Does("reset")
              PROVE  /\ \A s \in It.sems \ {"blkp8"} : semd_h[s] = <<>>
                     /\ \A p \in ToSet(semd_h["blkp8"]) :
                           \E r \in Live : AtEnd(r) /\ p \in Subtree(r)
    BY DEF ResetsIdle
  <2>1. QED  BY ResetAlone
<1>2. QED  BY <1>1, TestInvariant, PTL

\* A reset can make the value of sem_blkp8 and its queue disagree, in one direction: the
\* queue may hold waiters that the value does not tell of, the value never tells of
\* waiters that are not there.  All other user semaphores count their waiters throughout
\* the test, those of the devices and the clock are exact.
THEOREM TestSemaphores == TestSpec => [](WaitersCounted /\ KernelSemaphores)
<1> DEFINE Exact == \A s \in UserSem \ {"blkp8"} : UserExact(Len(semd_h[s]), semval[s])
           Bounded == Len(semd_h["blkp8"]) + semval["blkp8"] >= 0
<1>1. WaitersCounted <=> Exact /\ Bounded
  BY DEF WaitersCounted, UserExact
<1>2. "blkp8" \in UserSem /\ UserSem \subseteq Sem
  BY Constants DEF TestSem, Sem
<1>3. PlaceInv => \A s \in UserSem : Len(semd_h[s]) \in Nat /\ semval[s] \in Int
  BY <1>2 DEF PlaceInv, TypeInv, TypeOK
<1>4. TestInit => WaitersCounted /\ KernelSemaphores
  <2> SUFFICES ASSUME TestInit PROVE Exact /\ Bounded /\ KernelSemaphores
    BY <1>1
  <2>1. SemInv /\ PlaceInv
    BY InitTest, InitSemaphores
  <2>2. KernelSemaphores /\ \A s \in UserSem : UserExact(Len(semd_h[s]), semval[s])
    BY <2>1, SemInvParts
  <2>3. ASSUME NEW n \in Nat, NEW v \in Int, UserExact(n, v) PROVE n + v >= 0
    BY <2>3 DEF UserExact
  <2>4. QED  BY <1>2, <1>3, <2>1, <2>2, <2>3
<1>5. /\ PlaceInv /\ TestInv /\ PlaceInv' /\ (WaitersCounted /\ KernelSemaphores)
      /\ [TestNext]_testVars
      => (WaitersCounted /\ KernelSemaphores)'
  <2> SUFFICES ASSUME PlaceInv, TestInv, PlaceInv', Exact, Bounded, KernelSemaphores,
                      [TestNext]_testVars
              PROVE  Exact' /\ Bounded' /\ KernelSemaphores'
    BY DEF WaitersCounted, UserExact
  <2>1. \A s \in UserSem : Len(semd_h'[s]) \in Nat /\ semval'[s] \in Int
    BY <1>2 DEF PlaceInv, TypeInv, TypeOK
  <2>2. CASE [Next]_vars
    <3>1. SemStep
      BY <2>2, SemSteps
    <3>2. ASSUME NEW s \in UserSem
          PROVE  /\ UserExact(Len(semd_h[s]), semval[s]) => UserExact(Len(semd_h'[s]), semval'[s])
                 /\ Len(semd_h[s]) + semval[s] >= 0 => Len(semd_h'[s]) + semval'[s] >= 0
      <4>1. UserStep(Len(semd_h[s]), semval[s], Len(semd_h'[s]), semval'[s])
        BY <3>1 DEF SemStep
      <4>2. QED  BY <1>3, <2>1, <4>1, UserStepFacts
    <3>3. QED  BY <1>2, <3>1, <3>2 DEF SemStep
  <2>3. CASE Check \/ FunctionEnds
    <3>1. semd_h' = semd_h /\ semval' = semval /\ busy' = busy
      BY <2>3 DEF Check, FunctionEnds, semVars
    <3>2. QED  BY <3>1 DEF KernelSemaphores
  <2>4. CASE ResetSemaphores
    <3>1. /\ It.sems = RoundSems
          /\ \A s \in RoundSems : s \in Sem /\ (s # "blkp8" => semd_h[s] = <<>>)
      BY <2>4, ResetAlone DEF ResetSemaphores
    <3>2. /\ semd_h' = semd_h /\ busy' = busy
          /\ semval' = [s \in Sem |-> IF s \in RoundSems THEN 0 ELSE semval[s]]
      BY <2>4, <3>1 DEF ResetSemaphores
    <3>3. RoundSems \subseteq UserSem /\ UserSem \cap KernelSem = {} /\ "blkp8" \in RoundSems
      BY Constants, SemAssumption DEF RoundSems, TestSem
    <3>4. ASSUME NEW s \in UserSem \ {"blkp8"} PROVE UserExact(Len(semd_h'[s]), semval'[s])
      <4>1. CASE s \in RoundSems
        <5>1. semval'[s] = 0 /\ Len(semd_h'[s]) = 0
          BY <3>1, <3>2, <4>1
        <5>2. QED  BY <5>1 DEF UserExact
      <4>2. CASE s \notin RoundSems
        <5>1. semval'[s] = semval[s] /\ semd_h'[s] = semd_h[s]
          BY <1>2, <3>2, <4>2
        <5>2. QED  BY <5>1
      <4>3. QED  BY <4>1, <4>2
    <3>5. semval'["blkp8"] = 0
      BY <1>2, <3>2, <3>3
    <3>6. ASSUME NEW s \in KernelSem PROVE semval'[s] = semval[s]
      BY <3>2, <3>3 DEF Sem
    <3>7. KernelSemaphores'
      BY <3>2, <3>6 DEF KernelSemaphores, KernelSem
    <3>8. QED  BY <1>2, <2>1, <3>4, <3>5, <3>7
  <2>5. QED  BY <2>2, <2>3, <2>4, TestSteps, NucleusSteps
<1>6. QED  BY <1>4, <1>5, TestInvariant, PTL DEF TestSpec

\* The two counters of the scheduler are exact throughout the test.
THEOREM TestCounters == TestSpec => []CountersExact
<1>1. TestInit => CountersExact
  BY InitTest, InitCounters
<1>2. PlaceInv /\ TestInv /\ CountersExact /\ [TestNext]_testVars => CountersExact'
  <2> SUFFICES ASSUME PlaceInv, TestInv, CountersExact, [TestNext]_testVars
              PROVE  CountersExact'
    OBVIOUS
  <2>1. CASE [Next]_vars
    BY <2>1, NextCounters
  <2>2. CASE ResetSemaphores \/ Check \/ FunctionEnds
    BY <2>2 DEF ResetSemaphores, Check, FunctionEnds, CountersExact, Live, pcbVars, semVars,
       counters
  <2>3. QED  BY <2>1, <2>2, TestSteps, NucleusSteps
<1>3. QED  BY <1>1, <1>2, TestInvariant, PTL DEF TestSpec

\* In the test, too, a higher priority is always ahead in the ready queue and nobody is
\* overtaken by an equal, and whoever takes over the CPU is outranked by nobody there.
THEOREM TestOrder == TestSpec => TurnTaking /\ HighestFirst
<1> DEFINE Turns ==
      \A p, q \in ToSet(ready_queue') :
         \/ p_prio'[p] > p_prio'[q]
         \/ /\ p # q /\ p_prio'[p] = p_prio'[q]
            /\ p \in ToSet(ready_queue)
            /\ q \in ToSet(ready_queue) => Before(ready_queue, p, q)
         => Before(ready_queue', p, q)
    Highest ==
      current_process' \notin {NULL, current_process} =>
         \A q \in ToSet(ready_queue') :
            q = current_process \/ p_prio'[q] <= p_prio'[current_process']
<1>1. TestInit => SortedReady
  BY InitTest, EmptyFacts DEF Init, SortedReady, Sorted
<1>2. ASSUME PlaceInv, TestInv, SortedReady, [TestNext]_testVars PROVE PlaceInv' /\ Ordered
  <2>1. PlaceInv'
    BY <1>2, NextTest
  <2>2. CASE [Next]_vars
    BY <1>2, <2>1, <2>2, NextOrder
  <2>3. CASE ResetSemaphores \/ Check \/ FunctionEnds
    <3>1. /\ p_prio' = p_prio /\ ready_queue' = ready_queue
          /\ current_process' = current_process
      BY <2>3 DEF ResetSemaphores, Check, FunctionEnds, pcbVars, cpuVars
    <3>2. TypeInv /\ PlacedNow
      BY <1>2 DEF PlaceInv
    <3>3. QED  BY <1>2, <2>1, <3>1, <3>2, ReadyTurn, StayOrder
  <2>4. QED  BY <1>2, <2>1, <2>2, <2>3, TestSteps, NucleusSteps
<1>3. PlaceInv /\ TestInv /\ SortedReady /\ [TestNext]_testVars => SortedReady'
  BY <1>2 DEF Ordered, Turn, SortedReady
<1>4. PlaceInv /\ TestInv /\ SortedReady /\ [TestNext]_testVars => [Turns]_vars /\ [Highest]_vars
  <2> SUFFICES ASSUME PlaceInv, TestInv, SortedReady, [TestNext]_testVars
              PROVE  Turns /\ Highest
    OBVIOUS
  <2>1. PlaceInv' /\ Turn(p_prio', ready_queue, ready_queue')
    BY <1>2 DEF Ordered
  <2>2. p_prio' \in [Pcb -> Int] /\ ready_queue' \in Seq(Pcb)
    BY <2>1, NumberAssumption DEF PlaceInv, TypeInv, TypeOK
  <2>3. \A p, q \in ToSet(ready_queue') :
           p_prio'[p] > p_prio'[q] => Before(ready_queue', p, q)
    BY <2>1, <2>2, SortedBefore DEF Turn
  <2>4. Highest
    BY <1>2 DEF Ordered
  <2>5. QED  BY <2>1, <2>3, <2>4 DEF Turn
<1>5. QED
  BY <1>1, <1>3, <1>4, TestInvariant, PTL DEF TestSpec, TurnTaking, HighestFirst

\* In the test nobody outlives its own TERMPROCESS, so every process that is ready has
\* the state in which it lost the CPU.
THEOREM TestReadySaved == TestSpec => []ReadySaved
<1>1. TestInit => BlockedSaved /\ ReadySaved
  <2>1. Init => BlockedSaved /\ ReadySaved
    BY DEF Init, BlockedSaved, ReadySaved, ToSet
  <2>2. QED  BY <2>1, InitTest
<1>2. PlaceInv /\ TestInv /\ BlockedSaved /\ ReadySaved /\ [TestNext]_testVars
        => BlockedSaved' /\ ReadySaved'
  <2> SUFFICES ASSUME PlaceInv, TestInv, BlockedSaved, ReadySaved, [TestNext]_testVars
              PROVE  BlockedSaved' /\ ReadySaved'
    OBVIOUS
  <2>1. PlaceInv'
    BY NextTest
  <2>2. CASE OtherNext \/ Dying
    <3>1. BlockedSaved'
      BY <2>1, <2>2, NucleusSteps, NextSaves
    <3>2. SavedStep
      <4>1. CASE OtherNext
        BY <2>1, <4>1, OtherSaved
      <4>2. CASE Dying
        BY <2>1, <4>2, TerminateSaved DEF Dying, PlaceInv
      <4>3. QED  BY <2>2, <4>1, <4>2
    <3>3. QED  BY <3>1, <3>2 DEF SavedStep, ReadySaved
  <2>3. CASE UNCHANGED vars \/ ResetSemaphores \/ Check \/ FunctionEnds
    BY <2>3 DEF vars, cpuVars, semVars, ResetSemaphores, Check, FunctionEnds, BlockedSaved,
       ReadySaved
  <2>4. QED  BY <2>2, <2>3, TestSteps
<1>3. QED  BY <1>1, <1>2, TestInvariant, PTL DEF TestSpec

\* What the verdict of the scheduler becomes when the checks of the test may panic and
\* its functions may end, too.
Stops == CpuVerdict \/ (cpu \in {"panic", "lost"} /\ current_process # NULL)

\* The machine panics only when a check of the test fails, in the process that makes
\* it, or when every process waits for a V that nobody is left to do; it halts and
\* waits for the reasons that the scheduler gives, and no call of the nucleus leaves it
\* without a state to go on with: only a function of the test that ends does.
THEOREM TestStops == TestSpec => []Stops
<1>1. TestInit => CpuVerdict
  <2> SUFFICES ASSUME TestInit PROVE CpuVerdict
    OBVIOUS
  <2>1. cpu = "run" /\ current_process = 1 /\ Live # {}
    BY InitTest, Constants DEF TestInit, Init, Live
  <2>2. current_process # NULL
    BY <2>1, Constants, PcbAssumption
  <2>3. QED  BY <2>1, <2>2 DEF CpuVerdict, Running
<1>2. /\ PlaceInv /\ TestInv /\ CountersExact' /\ (WaitersCounted /\ KernelSemaphores)'
      /\ Stops /\ [TestNext]_testVars
      => Stops'
  <2> SUFFICES ASSUME PlaceInv, TestInv, CountersExact', KernelSemaphores', Stops,
                      [TestNext]_testVars
              PROVE  Stops'
    OBVIOUS
  <2>1. PlaceInv'
    BY NextTest
  <2>2. CASE UNCHANGED vars
    <3>1. UNCHANGED <<cpu, current_process, ready_queue, pcbFree, p_semAdd, busy>>
      BY <2>2 DEF vars, cpuVars, pcbVars, semVars
    <3>2. Live' = Live /\ Running' = Running
      BY <3>1 DEF Live, Running
    <3>3. QED  BY <3>1, <3>2 DEF Stops, CpuVerdict
  <2>3. CASE cpu \notin {"panic", "lost"} /\ [Next]_vars
    BY <2>1, <2>3, NextVerdict DEF Stops
  <2>4. CASE cpu \in {"panic", "lost"} /\ Next
    BY <2>4 DEF Next, create_process, terminate_process, Passeren, Verhogen, DoIO,
       DeviceInterrupt, WaitForClock, Yield, passup_or_die, PLTInterrupt, IntervalTimer, Running
  <2>5. CASE Check \/ ResetSemaphores \/ FunctionEnds
    <3>1. Running /\ current_process # NULL
      <4>1. Running
        BY <2>5 DEF Check, ResetSemaphores, FunctionEnds, Does
      <4>2. QED  BY <4>1 DEF PlaceInv, TypeInv
    <3>2. cpu' \in {"panic", "lost", "run"}
      BY <2>5, <3>1 DEF Check, ResetSemaphores, FunctionEnds, cpuVars, Running
    <3>3. current_process' = current_process
      BY <2>5 DEF Check, ResetSemaphores, FunctionEnds, cpuVars
    <3>4. CASE cpu' \in {"panic", "lost"}
      BY <3>1, <3>3, <3>4 DEF Stops
    <3>5. CASE cpu' = "run"
      BY <2>1, <3>5, RunVerdict DEF Stops
    <3>6. QED  BY <3>2, <3>4, <3>5
  <2>6. QED  BY <2>2, <2>3, <2>4, <2>5, TestSteps, NucleusSteps
<1>3. CpuVerdict => Stops
  BY DEF Stops
<1>4. QED  BY <1>1, <1>2, <1>3, TestInvariant, TestCounters, TestSemaphores, PTL DEF TestSpec
=============================================================================
