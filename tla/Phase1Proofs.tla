---------------------------- MODULE Phase1Proofs ---------------------------
(***************************************************************************)
(* The linked lists of pcb.c and asl.c, for any number of PCBs, any keys   *)
(* and any priorities: they are well linked, each PCB and each descriptor  *)
(* is in the list its fields say, insertBlocked never lacks a descriptor,  *)
(* and every call does what ProcessLists says.                             *)
(*                                                                         *)
(* The argument goes on from the layouts of ListProofs.                    *)
(*   1. The invariant, Linked(L): the heap is a layout of the lists L, and *)
(*      the fields of PCBs and descriptors agree with L.  L itself is no   *)
(*      variable of the program: Invariant says that there is one.         *)
(*   2. Each call of the interface turns Linked(L) into Linked(K), with a  *)
(*      K that its lemma describes.                                        *)
(*   3. From L come the five invariants of Phase1, from the steps from L   *)
(*      to K the refinement.                                               *)
(***************************************************************************)
EXTENDS ListProofs

-----------------------------------------------------------------------------
(* The inductive invariant *)

\* The heads of the lists that are in use, among them p_sib of a process without
\* parent: an empty list.
Used ==
    {pcbFree_h, semdFree_h, semd_h, ready_queue}
    \cup {s_procq(d) : d \in {e \in Semd : s_key[e] # NULL}}
    \cup {p_child(p) : p \in {q \in Pcb : Allocated(q)}}
    \cup {p_sib(p) : p \in {q \in Pcb : Allocated(q) /\ p_parent[q] = NULL}}

\* The types of the fields that are no links.
FieldTypes ==
    /\ p_parent \in [Pcb -> Pcb \cup {NULL}]
    /\ p_prio \in [Pcb -> Prio]
    /\ p_pid \in [Pcb -> {-1} \cup Pcb]
    /\ \A p \in Pcb : Allocated(p) => p_pid[p] = p
    /\ p_semAdd \in [Pcb -> Key \cup {NULL}]
    /\ s_key \in [Semd -> Key \cup {NULL}]

\* Which list p_list of each PCB is in.
PcbLists(L) ==
    /\ ToSet(L[pcbFree_h]) = {p_list(p) : p \in {q \in Pcb : ~Allocated(q)}}
    /\ ToSet(L[ready_queue])
          \subseteq {p_list(p) : p \in {q \in Pcb : Allocated(q) /\ p_semAdd[q] = NULL}}
    /\ \A d \in Semd : s_key[d] # NULL =>
          ToSet(L[s_procq(d)]) = {p_list(p) : p \in {q \in Pcb : p_semAdd[q] = s_key[d]}}
    /\ \A p \in Pcb : Allocated(p) => Full(list, p_list(p))

\* Which list each descriptor is in, in which order, and that there is one for
\* each semaphore that a process is blocked on, and no other.
SemdLists(L) ==
    /\ ToSet(L[semd_h]) = {s_link(d) : d \in {e \in Semd : s_key[e] # NULL}}
    /\ ToSet(L[semdFree_h]) = {s_link(d) : d \in {e \in Semd : s_key[e] = NULL}}
    /\ \A i, j \in 1 .. Len(L[semd_h]) :
          i < j => s_key[container_of(L[semd_h][i])] < s_key[container_of(L[semd_h][j])]
    /\ \A d, e \in Semd : s_key[d] = s_key[e] /\ s_key[d] # NULL => d = e
    /\ \A d \in Semd : s_key[d] # NULL => \E p \in Pcb : p_semAdd[p] = s_key[d]
    /\ \A p \in Pcb : p_semAdd[p] # NULL =>
          Allocated(p) /\ \E d \in Semd : s_key[d] = p_semAdd[p]

\* The lists of children, and p_sib of a process without parent.
FamilyLists(L) ==
    /\ \A p \in Pcb : Allocated(p) =>
          ToSet(L[p_child(p)]) = {p_sib(q) : q \in {c \in Pcb : p_parent[c] = p}}
    /\ \A p \in Pcb : Allocated(p) /\ p_parent[p] = NULL => L[p_sib(p)] = <<>>
    /\ \A p \in Pcb : p_parent[p] # NULL => Allocated(p) /\ Allocated(p_parent[p])

\* The heap holds the lists L, and the fields say of them what they should.
Linked(L) ==
    /\ Layout(list, Used, L)
    /\ FieldTypes /\ PcbLists(L) /\ SemdLists(L) /\ FamilyLists(L)

-----------------------------------------------------------------------------
(* What the invariant says of one cell *)

\* The heads of the lists in use.
LEMMA Heads ==
    /\ pcbFree_h \in Used /\ semdFree_h \in Used /\ semd_h \in Used /\ ready_queue \in Used
    /\ \A d \in Semd : s_procq(d) \in Used <=> s_key[d] # NULL
    /\ \A p \in Pcb : p_child(p) \in Used <=> Allocated(p)
    /\ \A p \in Pcb : p_sib(p) \in Used <=> Allocated(p) /\ p_parent[p] = NULL
    /\ \A p \in Pcb : p_list(p) \notin Used
    /\ \A d \in Semd : s_link(d) \notin Used
    /\ \A a \in Used :
          \/ a \in {pcbFree_h, semdFree_h, semd_h, ready_queue}
          \/ \E d \in Semd : a = s_procq(d) /\ s_key[d] # NULL
          \/ \E p \in Pcb : a = p_child(p) /\ Allocated(p)
          \/ \E p \in Pcb : a = p_sib(p) /\ Allocated(p) /\ p_parent[p] = NULL
<1>1. /\ pcbFree_h \in Used /\ semdFree_h \in Used /\ semd_h \in Used /\ ready_queue \in Used
      /\ \A a \in Used :
            \/ a \in {pcbFree_h, semdFree_h, semd_h, ready_queue}
            \/ \E d \in Semd : a = s_procq(d) /\ s_key[d] # NULL
            \/ \E p \in Pcb : a = p_child(p) /\ Allocated(p)
            \/ \E p \in Pcb : a = p_sib(p) /\ Allocated(p) /\ p_parent[p] = NULL
  BY DEF Used
<1>2. \A d \in Semd : s_procq(d) \in Used <=> s_key[d] # NULL
  BY <1>1, Cells DEF Used
<1>3. \A p \in Pcb : p_child(p) \in Used <=> Allocated(p)
  BY <1>1, Cells DEF Used
<1>4. \A p \in Pcb : p_sib(p) \in Used <=> Allocated(p) /\ p_parent[p] = NULL
  BY <1>1, Cells DEF Used
<1>5. (\A p \in Pcb : p_list(p) \notin Used) /\ (\A d \in Semd : s_link(d) \notin Used)
  BY <1>1, Cells
<1> QED BY <1>1, <1>2, <1>3, <1>4, <1>5

\* The kinds of cells that the lists consist of.
LEMMA Kinds ==
    ASSUME NEW L, Linked(L)
    PROVE  /\ \A a \in Used, c \in Cell : c \in Area(a, L[a]) <=> c = a \/ c \in ToSet(L[a])
           /\ \A c \in ToSet(L[pcbFree_h]) : \E p \in Pcb : c = p_list(p) /\ ~Allocated(p)
           /\ \A c \in ToSet(L[ready_queue]) :
                 \E p \in Pcb : c = p_list(p) /\ Allocated(p) /\ p_semAdd[p] = NULL
           /\ \A d \in Semd : s_key[d] # NULL => \A c \in ToSet(L[s_procq(d)]) :
                 \E p \in Pcb : c = p_list(p) /\ p_semAdd[p] = s_key[d]
           /\ \A c \in ToSet(L[semd_h]) : \E d \in Semd : c = s_link(d) /\ s_key[d] # NULL
           /\ \A c \in ToSet(L[semdFree_h]) : \E d \in Semd : c = s_link(d) /\ s_key[d] = NULL
           /\ \A p \in Pcb : Allocated(p) => \A c \in ToSet(L[p_child(p)]) :
                 \E q \in Pcb : c = p_sib(q) /\ p_parent[q] = p
           /\ \A p \in Pcb : Allocated(p) /\ p_parent[p] = NULL => ToSet(L[p_sib(p)]) = {}
<1>1. \A a \in Used, c \in Cell : c \in Area(a, L[a]) <=> c = a \/ c \in ToSet(L[a])
  BY DEF Area
<1>2. /\ \A c \in ToSet(L[pcbFree_h]) : \E p \in Pcb : c = p_list(p) /\ ~Allocated(p)
      /\ \A c \in ToSet(L[ready_queue]) :
            \E p \in Pcb : c = p_list(p) /\ Allocated(p) /\ p_semAdd[p] = NULL
      /\ \A d \in Semd : s_key[d] # NULL => \A c \in ToSet(L[s_procq(d)]) :
            \E p \in Pcb : c = p_list(p) /\ p_semAdd[p] = s_key[d]
  BY DEF Linked, PcbLists
<1>3. /\ \A c \in ToSet(L[semd_h]) : \E d \in Semd : c = s_link(d) /\ s_key[d] # NULL
      /\ \A c \in ToSet(L[semdFree_h]) : \E d \in Semd : c = s_link(d) /\ s_key[d] = NULL
  BY DEF Linked, SemdLists
<1>4. \A p \in Pcb : Allocated(p) => \A c \in ToSet(L[p_child(p)]) :
         \E q \in Pcb : c = p_sib(q) /\ p_parent[q] = p
  BY DEF Linked, FamilyLists
<1>5. \A p \in Pcb : Allocated(p) /\ p_parent[p] = NULL => ToSet(L[p_sib(p)]) = {}
  BY DEF Linked, FamilyLists, ToSet
<1> QED BY <1>1, <1>2, <1>3, <1>4, <1>5

\* A cell whose kind tells that it can only be in one list is outside of the
\* others.
LEMMA Alien ==
    ASSUME NEW L, Linked(L), NEW c \in Cell, c \notin Used,
           Kind(c) \notin {"p_list", "s_link", "p_sib"}
    PROVE  Outside(c, Used, L)
<1> SUFFICES ASSUME NEW a \in Used, c \in Area(a, L[a]) PROVE FALSE
  BY DEF Outside
<1>1. c \in ToSet(L[a])
  BY Kinds
<1>2. a # pcbFree_h /\ a # ready_queue
  BY <1>1, Kinds, Cells
<1>3. a # semd_h /\ a # semdFree_h
  BY <1>1, Kinds, Cells
<1>4. ASSUME NEW d \in Semd, a = s_procq(d), s_key[d] # NULL PROVE FALSE
  BY <1>1, <1>4, Kinds, Cells
<1>5. ASSUME NEW q \in Pcb, a = p_child(q), Allocated(q) PROVE FALSE
  BY <1>1, <1>5, Kinds, Cells
<1>6. ASSUME NEW q \in Pcb, a = p_sib(q), Allocated(q), p_parent[q] = NULL PROVE FALSE
  BY <1>1, <1>6, Kinds, Cells
<1> QED BY <1>2, <1>3, <1>4, <1>5, <1>6, Heads

\* p_list of a process that is neither blocked nor ready is in no list.
LEMMA PlistOutside ==
    ASSUME NEW L, Linked(L), NEW p \in Pcb, Allocated(p), p_semAdd[p] = NULL,
           p_list(p) \notin ToSet(L[ready_queue])
    PROVE  Outside(p_list(p), Used, L)
<1> SUFFICES ASSUME NEW a \in Used, p_list(p) \in Area(a, L[a]) PROVE FALSE
  BY DEF Outside
<1>1. p_list(p) \in ToSet(L[a])
  BY Kinds, Heads, Cells
<1>2. a # ready_queue
  BY <1>1
<1>3. a # pcbFree_h
  BY <1>1, Kinds, Cells
<1>4. a # semd_h /\ a # semdFree_h
  BY <1>1, Kinds, Cells
<1>5. ASSUME NEW d \in Semd, a = s_procq(d), s_key[d] # NULL PROVE FALSE
  BY <1>1, <1>5, Kinds, Cells
<1>6. ASSUME NEW q \in Pcb, a = p_child(q), Allocated(q) PROVE FALSE
  BY <1>1, <1>6, Kinds, Cells
<1>7. ASSUME NEW q \in Pcb, a = p_sib(q), Allocated(q), p_parent[q] = NULL PROVE FALSE
  BY <1>1, <1>7, Kinds, Cells
<1> QED BY <1>2, <1>3, <1>4, <1>5, <1>6, <1>7, Heads

\* p_child and p_sib of a free PCB are in no list.
LEMMA FreeOutside ==
    ASSUME NEW L, Linked(L), NEW p \in Pcb, ~Allocated(p)
    PROVE  Outside(p_child(p), Used, L) /\ Outside(p_sib(p), Used, L)
<1>1. Outside(p_child(p), Used, L)
  BY Alien, Heads, Cells
<1>2. ASSUME NEW a \in Used, p_sib(p) \in Area(a, L[a]) PROVE FALSE
  <2>1. p_sib(p) \in ToSet(L[a])
    BY <1>2, Kinds, Heads, Cells
  <2>2. p_parent[p] = NULL /\ NULL \notin Pcb
    BY DEF Linked, FamilyLists, Pcb, NULL
  <2>3. a # pcbFree_h /\ a # ready_queue
    BY <2>1, Kinds, Cells
  <2>4. a # semd_h /\ a # semdFree_h
    BY <2>1, Kinds, Cells
  <2>5. ASSUME NEW d \in Semd, a = s_procq(d), s_key[d] # NULL PROVE FALSE
    BY <2>1, <2>5, Kinds, Cells
  <2>6. ASSUME NEW q \in Pcb, a = p_child(q), Allocated(q) PROVE FALSE
    BY <2>1, <2>2, <2>6, Kinds, Cells
  <2>7. ASSUME NEW q \in Pcb, a = p_sib(q), Allocated(q), p_parent[q] = NULL PROVE FALSE
    BY <2>1, <2>7, Kinds, Cells
  <2> QED BY <2>3, <2>4, <2>5, <2>6, <2>7, Heads
<1> QED BY <1>1, <1>2 DEF Outside

-----------------------------------------------------------------------------
(* The ready queue *)

\* What the code reads of the lists.
LEMMA Reading ==
    ASSUME NEW L, Linked(L), NEW a \in Used
    PROVE  /\ Members(list, a) = L[a]
           /\ list_empty(list, a) <=> L[a] = <<>>
           /\ L[a] # <<>> => 1 \in 1 .. Len(L[a]) /\ list[a].next = L[a][1]
           /\ Queue(a) = [i \in 1 .. Len(L[a]) |-> container_of(L[a][i])]
           /\ L[a] \in Seq(Cell) /\ Len(L[a]) \in Nat
           /\ \A i \in 1 .. Len(L[a]) : L[a][i] \in ToSet(L[a]) /\ L[a][i] \in Cell
           /\ \A c \in ToSet(L[a]) : \E i \in 1 .. Len(L[a]) : c = L[a][i]
           /\ \A i, j \in 1 .. Len(L[a]) : L[a][i] = L[a][j] => i = j
           /\ DOMAIN L[a] = 1 .. Len(L[a])
<1>1. Layout(list, Used, L)
  BY DEF Linked
<1>2. Members(list, a) = L[a]
  BY <1>1, Cells, ListMembers
<1>3. /\ L[a] \in Seq(Cell) /\ Len(L[a]) \in Nat
      /\ IsInjective(L[a]) /\ DOMAIN L[a] = 1 .. Len(L[a])
      /\ \A i \in 1 .. Len(L[a]) : L[a][i] \in ToSet(L[a]) /\ L[a][i] \in Cell
      /\ \A c \in ToSet(L[a]) : \E i \in 1 .. Len(L[a]) : c = L[a][i]
      /\ list_empty(list, a) <=> L[a] = <<>>
      /\ L[a] # <<>> => 1 \in 1 .. Len(L[a]) /\ list[a].next = L[a][1]
  BY <1>1, ListFacts
<1>4. \A i, j \in 1 .. Len(L[a]) : L[a][i] = L[a][j] => i = j
  BY <1>3 DEF IsInjective
<1>5. Queue(a) = [i \in 1 .. Len(L[a]) |-> container_of(L[a][i])]
  BY <1>2, <1>3 DEF Queue
<1> QED BY <1>2, <1>3, <1>4, <1>5

\* The p_list in a list of PCBs is there when the PCB is in the queue.
LEMMA InQueue ==
    ASSUME NEW L, Linked(L), NEW a \in Used, NEW p \in Pcb,
           \A c \in ToSet(L[a]) : \E q \in Pcb : c = p_list(q)
    PROVE  p_list(p) \in ToSet(L[a]) <=> p \in ToSet(Queue(a))
<1> DEFINE m == L[a]
           q == Queue(a)
<1>1. /\ q = [i \in 1 .. Len(m) |-> container_of(m[i])]
      /\ \A i \in 1 .. Len(m) : m[i] \in ToSet(m)
      /\ \A c \in ToSet(m) : \E i \in 1 .. Len(m) : c = m[i]
  <2>1. Queue(a) = [i \in 1 .. Len(L[a]) |-> container_of(L[a][i])]
    BY Reading
  <2>2. /\ \A i \in 1 .. Len(L[a]) : L[a][i] \in ToSet(L[a])
        /\ \A c \in ToSet(L[a]) : \E i \in 1 .. Len(L[a]) : c = L[a][i]
    BY Reading
  <2> QED BY <2>1, <2>2
<1> HIDE DEF q
<1>2. ToSet(q) = {container_of(m[i]) : i \in 1 .. Len(m)}
  BY <1>1 DEF ToSet
<1>3. ASSUME p_list(p) \in ToSet(m) PROVE p \in ToSet(q)
  BY <1>1, <1>2, <1>3, Cells
<1>4. ASSUME p \in ToSet(q) PROVE p_list(p) \in ToSet(m)
  <2>1. PICK i \in 1 .. Len(m) : p = container_of(m[i])
    BY <1>2, <1>4
  <2>2. PICK r \in Pcb : m[i] = p_list(r)
    BY <1>1
  <2>3. r = p
    BY <2>1, <2>2, Cells
  <2> QED BY <1>1, <2>2, <2>3
<1> QED BY <1>3, <1>4 DEF q

\* What Held says of the lists.
LEMMA HeldNotReady ==
    ASSUME NEW L, Linked(L), NEW p \in Pcb, Held(p)
    PROVE  /\ Allocated(p) /\ p_semAdd[p] = NULL
           /\ p_list(p) \notin ToSet(L[ready_queue])
BY InQueue, Heads, Kinds DEF Held

\* A process that the nucleus holds is in no list.
LEMMA HeldOutside ==
    ASSUME NEW L, Linked(L), NEW p \in Pcb, Held(p)
    PROVE  Outside(p_list(p), Used, L)
BY HeldNotReady, PlistOutside

\* A step that changes the order, or the processes, of the ready queue only.
LEMMA ReadyChange ==
    ASSUME NEW L, Linked(L), NEW r \in Seq(Cell),
           \A c \in ToSet(r) : \E p \in Pcb : c = p_list(p) /\ Allocated(p) /\ p_semAdd[p] = NULL,
           UNCHANGED <<pcbVars, s_key>>,
           Layout(list', Used, [L EXCEPT ![ready_queue] = r]), Keeps(list, list')
    PROVE  Linked([L EXCEPT ![ready_queue] = r])'
<1> DEFINE K == [L EXCEPT ![ready_queue] = r]
<1>1. /\ p_parent' = p_parent /\ p_prio' = p_prio /\ p_pid' = p_pid /\ p_semAdd' = p_semAdd
      /\ s_key' = s_key
  BY DEF pcbVars
<1>2. Used' = Used /\ \A p : Allocated(p)' <=> Allocated(p)
  BY <1>1 DEF Used, Allocated
<1>3. /\ K[ready_queue] = r
      /\ \A a \in Used : a # ready_queue => K[a] = L[a]
  BY Heads DEF Linked, Layout
<1>4. K[pcbFree_h] = L[pcbFree_h] /\ K[semd_h] = L[semd_h] /\ K[semdFree_h] = L[semdFree_h]
  BY <1>3, Heads, Cells
<1>5. /\ \A d \in Semd : s_key[d] # NULL => K[s_procq(d)] = L[s_procq(d)]
      /\ \A p \in Pcb : Allocated(p) => K[p_child(p)] = L[p_child(p)]
      /\ \A p \in Pcb : Allocated(p) /\ p_parent[p] = NULL => K[p_sib(p)] = L[p_sib(p)]
  BY <1>3, Heads, Cells
<1> HIDE DEF K
<1>6. FieldTypes'
  BY <1>1, <1>2 DEF Linked, FieldTypes
<1>7. PcbLists(K)'
  <2>1. ToSet(K[pcbFree_h]) = {p_list(p) : p \in {q \in Pcb : ~Allocated(q)'}}
    BY <1>2, <1>4 DEF Linked, PcbLists
  <2>2. ToSet(K[ready_queue])
           \subseteq {p_list(p) : p \in {q \in Pcb : Allocated(q)' /\ p_semAdd'[q] = NULL}}
    BY <1>1, <1>2, <1>3
  <2>3. \A d \in Semd : s_key'[d] # NULL =>
           ToSet(K[s_procq(d)]) = {p_list(p) : p \in {q \in Pcb : p_semAdd'[q] = s_key'[d]}}
    BY <1>1, <1>5 DEF Linked, PcbLists
  <2>4. \A p \in Pcb : Allocated(p)' => Full(list', p_list(p))
    BY <1>2, Cells DEF Linked, PcbLists, Keeps
  <2> QED BY <2>1, <2>2, <2>3, <2>4 DEF PcbLists
<1>8. SemdLists(K)'
  BY <1>1, <1>2, <1>4 DEF Linked, SemdLists
<1>9. FamilyLists(K)'
  BY <1>1, <1>2, <1>5 DEF Linked, FamilyLists
<1>10. Layout(list', Used', K)
  BY <1>2 DEF K
<1> QED BY <1>6, <1>7, <1>8, <1>9, <1>10 DEF Linked, K

\* insertProcQ puts p in front of the first process of a lower priority.
LEMMA insertProcQLists ==
    ASSUME NEW L, Linked(L), NEW p \in Pcb, insertProcQ(p)
    PROVE  \E i \in 1 .. Len(L[ready_queue]) + 1 :
              /\ Linked([L EXCEPT ![ready_queue] = InsertAt(L[ready_queue], i, p_list(p))])'
              /\ \A j \in 1 .. i - 1 : ~Lower(container_of(L[ready_queue][j]), p)
              /\ i <= Len(L[ready_queue]) => Lower(container_of(L[ready_queue][i]), p)
<1> DEFINE m == L[ready_queue]
           new == p_list(p)
           lower == {i \in DOMAIN m : Lower(container_of(m[i]), p)}
           least == CHOOSE i \in lower : \A j \in lower : i <= j
           iter == m[least]
           P(i) == Puts(list, list', Used, L, ready_queue, new, InsertAt(m, i, new))
           Q(i) == /\ \A j \in 1 .. i - 1 : ~Lower(container_of(m[j]), p)
                   /\ i <= Len(m) => Lower(container_of(m[i]), p)
<1>1. /\ Members(list, ready_queue) = m /\ m \in Seq(Cell) /\ Len(m) \in Nat
      /\ DOMAIN m = 1 .. Len(m)
      /\ list_empty(list, ready_queue) <=> m = <<>>
  BY Reading, Heads
<1>2. /\ Held(p)
      /\ list' = IF list_empty(list, ready_queue)
                 THEN list_add(list, new, ready_queue)
                 ELSE IF lower # {}
                 THEN link(list, new, list[iter].prev, iter)
                 ELSE list_add_tail(list, new, ready_queue)
      /\ UNCHANGED <<pcbVars, s_key>>
  BY <1>1 DEF insertProcQ
<1>3. Layout(list, Used, L) /\ ready_queue \in Used /\ new \in Cell
  BY Heads, Cells DEF Linked
<1>4. Outside(new, Used, L)
  BY <1>2, HeldOutside
<1>5. \E i \in 1 .. Len(m) + 1 : P(i) /\ Q(i)
  <2>1. CASE m = <<>>
    <3>1. list' = list_add(list, new, ready_queue)
      BY <1>1, <1>2, <2>1
    <3>2. P(1)
      BY <1>3, <1>4, <3>1, AddLayout
    <3>3. 1 \in 1 .. Len(m) + 1 /\ Q(1)
      BY <1>1, <2>1
    <3> HIDE DEF P, Q, m
    <3> QED BY <3>2, <3>3
  <2>2. CASE m # <<>> /\ lower # {}
    <3>1. list' = link(list, new, list[iter].prev, iter)
      BY <1>1, <1>2, <2>2
    <3>2. least \in lower /\ \A j \in lower : least <= j
      <4>1. lower \in SUBSET Nat
        BY <1>1
      <4>2. \E i \in lower : \A j \in lower : i <= j
        <5> HIDE DEF lower
        <5> QED BY <2>2, <4>1, QT!LeastElement
      <4> HIDE DEF lower
      <4> QED BY <4>2
    <3> HIDE DEF least
    <3>3. least \in 1 .. Len(m) /\ least \in 1 .. Len(m) + 1
      BY <1>1, <3>2
    <3>4. Q(least)
      <4>1. \A j \in 1 .. least - 1 : j \in 1 .. Len(m) /\ ~(least <= j)
        BY <1>1, <3>3
      <4> QED BY <1>1, <3>2, <4>1
    <3>5. At(ready_queue, m, least) = iter
      BY <3>3 DEF At
    <3> HIDE DEF lower, Q
    <3>6. P(least)
      <4>1. ASSUME NEW i \in 1 .. Len(L[ready_queue]) + 1
            PROVE  /\ list[At(ready_queue, L[ready_queue], i)].prev =
                         At(ready_queue, L[ready_queue], i - 1)
                   /\ Puts(list, link(list, new, At(ready_queue, L[ready_queue], i - 1),
                                      At(ready_queue, L[ready_queue], i)),
                           Used, L, ready_queue, new, InsertAt(L[ready_queue], i, new))
        BY <1>3, <1>4, LinkLayout
      <4> QED BY <3>1, <3>3, <3>5, <4>1
    <3> HIDE DEF P
    <3> QED BY <3>3, <3>4, <3>6
  <2>3. CASE m # <<>> /\ lower = {}
    <3>1. list' = list_add_tail(list, new, ready_queue)
      BY <1>1, <1>2, <2>3
    <3>2. InsertAt(m, Len(m) + 1, new) = Append(m, new)
      BY <1>1, <1>3, InsertedAtTail
    <3>3. P(Len(m) + 1)
      BY <1>3, <1>4, <3>1, <3>2, AddTailLayout
    <3>4. Len(m) + 1 \in 1 .. Len(m) + 1 /\ Q(Len(m) + 1)
      BY <1>1, <2>3
    <3> HIDE DEF P, Q, m
    <3> QED BY <3>3, <3>4
  <2> QED BY <2>1, <2>2, <2>3
<1>6. PICK i \in 1 .. Len(m) + 1 : P(i) /\ Q(i)
  BY <1>5
<1> DEFINE r == InsertAt(m, i, new)
<1>7. /\ Layout(list', Used, [L EXCEPT ![ready_queue] = r]) /\ r \in Seq(Cell)
      /\ ToSet(r) = ToSet(m) \cup {new}
      /\ Keeps(list, list')
  BY <1>6 DEF Puts
<1> HIDE DEF r
<1>8. \A c \in ToSet(r) : \E q \in Pcb : c = p_list(q) /\ Allocated(q) /\ p_semAdd[q] = NULL
  <2>1. \A c \in ToSet(m) : \E q \in Pcb : c = p_list(q) /\ Allocated(q) /\ p_semAdd[q] = NULL
    BY Kinds
  <2>2. Allocated(p) /\ p_semAdd[p] = NULL
    BY <1>2 DEF Held
  <2> HIDE DEF m
  <2> QED BY <1>7, <2>1, <2>2
<1>9. Linked([L EXCEPT ![ready_queue] = r])'
  BY <1>2, <1>7, <1>8, ReadyChange
<1> QED BY <1>6, <1>9 DEF r

\* removeProcQ takes the first process out, and leaves its fields as they were.
LEMMA removeProcQLists ==
    ASSUME NEW L, Linked(L), removeProcQ
    PROVE  /\ Len(L[ready_queue]) > 0
           /\ Linked([L EXCEPT ![ready_queue] = RemoveAt(L[ready_queue], 1)])'
<1> DEFINE m == L[ready_queue]
           r == RemoveAt(m, 1)
<1>1. /\ m \in Seq(Cell) /\ Len(m) \in Nat
      /\ list_empty(list, ready_queue) <=> m = <<>>
      /\ m # <<>> => 1 \in 1 .. Len(m) /\ list[ready_queue].next = m[1]
      /\ \A i \in 1 .. Len(m) : m[i] \in ToSet(m)
  BY Reading, Heads
<1>2. /\ ~list_empty(list, ready_queue)
      /\ list' = unlink(list, ready_queue, list[p_list(headProcQ)].next)
      /\ UNCHANGED <<pcbVars, s_key>>
  BY DEF removeProcQ
<1>3. 1 \in 1 .. Len(m) /\ list[ready_queue].next = m[1] /\ Len(m) > 0
  BY <1>1, <1>2
<1>4. p_list(headProcQ) = m[1]
  <2>1. headProcQ = container_of(m[1])
    BY <1>2, <1>3 DEF headProcQ
  <2>2. PICK q \in Pcb : m[1] = p_list(q)
    <3> HIDE DEF r
    <3>1. m[1] \in ToSet(L[ready_queue])
      BY <1>1, <1>3
    <3> HIDE DEF m
    <3> QED BY <3>1, Kinds
  <2> QED BY <2>1, <2>2, Cells
<1>5. /\ list[m[1]].next = At(ready_queue, m, 1 + 1)
      /\ Takes(list, unlink(list, At(ready_queue, m, 1 - 1), At(ready_queue, m, 1 + 1)),
               Used, L, ready_queue, m[1], r)
  BY <1>3, Heads, UnlinkLayout DEF Linked
<1>6. At(ready_queue, m, 1 - 1) = ready_queue
  BY DEF At
<1>7. Takes(list, list', Used, L, ready_queue, m[1], r)
  BY <1>2, <1>4, <1>5, <1>6
<1> HIDE DEF r
<1>8. /\ Layout(list', Used, [L EXCEPT ![ready_queue] = r]) /\ r \in Seq(Cell)
      /\ ToSet(r) = ToSet(m) \ {m[1]}
      /\ Keeps(list, list')
  BY <1>7 DEF Takes
<1>9. \A c \in ToSet(r) : \E q \in Pcb : c = p_list(q) /\ Allocated(q) /\ p_semAdd[q] = NULL
  <2>1. \A c \in ToSet(m) : \E q \in Pcb : c = p_list(q) /\ Allocated(q) /\ p_semAdd[q] = NULL
    BY Kinds
  <2> HIDE DEF m
  <2> QED BY <1>8, <2>1
<1>10. Linked([L EXCEPT ![ready_queue] = r])'
  BY <1>2, <1>8, <1>9, ReadyChange
<1> QED BY <1>3, <1>10 DEF r

\* outProcQ takes its process out, from wherever it is in the queue.
LEMMA outProcQLists ==
    ASSUME NEW L, Linked(L), NEW p \in Pcb, outProcQ(p)
    PROVE  \E i \in 1 .. Len(L[ready_queue]) :
              /\ L[ready_queue][i] = p_list(p)
              /\ Linked([L EXCEPT ![ready_queue] = RemoveAt(L[ready_queue], i)])'
<1> DEFINE m == L[ready_queue]
           same == {i \in DOMAIN m : p_pid[container_of(m[i])] = p_pid[p]}
           least == CHOOSE i \in same : \A j \in same : i <= j
<1>1. /\ Members(list, ready_queue) = m /\ m \in Seq(Cell) /\ Len(m) \in Nat
      /\ DOMAIN m = 1 .. Len(m)
      /\ \A i \in 1 .. Len(m) : m[i] \in ToSet(m)
  BY Reading, Heads
<1>2. /\ Allocated(p) /\ same # {} /\ list' = list_del(list, m[least])
      /\ UNCHANGED <<pcbVars, s_key>>
  BY <1>1 DEF outProcQ
<1>3. least \in same
  <2>1. same \in SUBSET Nat
    BY <1>1
  <2>2. \E i \in same : \A j \in same : i <= j
    <3> HIDE DEF same
    <3> QED BY <1>2, <2>1, QT!LeastElement
  <2> HIDE DEF same
  <2> QED BY <2>2
<1>4. PICK i \in 1 .. Len(m) : i = least /\ p_pid[container_of(m[i])] = p_pid[p]
  BY <1>1, <1>3
<1>5. m[i] = p_list(p)
  <2>1. PICK q \in Pcb : m[i] = p_list(q) /\ Allocated(q)
    BY <1>1, Kinds
  <2>2. p_pid[q] = q /\ p_pid[p] = p
    BY <1>2, <2>1 DEF Linked, FieldTypes
  <2> QED BY <1>4, <2>1, <2>2, Cells
<1> DEFINE r == RemoveAt(m, i)
<1>6. Takes(list, list', Used, L, ready_queue, m[i], r)
  <2>1. list' = list_del(list, m[i])
    BY <1>2, <1>4
  <2> QED BY <2>1, Heads, DelLayout DEF Linked
<1> HIDE DEF r
<1>7. /\ Layout(list', Used, [L EXCEPT ![ready_queue] = r]) /\ r \in Seq(Cell)
      /\ ToSet(r) = ToSet(m) \ {m[i]}
      /\ Keeps(list, list')
  BY <1>6 DEF Takes
<1>8. \A c \in ToSet(r) : \E q \in Pcb : c = p_list(q) /\ Allocated(q) /\ p_semAdd[q] = NULL
  <2>1. \A c \in ToSet(m) : \E q \in Pcb : c = p_list(q) /\ Allocated(q) /\ p_semAdd[q] = NULL
    BY Kinds
  <2> HIDE DEF m
  <2> QED BY <1>7, <2>1
<1>9. Linked([L EXCEPT ![ready_queue] = r])'
  BY <1>2, <1>7, <1>8, ReadyChange
<1> QED BY <1>5, <1>9 DEF r

-----------------------------------------------------------------------------
(* allocPcb and freePcb *)

\* A cell outside of a layout is outside of one with less in a list, with another
\* cell in it, or with one list more.
LEMMA OutsideLess ==
    ASSUME NEW H, NEW L \in [H -> Seq(Cell)], NEW head \in H, NEW r \in Seq(Cell),
           ToSet(r) \subseteq ToSet(L[head]), NEW c, Outside(c, H, L)
    PROVE  Outside(c, H, [L EXCEPT ![head] = r])
BY OutsideExcept DEF Outside, Area

\* A cell that is in no list is in none when another one is put into a list, ...
LEMMA OutsidePut ==
    ASSUME NEW H, NEW L \in [H -> Seq(Cell)], NEW head \in H, NEW r \in Seq(Cell), NEW new,
           ToSet(r) = ToSet(L[head]) \cup {new}, NEW c, c # new, Outside(c, H, L)
    PROVE  Outside(c, H, [L EXCEPT ![head] = r])
BY OutsideExcept DEF Outside, Area

\* ... when there is an empty list more, ...
LEMMA OutsideMore ==
    ASSUME NEW H, NEW L, NEW cell, NEW c, c # cell, Outside(c, H, L)
    PROVE  Outside(c, H \cup {cell}, OneMore(H, L, cell))
<1>1. Area(cell, <<>>) = {cell}
  BY DEF Area, ToSet
<1> QED BY <1>1 DEF Outside, OneMore

\* ... and when there are fewer lists.
LEMMA OutsideFewer ==
    ASSUME NEW H, NEW L, NEW G \in SUBSET H, NEW c, Outside(c, H, L)
    PROVE  Outside(c, G, Some(G, L))
BY DEF Outside, Some

\* The lists of PCBs that are not free, and the descriptors, stay as they are.
SameQueues(L, K) ==
    /\ K[ready_queue] = L[ready_queue]
    /\ \A d \in Semd : s_key[d] # NULL => K[s_procq(d)] = L[s_procq(d)]

\* A step that changes the list of free PCBs, and the lists of one PCB that
\* belongs to no one: what it leaves alone.
PoolFrame(L, K, e) ==
    /\ p_parent' = p_parent /\ p_semAdd' = p_semAdd /\ s_key' = s_key
    /\ p_prio' \in [Pcb -> Prio]
    /\ p_parent[e] = NULL /\ p_semAdd[e] = NULL /\ \A c \in Pcb : p_parent[c] # e
    /\ p_list(e) \notin ToSet(L[ready_queue])
    /\ Layout(list', Used', K) /\ Keeps(list, list')
    /\ SameQueues(L, K) /\ K[semd_h] = L[semd_h] /\ K[semdFree_h] = L[semdFree_h]
    /\ \A q \in Pcb : q # e /\ Allocated(q) => K[p_child(q)] = L[p_child(q)]
    /\ \A q \in Pcb : q # e /\ Allocated(q) /\ p_parent[q] = NULL => K[p_sib(q)] = L[p_sib(q)]

\* What allocPcb and freePcb do to the PCB.
PoolTake(L, K, e) ==
    /\ p_pid' = [p_pid EXCEPT ![e] = e]
    /\ K[p_child(e)] = <<>> /\ K[p_sib(e)] = <<>> /\ Full(list', p_list(e))
    /\ ToSet(K[pcbFree_h]) = ToSet(L[pcbFree_h]) \ {p_list(e)}

PoolGive(L, K, e) ==
    /\ p_pid' = [p_pid EXCEPT ![e] = -1]
    /\ ToSet(K[pcbFree_h]) = ToSet(L[pcbFree_h]) \cup {p_list(e)}

\* Either of them keeps the invariant.
LEMMA PoolChange ==
    ASSUME NEW L, Linked(L), NEW K, NEW e \in Pcb, PoolFrame(L, K, e),
           PoolTake(L, K, e) \/ PoolGive(L, K, e)
    PROVE  Linked(K)'
<1> DEFINE v == p_pid'[e]
<1>1. /\ FieldTypes /\ PcbLists(L) /\ SemdLists(L) /\ FamilyLists(L)
      /\ p_pid \in [Pcb -> {-1} \cup Pcb] /\ e # -1 /\ -1 \notin Pcb
  BY DEF Linked, FieldTypes, Pcb
<1>2. /\ v \in {-1, e} /\ p_pid' = [p_pid EXCEPT ![e] = v]
      /\ v = e => /\ K[p_child(e)] = <<>> /\ K[p_sib(e)] = <<>> /\ Full(list', p_list(e))
                  /\ ToSet(K[pcbFree_h]) = ToSet(L[pcbFree_h]) \ {p_list(e)}
      /\ v = -1 => ToSet(K[pcbFree_h]) = ToSet(L[pcbFree_h]) \cup {p_list(e)}
  BY <1>1 DEF PoolTake, PoolGive
<1> HIDE DEF v
<1>3. /\ p_parent' = p_parent /\ p_semAdd' = p_semAdd /\ s_key' = s_key
      /\ p_prio' \in [Pcb -> Prio]
      /\ p_parent[e] = NULL /\ p_semAdd[e] = NULL /\ \A c \in Pcb : p_parent[c] # e
  BY DEF PoolFrame
<1>4. /\ p_list(e) \notin ToSet(L[ready_queue])
      /\ Layout(list', Used', K) /\ Keeps(list, list')
      /\ SameQueues(L, K) /\ K[semd_h] = L[semd_h] /\ K[semdFree_h] = L[semdFree_h]
  BY DEF PoolFrame
<1>5. /\ \A q \in Pcb : q # e /\ Allocated(q) => K[p_child(q)] = L[p_child(q)]
      /\ \A q \in Pcb : q # e /\ Allocated(q) /\ p_parent[q] = NULL => K[p_sib(q)] = L[p_sib(q)]
  BY DEF PoolFrame
<1>6. /\ \A q \in Pcb : q # e => (Allocated(q)' <=> Allocated(q))
      /\ Allocated(e)' <=> v = e
  BY <1>1, <1>2 DEF Allocated
<1>7. FieldTypes'
  <2>1. p_pid' \in [Pcb -> {-1} \cup Pcb]
    BY <1>1, <1>2
  <2>2. \A p \in Pcb : Allocated(p)' => p_pid'[p] = p
    BY <1>1, <1>2, <1>6 DEF FieldTypes
  <2> QED BY <1>1, <1>3, <2>1, <2>2 DEF FieldTypes
<1>8. PcbLists(K)'
  <2>1. ToSet(K[pcbFree_h]) = {p_list(p) : p \in {q \in Pcb : ~Allocated(q)'}}
    <3>1. \A c \in ToSet(L[pcbFree_h]) : \E p \in Pcb : c = p_list(p) /\ ~Allocated(p)
      BY Kinds
    <3>2. \A p \in Pcb : ~Allocated(p) => p_list(p) \in ToSet(L[pcbFree_h])
      BY <1>1 DEF PcbLists
    <3>3. \A p, q \in Pcb : p_list(p) = p_list(q) => p = q
      BY Cells
    <3>4. CASE v = e
      BY <1>2, <1>6, <3>1, <3>2, <3>3, <3>4
    <3>5. CASE v = -1
      BY <1>1, <1>2, <1>6, <3>1, <3>2, <3>3, <3>5
    <3> QED BY <1>2, <3>4, <3>5
  <2>2. ToSet(K[ready_queue])
           \subseteq {p_list(p) : p \in {q \in Pcb : Allocated(q)' /\ p_semAdd'[q] = NULL}}
    <3>1. \A c \in ToSet(L[ready_queue]) :
             \E p \in Pcb : c = p_list(p) /\ Allocated(p) /\ p_semAdd[p] = NULL
      BY Kinds
    <3> QED BY <1>3, <1>4, <1>6, <3>1 DEF SameQueues
  <2>3. \A d \in Semd : s_key'[d] # NULL =>
           ToSet(K[s_procq(d)]) = {p_list(p) : p \in {q \in Pcb : p_semAdd'[q] = s_key'[d]}}
    BY <1>1, <1>3, <1>4 DEF PcbLists, SameQueues
  <2>4. ASSUME NEW p \in Pcb, Allocated(p)' PROVE Full(list', p_list(p))
    <3>1. CASE p = e
      BY <1>2, <1>6, <2>4, <3>1
    <3>2. CASE p # e
      BY <1>1, <1>4, <1>6, <2>4, <3>2, Cells DEF PcbLists, Keeps
    <3> QED BY <3>1, <3>2
  <2> QED BY <2>1, <2>2, <2>3, <2>4 DEF PcbLists
<1>9. SemdLists(K)'
  <2>1. \A p \in Pcb : p_semAdd'[p] # NULL =>
           Allocated(p)' /\ \E d \in Semd : s_key'[d] = p_semAdd'[p]
    BY <1>1, <1>3, <1>6 DEF SemdLists
  <2> QED BY <1>1, <1>3, <1>4, <2>1 DEF SemdLists
<1>10. FamilyLists(K)'
  <2>1. ASSUME NEW p \in Pcb, Allocated(p)'
        PROVE  ToSet(K[p_child(p)]) = {p_sib(q) : q \in {c \in Pcb : p_parent'[c] = p}}
    <3>1. CASE p = e
      <4>1. ToSet(<<>>) = {}
        BY DEF ToSet
      <4> QED BY <1>2, <1>3, <1>6, <2>1, <3>1, <4>1
    <3>2. CASE p # e
      BY <1>1, <1>3, <1>5, <1>6, <2>1, <3>2 DEF FamilyLists
    <3> QED BY <3>1, <3>2
  <2>2. ASSUME NEW p \in Pcb, Allocated(p)', p_parent'[p] = NULL PROVE K[p_sib(p)] = <<>>
    BY <1>1, <1>2, <1>3, <1>5, <1>6, <2>2 DEF FamilyLists
  <2>3. ASSUME NEW p \in Pcb, p_parent'[p] # NULL
        PROVE  Allocated(p)' /\ Allocated(p_parent[p])'
    <3>1. p # e /\ p_parent[p] # e /\ p_parent[p] \in Pcb
      BY <1>1, <1>3, <2>3 DEF FieldTypes
    <3> QED BY <1>1, <1>3, <1>6, <2>3, <3>1 DEF FamilyLists
  <2> QED BY <1>3, <2>1, <2>2, <2>3 DEF FamilyLists
<1> QED BY <1>4, <1>7, <1>8, <1>9, <1>10 DEF Linked

\* The first free PCB becomes a process without family.
LEMMA allocPcbLists ==
    ASSUME NEW L, Linked(L), NEW prio \in Prio, allocPcb(prio)
    PROVE  \E e \in Pcb : \E K :
              /\ ~Allocated(e) /\ p_prio' = [p_prio EXCEPT ![e] = prio]
              /\ p_pid' = [p_pid EXCEPT ![e] = e]
              /\ p_parent' = p_parent /\ p_semAdd' = p_semAdd /\ s_key' = s_key
              /\ Linked(K)' /\ SameQueues(L, K)
<1> DEFINE m == L[pcbFree_h]
           r == RemoveAt(m, 1)
           e == container_of(list[pcbFree_h].next)
           L1 == [L EXCEPT ![pcbFree_h] = r]
           h1 == list_del(list, p_list(e))
           h2 == INIT_LIST_HEAD(h1, p_child(e))
           h3 == INIT_LIST_HEAD(h2, p_sib(e))
           h4 == INIT_LIST_HEAD(h3, p_list(e))
           H2 == Used \cup {p_child(e)}
           L2 == OneMore(Used, L1, p_child(e))
           H3 == H2 \cup {p_sib(e)}
           L3 == OneMore(H2, L2, p_sib(e))
<1>1. /\ ~list_empty(list, pcbFree_h)
      /\ list' = h4
      /\ p_parent' = [p_parent EXCEPT ![e] = NULL]
      /\ p_prio' = [p_prio EXCEPT ![e] = prio]
      /\ p_pid' = [p_pid EXCEPT ![e] = e]
      /\ p_semAdd' = [p_semAdd EXCEPT ![e] = NULL]
      /\ s_key' = s_key
  BY DEF allocPcb, Fresh
<1>2. 1 \in 1 .. Len(m) /\ list[pcbFree_h].next = m[1] /\ m[1] \in ToSet(m)
  BY <1>1, Reading, Heads
<1>3. e \in Pcb /\ ~Allocated(e) /\ m[1] = p_list(e)
  BY <1>2, Kinds, Cells
<1>4. /\ Takes(list, h1, Used, L, pcbFree_h, p_list(e), r)
      /\ Chain(h1, p_list(e), <<>>)
  <2>1. /\ Takes(list, list_del(list, L[pcbFree_h][1]), Used, L, pcbFree_h,
                 L[pcbFree_h][1], RemoveAt(L[pcbFree_h], 1))
        /\ Chain(list_del(list, L[pcbFree_h][1]), L[pcbFree_h][1], <<>>)
    BY <1>2, Heads, DelLayout DEF Linked
  <2> HIDE DEF e
  <2> QED BY <1>3, <2>1
<1> HIDE DEF e
<1>5. /\ Layout(h1, Used, L1) /\ r \in Seq(Cell) /\ ToSet(r) = ToSet(m) \ {p_list(e)}
      /\ Outside(p_list(e), Used, L1) /\ Keeps(list, h1)
  BY <1>4 DEF Takes
<1>6. /\ p_list(e) \in Cell /\ p_child(e) \in Cell /\ p_sib(e) \in Cell
      /\ p_list(e) # p_child(e) /\ p_list(e) # p_sib(e) /\ p_child(e) # p_sib(e)
  BY <1>3, Cells
<1>7. L \in [Used -> Seq(Cell)] /\ pcbFree_h \in Used /\ ToSet(r) \subseteq ToSet(L[pcbFree_h])
  BY <1>5, Heads DEF Linked, Layout
<1>8. Outside(p_child(e), Used, L1) /\ Outside(p_sib(e), Used, L1)
  BY <1>3, <1>5, <1>7, FreeOutside, OutsideLess
<1>9. Layout(h2, Used, L1) /\ Chain(h2, p_child(e), <<>>) /\ Keeps(h1, h2)
  BY <1>5, <1>6, <1>8, InitLayout
<1>10. Layout(h2, H2, L2)
  BY <1>6, <1>8, <1>9, OneMoreList
<1>11. Outside(p_sib(e), H2, L2) /\ Outside(p_list(e), H2, L2)
  BY <1>5, <1>6, <1>8, OutsideMore
<1>12. Layout(h3, H2, L2) /\ Chain(h3, p_sib(e), <<>>) /\ Keeps(h2, h3)
  BY <1>6, <1>10, <1>11, InitLayout
<1>13. Layout(h3, H3, L3)
  BY <1>6, <1>11, <1>12, OneMoreList
<1>14. Outside(p_list(e), H3, L3)
  BY <1>6, <1>11, OutsideMore
<1>15. Layout(h4, H3, L3) /\ Keeps(h3, h4) /\ Full(h4, p_list(e))
  BY <1>6, <1>13, <1>14, InitLayout
<1>16. Keeps(list, h4)
  BY <1>5, <1>9, <1>12, <1>15, KeepsAgain
<1> HIDE DEF h1, h2, h3, h4
<1>17. p_semAdd[e] = NULL /\ p_parent[e] = NULL /\ \A c \in Pcb : p_parent[c] # e
  <2>1. p_semAdd[e] = NULL
    BY <1>3 DEF Linked, SemdLists
  <2>2. p_parent[e] = NULL /\ NULL # e
    BY <1>3 DEF Linked, FamilyLists, NULL, Pcb
  <2>3. \A c \in Pcb : p_parent[c] # e
    BY <1>3, <2>2 DEF Linked, FamilyLists
  <2> QED BY <2>1, <2>2, <2>3
<1>18. p_parent' = p_parent /\ p_semAdd' = p_semAdd
  <2>1. p_parent \in [Pcb -> Pcb \cup {NULL}] /\ p_semAdd \in [Pcb -> Key \cup {NULL}]
    BY DEF Linked, FieldTypes
  <2> QED BY <1>1, <1>3, <1>17, <2>1
<1>19. Used' = H3
  <2>1. p_pid \in [Pcb -> {-1} \cup Pcb] /\ e # -1
    BY <1>3 DEF Linked, FieldTypes, Pcb
  <2>2. \A q \in Pcb : Allocated(q)' <=> Allocated(q) \/ q = e
    BY <1>1, <1>3, <2>1 DEF Allocated
  <2> QED BY <1>1, <1>3, <1>17, <1>18, <2>2 DEF Used
<1>20. /\ \A a \in Used : a # pcbFree_h => L3[a] = L[a]
       /\ L3[pcbFree_h] = r /\ L3[p_child(e)] = <<>> /\ L3[p_sib(e)] = <<>>
  <2>1. p_child(e) \notin Used /\ p_sib(e) \notin Used
    BY <1>3, Heads
  <2> QED BY <1>6, <1>7, <2>1 DEF OneMore
<1>pick. PICK k : k = L3
  OBVIOUS
<1>picked. /\ \A a \in Used : a # pcbFree_h => k[a] = L[a]
          /\ k[pcbFree_h] = r /\ k[p_child(e)] = <<>> /\ k[p_sib(e)] = <<>>
          /\ Layout(h4, H3, k)
  BY <1>pick, <1>20, <1>15
<1> HIDE DEF L3
<1>21. /\ SameQueues(L, k) /\ k[semd_h] = L[semd_h] /\ k[semdFree_h] = L[semdFree_h]
       /\ \A q \in Pcb : q # e /\ Allocated(q) => k[p_child(q)] = L[p_child(q)]
       /\ \A q \in Pcb : q # e /\ Allocated(q) /\ p_parent[q] = NULL => k[p_sib(q)] = L[p_sib(q)]
  BY <1>picked, Heads, Cells DEF SameQueues
<1>22. p_list(e) \notin ToSet(L[ready_queue])
  BY <1>3, Kinds, Cells
<1>23. p_prio' \in [Pcb -> Prio]
  BY <1>1 DEF Linked, FieldTypes
<1>24. PoolFrame(L, k, e)
  BY <1>1, <1>picked, <1>16, <1>17, <1>18, <1>19, <1>21, <1>22, <1>23 DEF PoolFrame
<1>25. PoolTake(L, k, e)
  BY <1>1, <1>5, <1>15, <1>picked DEF PoolTake
<1>26. Linked(k)'
  BY <1>3, <1>24, <1>25, PoolChange
<1> HIDE DEF m, H2, H3, L1, L2, r
<1>27. \E K : Linked(K)' /\ SameQueues(L, K)
  BY <1>21, <1>26
<1> QED BY <1>1, <1>3, <1>18, <1>27

\* A process in no list goes to the head of the free list.
LEMMA freePcbLists ==
    ASSUME NEW L, Linked(L), NEW p \in Pcb, freePcb(p)
    PROVE  \E K : /\ p_prio' = [p_prio EXCEPT ![p] = 0]
                  /\ p_pid' = [p_pid EXCEPT ![p] = -1]
                  /\ p_parent' = p_parent /\ p_semAdd' = p_semAdd /\ s_key' = s_key
                  /\ \A c \in Pcb : p_parent[c] # p
                  /\ Linked(K)' /\ SameQueues(L, K)
<1> DEFINE h1 == INIT_LIST_HEAD(list, p_list(p))
           H == Used \ {p_child(p), p_sib(p)}
           L1 == Some(H, L)
           m == L[pcbFree_h]
           r == InsertAt(m, 1, p_list(p))
           K == [L1 EXCEPT ![pcbFree_h] = r]
<1>1. /\ Held(p) /\ p_parent[p] = NULL /\ list_empty(list, p_child(p))
      /\ list' = list_add(Fresh(list, p), p_list(p), pcbFree_h)
      /\ p_parent' = [p_parent EXCEPT ![p] = NULL]
      /\ p_prio' = [p_prio EXCEPT ![p] = 0]
      /\ p_pid' = [p_pid EXCEPT ![p] = -1]
      /\ p_semAdd' = [p_semAdd EXCEPT ![p] = NULL]
      /\ s_key' = s_key
  BY DEF freePcb, Alone
<1>2. Allocated(p) /\ p_semAdd[p] = NULL
  BY <1>1 DEF Held
<1>3. /\ Layout(list, Used, L) /\ list \in Heap(Cell, Fields)
      /\ p_child(p) \in Used /\ p_sib(p) \in Used /\ pcbFree_h \in Used
      /\ p_list(p) \in Cell /\ p_child(p) \in Cell /\ p_sib(p) \in Cell
      /\ p_list(p) # p_child(p) /\ p_list(p) # p_sib(p) /\ p_child(p) # p_sib(p)
      /\ pcbFree_h # p_child(p) /\ pcbFree_h # p_sib(p)
  BY <1>1, <1>2, Heads, Cells DEF Linked, Layout
<1>4. L[p_child(p)] = <<>> /\ L[p_sib(p)] = <<>>
  <2>1. L[p_child(p)] = <<>>
    BY <1>1, <1>3, Reading
  <2> QED BY <1>1, <1>2, <2>1 DEF Linked, FamilyLists
<1>5. Chain(list, p_child(p), <<>>) /\ Chain(list, p_sib(p), <<>>)
  BY <1>3, <1>4 DEF Layout
<1>6. Fresh(list, p) = h1
  <2>1. INIT_LIST_HEAD(list, p_child(p)) = list /\ INIT_LIST_HEAD(list, p_sib(p)) = list
    BY <1>3, <1>5, InitEmpty
  <2> QED BY <2>1 DEF Fresh
<1>7. Outside(p_list(p), Used, L)
  BY <1>1, HeldOutside
<1>8. Layout(h1, Used, L) /\ Keeps(list, h1)
  BY <1>3, <1>7, InitLayout
<1> HIDE DEF h1
<1>9. H \in SUBSET Used /\ pcbFree_h \in H
  BY <1>3
<1>10. Layout(h1, H, L1) /\ Outside(p_list(p), H, L1)
  BY <1>7, <1>8, <1>9, FewerLists, OutsideFewer
<1>11. L1[pcbFree_h] = m /\ L1 \in [H -> Seq(Cell)]
  BY <1>9, <1>10 DEF Layout, Some
<1> HIDE DEF H, L1, m
<1>12. Puts(h1, list', H, L1, pcbFree_h, p_list(p), r)
  <2>1. list' = list_add(h1, p_list(p), pcbFree_h)
    BY <1>1, <1>6
  <2>2. Puts(h1, list_add(h1, p_list(p), pcbFree_h), H, L1, pcbFree_h, p_list(p),
             InsertAt(L1[pcbFree_h], 1, p_list(p)))
    BY <1>3, <1>9, <1>10, AddLayout
  <2> QED BY <1>11, <2>1, <2>2
<1> HIDE DEF r
<1>13. /\ Layout(list', H, K) /\ ToSet(r) = ToSet(m) \cup {p_list(p)} /\ Keeps(h1, list')
  BY <1>11, <1>12 DEF Puts
<1>14. Keeps(list, list')
  BY <1>8, <1>13, KeepsAgain
<1>15. \A c \in Pcb : p_parent[c] # p
  <2>1. ToSet(L[p_child(p)]) = {}
    BY <1>4 DEF ToSet
  <2> QED BY <1>2, <2>1 DEF Linked, FamilyLists
<1>16. p_parent' = p_parent /\ p_semAdd' = p_semAdd
  <2>1. p_parent \in [Pcb -> Pcb \cup {NULL}] /\ p_semAdd \in [Pcb -> Key \cup {NULL}]
    BY DEF Linked, FieldTypes
  <2> QED BY <1>1, <1>2, <2>1
<1>17. Used' = H
  <2>1. p_pid \in [Pcb -> {-1} \cup Pcb]
    BY DEF Linked, FieldTypes
  <2>2. \A q \in Pcb : Allocated(q)' <=> Allocated(q) /\ q # p
    BY <1>1, <2>1 DEF Allocated
  <2>3. \A q \in Pcb : /\ p_child(q) = p_child(p) => q = p
                       /\ p_sib(q) = p_sib(p) => q = p
                       /\ p_child(q) # p_sib(p) /\ p_sib(q) # p_child(p)
    BY Cells
  <2>4. /\ \A d \in Semd : s_procq(d) # p_child(p) /\ s_procq(d) # p_sib(p)
        /\ {pcbFree_h, semdFree_h, semd_h, ready_queue} \cap {p_child(p), p_sib(p)} = {}
    BY Cells
  <2>5. Used' = {pcbFree_h, semdFree_h, semd_h, ready_queue}
                \cup {s_procq(d) : d \in {e \in Semd : s_key[e] # NULL}}
                \cup {p_child(q) : q \in {c \in Pcb : Allocated(c) /\ c # p}}
                \cup {p_sib(q) : q \in {c \in Pcb : Allocated(c) /\ c # p /\ p_parent[c] = NULL}}
    BY <1>1, <1>16, <2>2 DEF Used
  <2>6. {p_child(q) : q \in {c \in Pcb : Allocated(c) /\ c # p}} =
           {p_child(q) : q \in {c \in Pcb : Allocated(c)}} \ {p_child(p), p_sib(p)}
    BY <2>3
  <2>7. {p_sib(q) : q \in {c \in Pcb : Allocated(c) /\ c # p /\ p_parent[c] = NULL}} =
           {p_sib(q) : q \in {c \in Pcb : Allocated(c) /\ p_parent[c] = NULL}}
              \ {p_child(p), p_sib(p)}
    BY <2>3
  <2>8. {s_procq(d) : d \in {e \in Semd : s_key[e] # NULL}} =
           {s_procq(d) : d \in {e \in Semd : s_key[e] # NULL}} \ {p_child(p), p_sib(p)}
    BY <2>4
  <2> QED BY <2>4, <2>5, <2>6, <2>7, <2>8 DEF Used, H
<1>18. /\ \A a \in Used : a \notin {pcbFree_h, p_child(p), p_sib(p)} => K[a] = L[a]
       /\ K[pcbFree_h] = r
  BY <1>9, <1>11 DEF H, L1, Some
<1>pick. PICK k : k = K
  OBVIOUS
<1>picked. /\ \A a \in Used : a \notin {pcbFree_h, p_child(p), p_sib(p)} => k[a] = L[a]
          /\ k[pcbFree_h] = r /\ Layout(list', H, k)
  BY <1>pick, <1>13, <1>18
<1> HIDE DEF K
<1>19. /\ SameQueues(L, k) /\ k[semd_h] = L[semd_h] /\ k[semdFree_h] = L[semdFree_h]
       /\ \A q \in Pcb : q # p /\ Allocated(q) => k[p_child(q)] = L[p_child(q)]
       /\ \A q \in Pcb : q # p /\ Allocated(q) /\ p_parent[q] = NULL => k[p_sib(q)] = L[p_sib(q)]
  BY <1>picked, Heads, Cells DEF SameQueues
<1>20. p_list(p) \notin ToSet(L[ready_queue])
  BY <1>1, HeldNotReady
<1>21. p_prio' \in [Pcb -> Prio]
  BY <1>1, PrioAssumption DEF Linked, FieldTypes
<1>22. PoolFrame(L, k, p)
  BY <1>1, <1>2, <1>picked, <1>14, <1>15, <1>16, <1>17, <1>19, <1>20, <1>21 DEF PoolFrame
<1>23. PoolGive(L, k, p)
  BY <1>1, <1>13, <1>picked DEF PoolGive, m
<1>24. Linked(k)'
  BY <1>22, <1>23, PoolChange
<1>25. \E M : Linked(M)' /\ SameQueues(L, M)
  BY <1>19, <1>24
<1> QED BY <1>1, <1>15, <1>16, <1>25

-----------------------------------------------------------------------------
(* insertChild, removeChild and outChild *)

\* A list that is taken out of the layout: its head is outside of the others.
LEMMA OneFewer ==
    ASSUME NEW h, NEW H, NEW L, Layout(h, H, L), NEW head \in H
    PROVE  /\ Layout(h, H \ {head}, Some(H \ {head}, L))
           /\ Outside(head, H \ {head}, Some(H \ {head}, L))
<1>1. Layout(h, H \ {head}, Some(H \ {head}, L))
  BY FewerLists
<1>2. \A a \in H \ {head} : Area(a, L[a]) \cap Area(head, L[head]) = {}
  BY DEF Layout
<1>3. head \in Area(head, L[head])
  BY DEF Area
<1> QED BY <1>1, <1>2, <1>3 DEF Outside, Some

\* A step that changes the lists of children and of siblings only.
FamilyFrame(L, K) ==
    /\ p_prio' = p_prio /\ p_pid' = p_pid /\ p_semAdd' = p_semAdd /\ s_key' = s_key
    /\ p_parent' \in [Pcb -> Pcb \cup {NULL}]
    /\ Layout(list', Used', K) /\ Keeps(list, list')
    /\ SameQueues(L, K) /\ K[semd_h] = L[semd_h] /\ K[semdFree_h] = L[semdFree_h]
    /\ K[pcbFree_h] = L[pcbFree_h]

\* Such a step keeps the invariant when the lists of children are right after it.
LEMMA FamilyChange ==
    ASSUME NEW L, Linked(L), NEW K, FamilyFrame(L, K), FamilyLists(K)'
    PROVE  Linked(K)'
<1>1. /\ p_prio' = p_prio /\ p_pid' = p_pid /\ p_semAdd' = p_semAdd /\ s_key' = s_key
      /\ p_parent' \in [Pcb -> Pcb \cup {NULL}]
      /\ Layout(list', Used', K) /\ Keeps(list, list')
      /\ SameQueues(L, K) /\ K[semd_h] = L[semd_h] /\ K[semdFree_h] = L[semdFree_h]
      /\ K[pcbFree_h] = L[pcbFree_h]
  BY DEF FamilyFrame
<1>2. \A p : Allocated(p)' <=> Allocated(p)
  BY <1>1 DEF Allocated
<1>3. FieldTypes'
  BY <1>1, <1>2 DEF Linked, FieldTypes
<1>4. PcbLists(K)'
  <2>1. ToSet(K[pcbFree_h]) = {p_list(p) : p \in {q \in Pcb : ~Allocated(q)'}}
    BY <1>1, <1>2 DEF Linked, PcbLists
  <2>2. ToSet(K[ready_queue])
           \subseteq {p_list(p) : p \in {q \in Pcb : Allocated(q)' /\ p_semAdd'[q] = NULL}}
    BY <1>1, <1>2 DEF Linked, PcbLists, SameQueues
  <2>3. \A d \in Semd : s_key'[d] # NULL =>
           ToSet(K[s_procq(d)]) = {p_list(p) : p \in {q \in Pcb : p_semAdd'[q] = s_key'[d]}}
    BY <1>1 DEF Linked, PcbLists, SameQueues
  <2>4. \A p \in Pcb : Allocated(p)' => Full(list', p_list(p))
    BY <1>1, <1>2, Cells DEF Linked, PcbLists, Keeps
  <2> QED BY <2>1, <2>2, <2>3, <2>4 DEF PcbLists
<1>5. SemdLists(K)'
  BY <1>1, <1>2 DEF Linked, SemdLists
<1> QED BY <1>1, <1>3, <1>4, <1>5 DEF Linked

\* The null pointer is no PCB and no descriptor.
LEMMA NullNotPcb == NULL \notin Pcb /\ NULL \notin Semd
BY DEF NULL, Pcb, Semd

\* The new child, whose p_sib is an empty list, goes to the head of the list of
\* children.
LEMMA insertChildLists ==
    ASSUME NEW L, Linked(L), NEW prnt \in Pcb, NEW p \in Pcb, insertChild(prnt, p)
    PROVE  \E K : Linked(K)' /\ SameQueues(L, K)
<1> DEFINE H == Used \ {p_sib(p)}
           L1 == Some(H, L)
           m == L[p_child(prnt)]
           r == InsertAt(m, 1, p_sib(p))
           K == [L1 EXCEPT ![p_child(prnt)] = r]
<1>1. /\ Held(prnt) /\ Held(p) /\ p # prnt /\ p_parent[p] = NULL
      /\ list' = list_add(list, p_sib(p), p_child(prnt))
      /\ p_parent' = [p_parent EXCEPT ![p] = prnt]
      /\ p_prio' = p_prio /\ p_pid' = p_pid /\ p_semAdd' = p_semAdd /\ s_key' = s_key
  BY DEF insertChild, Alone
<1>2. Allocated(p) /\ Allocated(prnt)
  BY <1>1 DEF Held
<1>3. /\ Layout(list, Used, L)
      /\ p_child(prnt) \in Used /\ p_sib(p) \in Used
      /\ p_sib(p) \in Cell /\ p_child(prnt) # p_sib(p)
  BY <1>1, <1>2, Heads, Cells DEF Linked
<1>4. /\ Layout(list, H, L1) /\ Outside(p_sib(p), H, L1) /\ p_child(prnt) \in H
      /\ H \in SUBSET Used
  BY <1>3, OneFewer
<1>5. L1[p_child(prnt)] = m /\ L1 \in [H -> Seq(Cell)]
  BY <1>4 DEF Layout, Some
<1> HIDE DEF H, L1, m
<1>6. Puts(list, list', H, L1, p_child(prnt), p_sib(p), r)
  <2>1. Puts(list, list_add(list, p_sib(p), p_child(prnt)), H, L1, p_child(prnt), p_sib(p),
             InsertAt(L1[p_child(prnt)], 1, p_sib(p)))
    BY <1>3, <1>4, AddLayout
  <2> QED BY <1>1, <1>5, <2>1
<1> HIDE DEF r
<1>7. /\ Layout(list', H, K) /\ ToSet(r) = ToSet(m) \cup {p_sib(p)} /\ Keeps(list, list')
  BY <1>5, <1>6 DEF Puts
<1>8. Used' = H
  <2>1. \A q \in Pcb : /\ Allocated(q)' <=> Allocated(q)
                       /\ p_parent'[q] = NULL <=> p_parent[q] = NULL /\ q # p
    BY <1>1 DEF Linked, FieldTypes, Allocated, NULL, Pcb
  <2>2. /\ \A q \in Pcb : (p_sib(q) = p_sib(p) => q = p) /\ p_child(q) # p_sib(p)
        /\ \A d \in Semd : s_procq(d) # p_sib(p)
    BY Cells
  <2>3. {pcbFree_h, semdFree_h, semd_h, ready_queue} \cap {p_sib(p)} = {}
    BY Cells
  <2>4. {s_procq(d) : d \in {e \in Semd : s_key[e] # NULL}} \cap {p_sib(p)} = {}
    BY <2>2
  <2>5. {p_child(q) : q \in {c \in Pcb : Allocated(c)}} \cap {p_sib(p)} = {}
    BY <2>2
  <2>6. {p_sib(q) : q \in {c \in Pcb : Allocated(c)' /\ p_parent'[c] = NULL}} =
           {p_sib(q) : q \in {c \in Pcb : Allocated(c) /\ p_parent[c] = NULL}} \ {p_sib(p)}
    BY <2>1, <2>2
  <2>7. Used' = {pcbFree_h, semdFree_h, semd_h, ready_queue}
                \cup {s_procq(d) : d \in {e \in Semd : s_key[e] # NULL}}
                \cup {p_child(q) : q \in {c \in Pcb : Allocated(c)}}
                \cup {p_sib(q) : q \in {c \in Pcb : Allocated(c)' /\ p_parent'[c] = NULL}}
    BY <1>1, <2>1 DEF Used
  <2> QED BY <2>3, <2>4, <2>5, <2>6, <2>7 DEF Used, H
<1>9. \A a \in Used : a \notin {p_child(prnt), p_sib(p)} => K[a] = L[a]
  BY <1>4, <1>5 DEF H, L1, Some
<1>10. K[p_child(prnt)] = r
  BY <1>4, <1>5
<1>11. PICK k : k = K
  OBVIOUS
<1>12. /\ k[p_child(prnt)] = r /\ Layout(list', H, k)
       /\ \A a \in Used : a \notin {p_child(prnt), p_sib(p)} => k[a] = L[a]
  BY <1>7, <1>9, <1>10, <1>11
<1> HIDE DEF K
<1>13. /\ SameQueues(L, k) /\ k[semd_h] = L[semd_h] /\ k[semdFree_h] = L[semdFree_h]
       /\ k[pcbFree_h] = L[pcbFree_h]
       /\ \A q \in Pcb : q # prnt /\ Allocated(q) => k[p_child(q)] = L[p_child(q)]
       /\ \A q \in Pcb : q # p /\ Allocated(q) /\ p_parent[q] = NULL => k[p_sib(q)] = L[p_sib(q)]
  BY <1>12, Heads, Cells DEF SameQueues
<1>14. p_parent \in [Pcb -> Pcb \cup {NULL}] /\ prnt # NULL
  BY DEF Linked, FieldTypes, NULL, Pcb
<1>15. FamilyFrame(L, k)
  BY <1>1, <1>7, <1>8, <1>12, <1>13, <1>14 DEF FamilyFrame
<1>16. FamilyLists(k)'
  <2>1. \A q \in Pcb : Allocated(q)' <=> Allocated(q)
    BY <1>1 DEF Allocated
  <2>2. \A q \in Pcb : p_parent'[q] = IF q = p THEN prnt ELSE p_parent[q]
    BY <1>1, <1>14
  <2>3. ASSUME NEW q \in Pcb, Allocated(q)
        PROVE  ToSet(k[p_child(q)]) = {p_sib(c) : c \in {e \in Pcb : p_parent'[e] = q}}
    <3>1. ToSet(L[p_child(q)]) = {p_sib(c) : c \in {e \in Pcb : p_parent[e] = q}}
      BY <2>3 DEF Linked, FamilyLists
    <3>2. CASE q = prnt
      BY <1>1, <1>7, <1>12, <1>14, <2>2, <3>1, <3>2 DEF m
    <3>3. CASE q # prnt
      <4>1. {e \in Pcb : p_parent'[e] = q} = {e \in Pcb : p_parent[e] = q}
        BY <1>1, <2>2, <3>3, NullNotPcb
      <4> QED BY <1>13, <2>3, <3>1, <3>3, <4>1
    <3> QED BY <3>2, <3>3
  <2>4. ASSUME NEW q \in Pcb, Allocated(q), p_parent'[q] = NULL PROVE k[p_sib(q)] = <<>>
    BY <1>1, <1>13, <1>14, <2>2, <2>4 DEF Linked, FamilyLists
  <2>5. ASSUME NEW q \in Pcb, p_parent'[q] # NULL PROVE Allocated(q) /\ Allocated(p_parent'[q])
    BY <1>2, <2>2, <2>5 DEF Linked, FamilyLists
  <2>6. \A q \in Pcb : p_parent'[q] # NULL => p_parent'[q] \in Pcb
    BY <1>14, <2>2
  <2> QED BY <2>1, <2>3, <2>4, <2>5, <2>6 DEF FamilyLists
<1> QED BY <1>13, <1>15, <1>16, FamilyChange

\* A child is taken out of the list of its parent, and its p_sib is a list again.
LEMMA OrphanLists ==
    ASSUME NEW L, Linked(L), NEW p \in Pcb, p_parent[p] # NULL,
           list' = INIT_LIST_HEAD(list_del(list, p_sib(p)), p_sib(p)),
           p_parent' = NoParent(p), UNCHANGED <<p_prio, p_pid, p_semAdd, s_key>>
    PROVE  \E K : Linked(K)' /\ SameQueues(L, K)
<1> DEFINE prnt == p_parent[p]
           cell == p_sib(p)
           m == L[p_child(prnt)]
           h1 == list_del(list, cell)
<1>1. /\ p_prio' = p_prio /\ p_pid' = p_pid /\ p_semAdd' = p_semAdd /\ s_key' = s_key
      /\ p_parent' = [p_parent EXCEPT ![p] = NULL]
  BY DEF NoParent
<1>2. prnt \in Pcb /\ Allocated(p) /\ Allocated(prnt)
  BY DEF Linked, FieldTypes, FamilyLists
<1>3. /\ Layout(list, Used, L) /\ L \in [Used -> Seq(Cell)]
      /\ p_child(prnt) \in Used /\ cell \notin Used /\ cell \in Cell
      /\ p_child(prnt) # cell
  BY <1>2, Heads, Cells DEF Linked, Layout
<1>4. cell \in ToSet(m)
  BY <1>2 DEF Linked, FamilyLists
<1>5. PICK i \in 1 .. Len(m) : m[i] = cell
  <2>1. ASSUME NEW a \in Used, NEW c \in ToSet(L[a])
        PROVE  \E i \in 1 .. Len(L[a]) : L[a][i] = c
    BY Places DEF Linked, Layout, Chain
  <2> QED BY <1>3, <1>4, <2>1
<1> DEFINE r == RemoveAt(m, i)
           L1 == [L EXCEPT ![p_child(prnt)] = r]
           K == OneMore(Used, L1, cell)
<1>6. Takes(list, h1, Used, L, p_child(prnt), cell, r) /\ Chain(h1, cell, <<>>)
  <2>1. /\ Takes(list, list_del(list, m[i]), Used, L, p_child(prnt), m[i], RemoveAt(m, i))
        /\ Chain(list_del(list, m[i]), m[i], <<>>)
    BY <1>3, DelLayout
  <2> QED BY <1>5, <2>1
<1> HIDE DEF h1, r
<1>7. /\ Layout(h1, Used, L1) /\ ToSet(r) = ToSet(m) \ {cell} /\ Outside(cell, Used, L1)
      /\ Keeps(list, h1) /\ h1 \in Heap(Cell, Fields)
  BY <1>6 DEF Takes, Layout
<1>8. list' = h1
  <2>1. INIT_LIST_HEAD(h1, cell) = h1
    BY <1>3, <1>6, <1>7, InitEmpty
  <2> QED BY <2>1 DEF h1
<1>9. Layout(h1, Used \cup {cell}, K)
  BY <1>3, <1>6, <1>7, OneMoreList
<1>10. Used' = Used \cup {cell}
  <2>1. \A q \in Pcb : /\ Allocated(q)' <=> Allocated(q)
                       /\ p_parent'[q] = NULL <=> p_parent[q] = NULL \/ q = p
    BY <1>1 DEF Linked, FieldTypes, Allocated
  <2>2. {p_sib(q) : q \in {c \in Pcb : Allocated(c)' /\ p_parent'[c] = NULL}} =
           {p_sib(q) : q \in {c \in Pcb : Allocated(c) /\ p_parent[c] = NULL}} \cup {p_sib(p)}
    BY <1>2, <2>1
  <2>3. Used' = {pcbFree_h, semdFree_h, semd_h, ready_queue}
                \cup {s_procq(d) : d \in {e \in Semd : s_key[e] # NULL}}
                \cup {p_child(q) : q \in {c \in Pcb : Allocated(c)}}
                \cup {p_sib(q) : q \in {c \in Pcb : Allocated(c)' /\ p_parent'[c] = NULL}}
    BY <1>1, <2>1 DEF Used
  <2> QED BY <2>2, <2>3 DEF Used
<1>11. /\ K[p_child(prnt)] = r /\ K[cell] = <<>>
       /\ \A a \in Used : a # p_child(prnt) => K[a] = L[a]
  BY <1>3 DEF OneMore
<1> HIDE DEF L1, cell, m
<1>12. PICK k : k = K
  OBVIOUS
<1>13. /\ k[p_child(prnt)] = r /\ k[cell] = <<>> /\ Layout(h1, Used \cup {cell}, k)
       /\ \A a \in Used : a # p_child(prnt) => k[a] = L[a]
  BY <1>9, <1>11, <1>12
<1> HIDE DEF K
<1>14. /\ SameQueues(L, k) /\ k[semd_h] = L[semd_h] /\ k[semdFree_h] = L[semdFree_h]
       /\ k[pcbFree_h] = L[pcbFree_h]
       /\ \A q \in Pcb : q # prnt /\ Allocated(q) => k[p_child(q)] = L[p_child(q)]
       /\ \A q \in Pcb : Allocated(q) /\ p_parent[q] = NULL => k[p_sib(q)] = L[p_sib(q)]
  BY <1>2, <1>13, Heads, Cells DEF SameQueues
<1>15. p_parent \in [Pcb -> Pcb \cup {NULL}]
  BY DEF Linked, FieldTypes
<1>16. FamilyFrame(L, k)
  BY <1>1, <1>7, <1>8, <1>10, <1>13, <1>14, <1>15 DEF FamilyFrame
<1>17. FamilyLists(k)'
  <2>1. \A q \in Pcb : Allocated(q)' <=> Allocated(q)
    BY <1>1 DEF Allocated
  <2>2. \A q \in Pcb : p_parent'[q] = IF q = p THEN NULL ELSE p_parent[q]
    BY <1>1, <1>15
  <2>3. ASSUME NEW q \in Pcb, Allocated(q)
        PROVE  ToSet(k[p_child(q)]) = {p_sib(c) : c \in {e \in Pcb : p_parent'[e] = q}}
    <3>1. ToSet(L[p_child(q)]) = {p_sib(c) : c \in {e \in Pcb : p_parent[e] = q}}
      BY <2>3 DEF Linked, FamilyLists
    <3>2. CASE q = prnt
      <4>1. ToSet(k[p_child(q)]) = ToSet(m) \ {p_sib(p)}
        BY <1>7, <1>13, <3>2 DEF cell
      <4>2. \A c \in Pcb : p_sib(c) = p_sib(p) => c = p
        BY Cells
      <4>3. {e \in Pcb : p_parent'[e] = q} = {e \in Pcb : p_parent[e] = q} \ {p}
        BY <1>2, <2>2, <3>2, NullNotPcb
      <4> QED BY <3>1, <3>2, <4>1, <4>2, <4>3 DEF m
    <3>3. CASE q # prnt
      <4>1. {e \in Pcb : p_parent'[e] = q} = {e \in Pcb : p_parent[e] = q}
        BY <2>2, <3>3, NullNotPcb
      <4> QED BY <1>14, <2>3, <3>1, <3>3, <4>1
    <3> QED BY <3>2, <3>3
  <2>4. ASSUME NEW q \in Pcb, Allocated(q), p_parent'[q] = NULL PROVE k[p_sib(q)] = <<>>
    BY <1>13, <1>14, <2>2, <2>4 DEF Linked, FamilyLists, cell
  <2>5. ASSUME NEW q \in Pcb, p_parent'[q] # NULL PROVE Allocated(q) /\ Allocated(p_parent'[q])
    BY <2>2, <2>5 DEF Linked, FamilyLists
  <2>6. \A q \in Pcb : p_parent'[q] # NULL => p_parent'[q] \in Pcb
    BY <1>15, <2>2
  <2> QED BY <2>1, <2>3, <2>4, <2>5, <2>6 DEF FamilyLists
<1> QED BY <1>14, <1>16, <1>17, FamilyChange

\* outChild is such a step.
LEMMA outChildLists ==
    ASSUME NEW L, Linked(L), NEW p \in Pcb, outChild(p)
    PROVE  \E K : Linked(K)' /\ SameQueues(L, K)
BY OrphanLists DEF outChild

\* The first child is a process whose parent is p.
LEMMA removeChildLists ==
    ASSUME NEW L, Linked(L), NEW p \in Pcb, removeChild(p)
    PROVE  \E q \in Pcb :
              /\ p_parent[q] = p /\ p_parent' = NoParent(q)
              /\ UNCHANGED <<p_prio, p_pid, p_semAdd, s_key>>
              /\ \E K : Linked(K)' /\ SameQueues(L, K)
<1> DEFINE m == L[p_child(p)]
<1>1. /\ Allocated(p) /\ ~list_empty(list, p_child(p))
      /\ list' = INIT_LIST_HEAD(list_del(list, list[p_child(p)].next), list[p_child(p)].next)
      /\ p_parent' = NoParent(container_of(list[p_child(p)].next))
      /\ UNCHANGED <<p_prio, p_pid, p_semAdd, s_key>>
  BY DEF removeChild, emptyChild
<1>2. 1 \in 1 .. Len(m) /\ list[p_child(p)].next = m[1] /\ m[1] \in ToSet(m)
  BY <1>1, Heads, Reading
<1>3. PICK q \in Pcb : m[1] = p_sib(q) /\ p_parent[q] = p
  BY <1>1, <1>2, Kinds
<1>4. /\ list' = INIT_LIST_HEAD(list_del(list, p_sib(q)), p_sib(q))
      /\ p_parent' = NoParent(q)
  BY <1>1, <1>2, <1>3, Cells
<1>5. \E K : Linked(K)' /\ SameQueues(L, K)
  BY <1>1, <1>3, <1>4, NullNotPcb, OrphanLists
<1> QED BY <1>1, <1>3, <1>4, <1>5

-----------------------------------------------------------------------------
(* insertBlocked, removeBlocked and outBlocked *)

\* The list of the processes that wait for s, when key gives the keys of the
\* descriptors.
WaitCells(key, L, s) ==
    IF \E d \in Semd : key[d] = s THEN L[s_procq(CHOOSE d \in Semd : key[d] = s)] ELSE <<>>

\* There is at most one descriptor for a semaphore, ...
LEMMA WaitCellsOf ==
    ASSUME NEW key, NEW L, NEW d \in Semd,
           \A e \in Semd : key[e] = key[d] => e = d
    PROVE  WaitCells(key, L, key[d]) = L[s_procq(d)]
BY DEF WaitCells

\* ... and without one nobody waits.
LEMMA WaitCellsNone ==
    ASSUME NEW key, NEW L, NEW s, \A e \in Semd : key[e] # s
    PROVE  WaitCells(key, L, s) = <<>>
BY DEF WaitCells

\* The lists of the other semaphores, when the descriptors with their keys and the
\* lists of these are the same.
LEMMA WaitCellsSame ==
    ASSUME NEW key, NEW L, NEW other, NEW K, NEW s,
           \A d \in Semd : other[d] = s <=> key[d] = s,
           \A d \in Semd : key[d] = s => K[s_procq(d)] = L[s_procq(d)]
    PROVE  WaitCells(other, K, s) = WaitCells(key, L, s)
<1>1. (CHOOSE d \in Semd : other[d] = s) = (CHOOSE d \in Semd : key[d] = s)
  OBVIOUS
<1>2. CASE \E d \in Semd : key[d] = s
  <2>1. PICK d \in Semd : d = (CHOOSE e \in Semd : key[e] = s) /\ key[d] = s
    BY <1>2
  <2> QED BY <1>1, <1>2, <2>1 DEF WaitCells
<1>3. CASE \A d \in Semd : key[d] # s
  BY <1>3 DEF WaitCells
<1> QED BY <1>2, <1>3

\* The active descriptors, in order.
LEMMA ActiveOrder ==
    ASSUME NEW L, Linked(L)
    PROVE  /\ \A i \in 1 .. Len(L[semd_h]) :
                 /\ container_of(L[semd_h][i]) \in Semd
                 /\ L[semd_h][i] = s_link(container_of(L[semd_h][i]))
                 /\ s_key[container_of(L[semd_h][i])] # NULL
           /\ \A d \in Semd : s_key[d] # NULL =>
                 \E i \in 1 .. Len(L[semd_h]) : L[semd_h][i] = s_link(d)
<1>1. /\ \A i \in 1 .. Len(L[semd_h]) : L[semd_h][i] \in ToSet(L[semd_h])
      /\ \A c \in ToSet(L[semd_h]) : \E i \in 1 .. Len(L[semd_h]) : c = L[semd_h][i]
  BY Heads, Places DEF Linked, Layout, Chain
<1>2. ToSet(L[semd_h]) = {s_link(d) : d \in {e \in Semd : s_key[e] # NULL}}
  BY DEF Linked, SemdLists
<1> QED BY <1>1, <1>2, Cells

\* The search of the descriptors finds the one with the key, if there is one.
LEMMA ActiveIs ==
    ASSUME NEW L, Linked(L), NEW s \in Key
    PROVE  Active(s) = {d \in Semd : s_key[d] = s}
<1> DEFINE Q == L[semd_h]
           m == [i \in 1 .. Len(Q) |-> container_of(Q[i])]
           found == {i \in DOMAIN m : s_key[m[i]] = s}
           least == CHOOSE i \in found : \A j \in found : i <= j
<1>1. Active(s) = IF found = {} THEN {} ELSE {m[least]}
  <2>1. Queue(semd_h) = m
    BY Heads, Reading
  <2> QED BY <2>1 DEF Active
<1>2. s # NULL
  BY KeyAssumption
<1>3. \A i \in 1 .. Len(Q) : m[i] \in Semd /\ Q[i] = s_link(m[i])
  BY ActiveOrder
<1>4. DOMAIN m = 1 .. Len(Q) /\ Len(Q) \in Nat
  <2>1. Len(Q) \in Nat
    BY Heads, Reading
  <2> QED BY <2>1
<1>5. \A d, e \in Semd : s_key[d] = s_key[e] /\ s_key[d] # NULL => d = e
  BY DEF Linked, SemdLists
<1>6. CASE found = {}
  <2>1. ASSUME NEW d \in Semd, s_key[d] = s PROVE FALSE
    <3>1. PICK i \in 1 .. Len(Q) : Q[i] = s_link(d)
      BY <1>2, <2>1, ActiveOrder
    <3>2. m[i] = d
      BY <3>1, Cells
    <3> HIDE DEF m
    <3> QED BY <1>4, <1>6, <2>1, <3>1, <3>2
  <2> QED BY <1>1, <1>6, <2>1
<1>7. CASE found # {}
  <2>1. found \in SUBSET Nat
    BY <1>4
  <2>2. \E i \in found : \A j \in found : i <= j
    <3> HIDE DEF found
    <3> QED BY <1>7, <2>1, QT!LeastElement
  <2>3. least \in found
    <3> HIDE DEF found
    <3> QED BY <2>2
  <2>4. m[least] \in Semd /\ s_key[m[least]] = s
    <3> HIDE DEF least
    <3> QED BY <1>3, <1>4, <2>3
  <2> HIDE DEF m, least, found
  <2> QED BY <1>1, <1>2, <1>5, <1>7, <2>4
<1> QED BY <1>6, <1>7

\* A step that changes the queues of the semaphores only.
BlockedFrame(L, K) ==
    /\ p_parent' = p_parent /\ p_prio' = p_prio /\ p_pid' = p_pid
    /\ p_semAdd' \in [Pcb -> Key \cup {NULL}] /\ s_key' \in [Semd -> Key \cup {NULL}]
    /\ Layout(list', Used', K) /\ Keeps(list, list')
    /\ K[ready_queue] = L[ready_queue] /\ K[pcbFree_h] = L[pcbFree_h]
    /\ \A p \in Pcb : p_list(p) \in ToSet(L[ready_queue]) => p_semAdd'[p] = NULL
    /\ \A q \in Pcb : Allocated(q) => K[p_child(q)] = L[p_child(q)]
    /\ \A q \in Pcb : Allocated(q) /\ p_parent[q] = NULL => K[p_sib(q)] = L[p_sib(q)]

\* The waiters of each descriptor.
Waiters(K) ==
    \A d \in Semd : s_key[d] # NULL =>
        ToSet(K[s_procq(d)]) = {p_list(p) : p \in {q \in Pcb : p_semAdd[q] = s_key[d]}}

\* Such a step keeps the invariant when the descriptors and their lists are right after
\* it.
LEMMA BlockedChange ==
    ASSUME NEW L, Linked(L), NEW K, BlockedFrame(L, K), Waiters(K)', SemdLists(K)'
    PROVE  Linked(K)'
<1>1. /\ p_parent' = p_parent /\ p_prio' = p_prio /\ p_pid' = p_pid
      /\ p_semAdd' \in [Pcb -> Key \cup {NULL}] /\ s_key' \in [Semd -> Key \cup {NULL}]
      /\ Layout(list', Used', K) /\ Keeps(list, list')
      /\ K[ready_queue] = L[ready_queue] /\ K[pcbFree_h] = L[pcbFree_h]
      /\ \A p \in Pcb : p_list(p) \in ToSet(L[ready_queue]) => p_semAdd'[p] = NULL
      /\ \A q \in Pcb : Allocated(q) => K[p_child(q)] = L[p_child(q)]
      /\ \A q \in Pcb : Allocated(q) /\ p_parent[q] = NULL => K[p_sib(q)] = L[p_sib(q)]
  BY DEF BlockedFrame
<1>2. \A p : Allocated(p)' <=> Allocated(p)
  BY <1>1 DEF Allocated
<1>3. FieldTypes'
  BY <1>1, <1>2 DEF Linked, FieldTypes
<1>4. PcbLists(K)'
  <2>1. ToSet(K[pcbFree_h]) = {p_list(p) : p \in {q \in Pcb : ~Allocated(q)'}}
    BY <1>1, <1>2 DEF Linked, PcbLists
  <2>2. ToSet(K[ready_queue])
           \subseteq {p_list(p) : p \in {q \in Pcb : Allocated(q)' /\ p_semAdd'[q] = NULL}}
    BY <1>1, <1>2 DEF Linked, PcbLists
  <2>3. \A d \in Semd : s_key'[d] # NULL =>
           ToSet(K[s_procq(d)]) = {p_list(p) : p \in {q \in Pcb : p_semAdd'[q] = s_key'[d]}}
    BY DEF Waiters
  <2>4. \A p \in Pcb : Allocated(p)' => Full(list', p_list(p))
    BY <1>1, <1>2, Cells DEF Linked, PcbLists, Keeps
  <2> QED BY <2>1, <2>2, <2>3, <2>4 DEF PcbLists
<1>5. FamilyLists(K)'
  <2>1. \A p \in Pcb : Allocated(p)' =>
           ToSet(K[p_child(p)]) = {p_sib(q) : q \in {c \in Pcb : p_parent'[c] = p}}
    BY <1>1, <1>2 DEF Linked, FamilyLists
  <2>2. \A p \in Pcb : Allocated(p)' /\ p_parent'[p] = NULL => K[p_sib(p)] = <<>>
    BY <1>1, <1>2 DEF Linked, FamilyLists
  <2>3. \A p \in Pcb : p_parent'[p] # NULL => Allocated(p)' /\ Allocated(p_parent[p])'
    BY <1>1, <1>2 DEF Linked, FamilyLists
  <2> QED BY <2>1, <2>2, <2>3 DEF FamilyLists
<1> QED BY <1>1, <1>3, <1>4, <1>5 DEF Linked

\* The key of the i-th active descriptor.
KeyAt(L, i) == s_key[container_of(L[semd_h][i])]

\* p joins the queue of a descriptor that is active.
Joins(semAdd, p) ==
    \E d \in Semd : /\ s_key[d] = semAdd /\ s_key' = s_key
                    /\ list' = list_add_tail(list, p_list(p), s_procq(d))

\* No descriptor has the key; a free one is linked in at the place i.
Activates(L, semAdd, p, i) ==
    /\ ~list_empty(list, semdFree_h)
    /\ \A d \in Semd : s_key[d] # semAdd
    /\ i <= Len(L[semd_h]) => semAdd < KeyAt(L, i)
    /\ list' = list_add_tail(
                  list_add_tail(
                     INIT_LIST_HEAD(list_del(list, s_link(container_of(list[semdFree_h].next))),
                                    s_procq(container_of(list[semdFree_h].next))),
                     s_link(container_of(list[semdFree_h].next)), At(semd_h, L[semd_h], i)),
                  p_list(p), s_procq(container_of(list[semdFree_h].next)))
    /\ s_key' = [s_key EXCEPT ![container_of(list[semdFree_h].next)] = semAdd]
    /\ \A j \in 1 .. i - 1 : KeyAt(L, j) < semAdd

\* The search for the key stops at the descriptor that has it, or at the place
\* where a new one belongs.
LEMMA insertBlockedCases ==
    ASSUME NEW L, Linked(L), NEW semAdd \in Key, NEW p \in Pcb, insertBlocked(semAdd, p)
    PROVE  \/ Joins(semAdd, p)
           \/ \E i \in 1 .. Len(L[semd_h]) + 1 : Activates(L, semAdd, p, i)
<1> DEFINE Q == L[semd_h]
           m == Queue(semd_h)
           free == ~list_empty(list, semdFree_h)
           stop == {i \in DOMAIN m : s_key[m[i]] = semAdd \/ (free /\ Beyond(m[i], semAdd))}
           least == CHOOSE i \in stop : \A j \in stop : i <= j
           new_sem == container_of(list[semdFree_h].next)
           before == IF stop = {} THEN semd_h ELSE s_link(m[least])
           taken == list_del(list, s_link(new_sem))
           linked == list_add_tail(INIT_LIST_HEAD(taken, s_procq(new_sem)),
                                   s_link(new_sem), before)
<1>1. IF stop # {} /\ s_key[m[least]] = semAdd
      THEN list' = list_add_tail(list, p_list(p), s_procq(m[least])) /\ UNCHANGED s_key
      ELSE /\ free
           /\ list' = list_add_tail(linked, p_list(p), s_procq(new_sem))
           /\ s_key' = [s_key EXCEPT ![new_sem] = semAdd]
  BY DEF insertBlocked
<1>active. m = [i \in 1 .. Len(Q) |-> container_of(Q[i])]
  BY Heads, Reading
<1>length. Len(Q) \in Nat
  BY Heads, Reading
<1> HIDE DEF m
<1>2. DOMAIN m = 1 .. Len(Q) /\ Len(Q) \in Nat
  BY <1>active, <1>length
<1>3. \A i \in 1 .. Len(Q) : /\ m[i] \in Semd /\ Q[i] = s_link(m[i]) /\ s_key[m[i]] # NULL
                             /\ s_key[m[i]] = KeyAt(L, i)
  BY <1>active, ActiveOrder DEF KeyAt
<1>4. \A i, j \in 1 .. Len(Q) : i < j => s_key[m[i]] < s_key[m[j]]
  BY <1>active DEF Linked, SemdLists
<1>5. \A d \in Semd : s_key[d] # NULL => \E i \in 1 .. Len(Q) : m[i] = d
  BY <1>active, ActiveOrder, Cells
<1>6. \A i \in 1 .. Len(Q) : s_key[m[i]] \in Int
  <2>1. s_key \in [Semd -> Key \cup {NULL}]
    BY DEF Linked, FieldTypes
  <2> QED BY <1>3, <2>1, KeyAssumption
<1>7. semAdd # NULL /\ semAdd \in Int
  BY KeyAssumption
<1>8. stop # {} => least \in stop /\ \A j \in stop : least <= j
  <2>1. stop \in SUBSET Nat
    BY <1>2
  <2> HIDE DEF stop
  <2>2. stop # {} => \E i \in stop : \A j \in stop : i <= j
    BY <2>1, QT!LeastElement
  <2> QED BY <2>2
<1>9. \A i \in 1 .. Len(Q) : i \in stop <=> s_key[m[i]] = semAdd \/ (free /\ s_key[m[i]] > semAdd)
  BY <1>2 DEF Beyond
<1>10. stop \subseteq 1 .. Len(Q)
  BY <1>2
<1>11. CASE stop # {} /\ s_key[m[least]] = semAdd
  <2> HIDE DEF stop, least
  <2>1. m[least] \in Semd
    BY <1>3, <1>8, <1>10, <1>11
  <2> QED BY <1>1, <1>11, <2>1 DEF Joins
<1>12. CASE ~(stop # {} /\ s_key[m[least]] = semAdd)
  <2>1. /\ free
        /\ list' = list_add_tail(linked, p_list(p), s_procq(new_sem))
        /\ s_key' = [s_key EXCEPT ![new_sem] = semAdd]
    BY <1>1, <1>12
  <2> HIDE DEF stop, least
  <2> DEFINE i == IF stop = {} THEN Len(Q) + 1 ELSE least
  <2>2. i \in 1 .. Len(Q) + 1 /\ before = At(semd_h, Q, i)
    <3>1. CASE stop = {}
      BY <1>2, <3>1 DEF At
    <3>2. CASE stop # {}
      <4>1. least \in 1 .. Len(Q)
        BY <1>8, <1>10, <3>2
      <4> QED BY <1>2, <1>3, <3>2, <4>1 DEF At
    <3> QED BY <3>1, <3>2
  <2>3. \A j \in 1 .. Len(Q) : j < i => ~(s_key[m[j]] = semAdd \/ s_key[m[j]] > semAdd)
    <3>1. CASE stop = {}
      BY <1>9, <2>1, <3>1
    <3>2. CASE stop # {}
      <4>1. least \in 1 .. Len(Q) /\ \A j \in stop : least <= j
        BY <1>8, <1>10, <3>2
      <4> QED BY <1>2, <1>9, <2>1, <3>2, <4>1
    <3> QED BY <3>1, <3>2
  <2>4. i <= Len(Q) => i \in 1 .. Len(Q) /\ semAdd < s_key[m[i]]
    <3>1. CASE stop = {}
      BY <1>2, <3>1
    <3>2. CASE stop # {}
      <4>1. least \in 1 .. Len(Q) /\ least \in stop
        BY <1>8, <1>10, <3>2
      <4> QED BY <1>6, <1>7, <1>9, <1>12, <3>2, <4>1
    <3> QED BY <3>1, <3>2
  <2> HIDE DEF i, before
  <2>5. ASSUME NEW d \in Semd, s_key[d] = semAdd PROVE FALSE
    <3>1. PICK j \in 1 .. Len(Q) : m[j] = d
      BY <1>5, <1>7, <2>5
    <3>2. ~(j < i)
      BY <2>3, <2>5, <3>1
    <3>3. i \in 1 .. Len(Q) /\ semAdd < s_key[m[i]] /\ i <= j
      BY <1>2, <2>2, <2>4, <3>1, <3>2
    <3>4. i = j \/ s_key[m[i]] < s_key[m[j]]
      BY <1>4, <3>1, <3>3
    <3> QED BY <1>6, <1>7, <2>5, <3>1, <3>3, <3>4
  <2>6. i <= Len(Q) => semAdd < KeyAt(L, i)
    BY <1>3, <2>4
  <2>7. \A j \in 1 .. i - 1 : KeyAt(L, j) < semAdd
    <3>1. \A j \in 1 .. i - 1 : j \in 1 .. Len(Q) /\ j < i
      BY <1>2, <2>2
    <3> QED BY <1>3, <1>6, <1>7, <2>3, <3>1
  <2>8. Activates(L, semAdd, p, i)
    BY <2>1, <2>2, <2>5, <2>6, <2>7 DEF Activates
  <2> QED BY <2>2, <2>8
<1> QED BY <1>11, <1>12

\* A process goes to the tail of the queue of its semaphore; the other queues
\* stay as they are.
Enqueued(L, K, semAdd, p) ==
    /\ K[ready_queue] = L[ready_queue]
    /\ WaitCells(s_key', K, semAdd) = Append(WaitCells(s_key, L, semAdd), p_list(p))
    /\ \A s \in Key : s # semAdd => WaitCells(s_key', K, s) = WaitCells(s_key, L, s)

\* What a call does to the PCB that is blocked.
Blocks(semAdd, p) ==
    /\ Held(p) /\ p_semAdd' = [p_semAdd EXCEPT ![p] = semAdd]
    /\ p_parent' = p_parent /\ p_prio' = p_prio /\ p_pid' = p_pid

\* The process that is blocked was held: its p_list is in no list, and no semaphore but
\* semAdd gets a waiter.
LEMMA BlocksFacts ==
    ASSUME NEW L, Linked(L), NEW semAdd \in Key, NEW p \in Pcb, Blocks(semAdd, p)
    PROVE  /\ semAdd # NULL /\ Allocated(p) /\ p_semAdd[p] = NULL
           /\ p_semAdd' \in [Pcb -> Key \cup {NULL}]
           /\ \A q \in Pcb : p_semAdd'[q] = IF q = p THEN semAdd ELSE p_semAdd[q]
           /\ \A q \in Pcb : p_list(q) \in ToSet(L[ready_queue]) => p_semAdd'[q] = NULL
           /\ \A q \in Pcb : Allocated(q)' <=> Allocated(q)
<1>1. semAdd # NULL
  BY KeyAssumption
<1>2. Allocated(p) /\ p_semAdd[p] = NULL /\ p_list(p) \notin ToSet(L[ready_queue])
  BY HeldNotReady DEF Blocks
<1>3. p_semAdd \in [Pcb -> Key \cup {NULL}]
  BY DEF Linked, FieldTypes
<1>4. \A q \in Pcb : p_semAdd'[q] = IF q = p THEN semAdd ELSE p_semAdd[q]
  BY <1>3 DEF Blocks
<1>5. \A q \in Pcb : p_list(q) \in ToSet(L[ready_queue]) => p_semAdd[q] = NULL
  BY Kinds, Cells
<1>6. \A q \in Pcb : Allocated(q)' <=> Allocated(q)
  BY DEF Blocks, Allocated
<1>7. p_semAdd' \in [Pcb -> Key \cup {NULL}]
  BY <1>3 DEF Blocks
<1>8. \A q \in Pcb : p_list(q) \in ToSet(L[ready_queue]) => p_semAdd'[q] = NULL
  BY <1>2, <1>4, <1>5
<1> QED BY <1>1, <1>2, <1>4, <1>6, <1>7, <1>8

\* A process joins the queue of a descriptor that is active.
LEMMA JoinsLists ==
    ASSUME NEW L, Linked(L), NEW semAdd \in Key, NEW p \in Pcb, Blocks(semAdd, p),
           Joins(semAdd, p)
    PROVE  \E K : Linked(K)' /\ Enqueued(L, K, semAdd, p)
<1>1. PICK d \in Semd : /\ s_key[d] = semAdd /\ s_key' = s_key
                        /\ list' = list_add_tail(list, p_list(p), s_procq(d))
  BY DEF Joins
<1> DEFINE head == s_procq(d)
           m == L[head]
           r == Append(m, p_list(p))
           K == [L EXCEPT ![head] = r]
<1>2. /\ semAdd # NULL /\ Allocated(p) /\ p_semAdd[p] = NULL
      /\ p_semAdd' \in [Pcb -> Key \cup {NULL}]
      /\ \A q \in Pcb : p_semAdd'[q] = IF q = p THEN semAdd ELSE p_semAdd[q]
      /\ \A q \in Pcb : p_list(q) \in ToSet(L[ready_queue]) => p_semAdd'[q] = NULL
      /\ \A q \in Pcb : Allocated(q)' <=> Allocated(q)
  BY BlocksFacts
<1>3. p_parent' = p_parent /\ p_prio' = p_prio /\ p_pid' = p_pid /\ Held(p)
  BY DEF Blocks
<1>4. Layout(list, Used, L) /\ head \in Used /\ p_list(p) \in Cell /\ L \in [Used -> Seq(Cell)]
  BY <1>1, <1>2, Heads, Cells DEF Linked, Layout
<1>5. Puts(list, list', Used, L, head, p_list(p), r)
  <2>1. Outside(p_list(p), Used, L)
    BY <1>3, HeldOutside
  <2> QED BY <1>1, <1>4, <2>1, AddTailLayout
<1> HIDE DEF r
<1>6. Layout(list', Used, K) /\ ToSet(r) = ToSet(m) \cup {p_list(p)} /\ Keeps(list, list')
  BY <1>5 DEF Puts
<1>7. K[head] = r /\ \A a \in Used : a # head => K[a] = L[a]
  BY <1>4
<1> HIDE DEF K
<1>8. /\ K[ready_queue] = L[ready_queue] /\ K[pcbFree_h] = L[pcbFree_h]
      /\ K[semd_h] = L[semd_h] /\ K[semdFree_h] = L[semdFree_h]
      /\ \A q \in Pcb : Allocated(q) => K[p_child(q)] = L[p_child(q)]
      /\ \A q \in Pcb : Allocated(q) /\ p_parent[q] = NULL => K[p_sib(q)] = L[p_sib(q)]
      /\ \A e \in Semd : s_key[e] # NULL /\ e # d => K[s_procq(e)] = L[s_procq(e)]
  BY <1>7, Heads, Cells
<1>9. Used' = Used
  BY <1>1, <1>3 DEF Used, Allocated
<1>10. s_key' \in [Semd -> Key \cup {NULL}]
  BY <1>1 DEF Linked, FieldTypes
<1>11. BlockedFrame(L, K)
  BY <1>2, <1>3, <1>6, <1>8, <1>9, <1>10 DEF BlockedFrame
<1>12. \A e \in Semd : s_key[e] = s_key[d] => e = d
  BY <1>1, <1>2 DEF Linked, SemdLists
<1>13. Waiters(K)'
  <2>1. ASSUME NEW e \in Semd, s_key[e] # NULL
        PROVE  ToSet(K[s_procq(e)]) = {p_list(c) : c \in {q \in Pcb : p_semAdd'[q] = s_key[e]}}
    <3>1. ToSet(L[s_procq(e)]) = {p_list(c) : c \in {q \in Pcb : p_semAdd[q] = s_key[e]}}
      BY <2>1 DEF Linked, PcbLists
    <3>2. CASE e = d
      <4>1. {q \in Pcb : p_semAdd'[q] = s_key[e]} = {q \in Pcb : p_semAdd[q] = s_key[e]} \cup {p}
        BY <1>1, <1>2, <3>2
      <4> QED BY <1>6, <1>7, <3>1, <3>2, <4>1
    <3>3. CASE e # d
      <4>1. {q \in Pcb : p_semAdd'[q] = s_key[e]} = {q \in Pcb : p_semAdd[q] = s_key[e]}
        BY <1>1, <1>2, <1>12, <2>1, <3>3
      <4> QED BY <1>8, <2>1, <3>1, <3>3, <4>1
    <3> QED BY <3>2, <3>3
  <2> QED BY <1>1, <2>1 DEF Waiters
<1>14. SemdLists(K)'
  <2>1. \A e \in Semd : s_key[e] # NULL => \E q \in Pcb : p_semAdd'[q] = s_key[e]
    <3>1. \A e \in Semd : s_key[e] # NULL => \E q \in Pcb : p_semAdd[q] = s_key[e]
      BY DEF Linked, SemdLists
    <3> QED BY <1>2, <3>1
  <2>2. \A q \in Pcb : p_semAdd'[q] # NULL =>
           Allocated(q)' /\ \E e \in Semd : s_key[e] = p_semAdd'[q]
    BY <1>1, <1>2 DEF Linked, SemdLists
  <2> QED BY <1>1, <1>8, <2>1, <2>2 DEF Linked, SemdLists
<1>15. Enqueued(L, K, semAdd, p)
  <2>1. WaitCells(s_key, K, s_key[d]) = K[s_procq(d)]
    BY <1>12, WaitCellsOf
  <2>2. WaitCells(s_key, L, s_key[d]) = L[s_procq(d)]
    BY <1>12, WaitCellsOf
  <2>3. ASSUME NEW s \in Key, s # semAdd
        PROVE  WaitCells(s_key, K, s) = WaitCells(s_key, L, s)
    <3>1. \A e \in Semd : s_key[e] = s => K[s_procq(e)] = L[s_procq(e)]
      BY <1>1, <1>8, <2>3, KeyAssumption
    <3> QED BY <3>1, WaitCellsSame
  <2> QED BY <1>1, <1>7, <1>8, <2>1, <2>2, <2>3 DEF Enqueued, r
<1>16. Linked(K)'
  BY <1>11, <1>13, <1>14, BlockedChange
<1> QED BY <1>15, <1>16

\* The layout that a new active descriptor leaves: the free list without the
\* first, the active list with it at the place i, and a list with one process.
Activated(L, semAdd, p, i, d, K) ==
    /\ s_key[d] = NULL /\ s_key' = [s_key EXCEPT ![d] = semAdd]
    /\ Layout(list', Used \cup {s_procq(d)}, K) /\ Keeps(list, list')
    /\ ToSet(K[semdFree_h]) = ToSet(L[semdFree_h]) \ {s_link(d)}
    /\ K[semd_h] = InsertAt(L[semd_h], i, s_link(d))
    /\ K[s_procq(d)] = <<p_list(p)>>
    /\ \A a \in Used : a \notin {semdFree_h, semd_h} => K[a] = L[a]

\* The heap after a descriptor has gone from the free list to its place in semd_h, and
\* the process into its queue.
LEMMA ActivatesLayout ==
    ASSUME NEW L, Linked(L), NEW semAdd \in Key, NEW p \in Pcb, Held(p),
           NEW i \in 1 .. Len(L[semd_h]) + 1, Activates(L, semAdd, p, i)
    PROVE  \E d \in Semd : \E K : Activated(L, semAdd, p, i, d, K)
<1>1. /\ ~list_empty(list, semdFree_h)
      /\ list' = list_add_tail(
                  list_add_tail(
                     INIT_LIST_HEAD(list_del(list, s_link(container_of(list[semdFree_h].next))),
                                    s_procq(container_of(list[semdFree_h].next))),
                     s_link(container_of(list[semdFree_h].next)), At(semd_h, L[semd_h], i)),
                  p_list(p), s_procq(container_of(list[semdFree_h].next)))
      /\ s_key' = [s_key EXCEPT ![container_of(list[semdFree_h].next)] = semAdd]
  BY DEF Activates
<1> DEFINE f == L[semdFree_h]
<1>2. 1 \in 1 .. Len(f) /\ list[semdFree_h].next = f[1] /\ f[1] \in ToSet(f)
  BY <1>1, Reading, Heads
<1>3. PICK d \in Semd : f[1] = s_link(d) /\ s_key[d] = NULL
  BY <1>2, Kinds
<1>4. container_of(list[semdFree_h].next) = d
  BY <1>2, <1>3, Cells
<1> DEFINE r == RemoveAt(f, 1)
           L1 == [L EXCEPT ![semdFree_h] = r]
           h1 == list_del(list, s_link(d))
           h2 == INIT_LIST_HEAD(h1, s_procq(d))
           H == Used \cup {s_procq(d)}
           L2 == OneMore(Used, L1, s_procq(d))
           h3 == list_add_tail(h2, s_link(d), At(semd_h, L[semd_h], i))
           t == InsertAt(L[semd_h], i, s_link(d))
           L3 == [L2 EXCEPT ![semd_h] = t]
           h4 == list_add_tail(h3, p_list(p), s_procq(d))
           w == Append(L3[s_procq(d)], p_list(p))
           K == [L3 EXCEPT ![s_procq(d)] = w]
<1>5. list' = h4 /\ s_key' = [s_key EXCEPT ![d] = semAdd]
  BY <1>1, <1>4
<1>6. /\ L \in [Used -> Seq(Cell)] /\ semdFree_h \in Used /\ semd_h \in Used
      /\ s_procq(d) \notin Used /\ semd_h # semdFree_h
      /\ s_procq(d) # semd_h /\ s_procq(d) # semdFree_h
      /\ s_link(d) \in Cell /\ s_procq(d) \in Cell /\ p_list(p) \in Cell
      /\ s_link(d) # s_procq(d) /\ s_link(d) # p_list(p) /\ p_list(p) # s_procq(d)
  BY <1>3, Heads, Cells DEF Linked, Layout
<1>7. Takes(list, h1, Used, L, semdFree_h, s_link(d), r)
  <2>1. Takes(list, list_del(list, f[1]), Used, L, semdFree_h, f[1], RemoveAt(f, 1))
    BY <1>2, <1>6, DelLayout DEF Linked
  <2> QED BY <1>3, <2>1
<1> HIDE DEF r, h1
<1>8. /\ Layout(h1, Used, L1) /\ r \in Seq(Cell) /\ ToSet(r) = ToSet(f) \ {s_link(d)}
      /\ Outside(s_link(d), Used, L1) /\ Keeps(list, h1)
  BY <1>7 DEF Takes
<1>9. Outside(s_procq(d), Used, L) /\ Outside(p_list(p), Used, L)
  BY <1>6, Alien, Cells, HeldOutside
<1>10. Outside(s_procq(d), Used, L1) /\ Outside(p_list(p), Used, L1)
  BY <1>6, <1>8, <1>9, OutsideLess
<1>11. Layout(h2, Used, L1) /\ Chain(h2, s_procq(d), <<>>) /\ Keeps(h1, h2)
  BY <1>6, <1>8, <1>10, InitLayout
<1>12. L1 \in [Used -> Seq(Cell)] /\ L1[semd_h] = L[semd_h]
       /\ \A a \in Used : a # semdFree_h => L1[a] = L[a]
  BY <1>6, <1>8
<1>13. L1[semdFree_h] = r
  BY <1>6
<1> HIDE DEF L1, h2
<1>14. Layout(h2, H, L2)
  BY <1>6, <1>10, <1>11, OneMoreList
<1>15. Outside(s_link(d), H, L2) /\ Outside(p_list(p), H, L2)
  BY <1>6, <1>8, <1>10, OutsideMore
<1>16. /\ L2[s_procq(d)] = <<>> /\ \A a \in Used : L2[a] = L1[a]
       /\ L2 \in [H -> Seq(Cell)] /\ semd_h \in H /\ s_procq(d) \in H
       /\ \A a \in Used : a \in H
  BY <1>6, <1>14 DEF OneMore, Layout
<1>17. L2[semd_h] = L[semd_h]
  BY <1>6, <1>12, <1>16
<1> HIDE DEF H, L2
<1>18. Puts(h2, h3, H, L2, semd_h, s_link(d), t)
  <2>1. ASSUME NEW j \in 1 .. Len(L2[semd_h]) + 1
        PROVE  Puts(h2, list_add_tail(h2, s_link(d), At(semd_h, L2[semd_h], j)),
                    H, L2, semd_h, s_link(d), InsertAt(L2[semd_h], j, s_link(d)))
    BY <1>6, <1>14, <1>15, <1>16, AddBeforeLayout
  <2> QED BY <1>17, <2>1
<1> HIDE DEF h3, t
<1>19. /\ Layout(h3, H, L3) /\ t \in Seq(Cell) /\ Keeps(h2, h3)
       /\ ToSet(t) = ToSet(L2[semd_h]) \cup {s_link(d)}
  BY <1>18 DEF Puts
<1>20. Outside(p_list(p), H, L3)
  BY <1>6, <1>15, <1>16, <1>19, OutsidePut
<1>21. /\ L3[s_procq(d)] = <<>> /\ L3[semd_h] = t /\ L3 \in [H -> Seq(Cell)]
       /\ \A a \in Used : a # semd_h => L3[a] = L2[a]
  BY <1>6, <1>16, <1>19
<1> HIDE DEF L3
<1>22. Puts(h3, h4, H, L3, s_procq(d), p_list(p), w)
  BY <1>6, <1>16, <1>19, <1>20, AddTailLayout
<1> HIDE DEF h4
<1>23. Layout(h4, H, K) /\ Keeps(h3, h4)
  BY <1>22 DEF Puts
<1>24. Keeps(list, h4)
  BY <1>8, <1>11, <1>19, <1>23, KeepsAgain
<1>25. w = <<p_list(p)>>
  BY <1>21
<1>26. K[s_procq(d)] = w /\ \A a \in Used : K[a] = L3[a]
  BY <1>6, <1>16, <1>21
<1> HIDE DEF K, w
<1>27. /\ K[semdFree_h] = r /\ K[semd_h] = t
       /\ \A a \in Used : a \notin {semdFree_h, semd_h} => K[a] = L[a]
  BY <1>6, <1>12, <1>13, <1>16, <1>21, <1>26
<1>28. /\ Layout(list', Used \cup {s_procq(d)}, K) /\ Keeps(list, list')
       /\ ToSet(K[semdFree_h]) = ToSet(L[semdFree_h]) \ {s_link(d)}
       /\ K[semd_h] = InsertAt(L[semd_h], i, s_link(d))
       /\ K[s_procq(d)] = <<p_list(p)>>
  BY <1>5, <1>8, <1>23, <1>24, <1>25, <1>26, <1>27 DEF H, t
<1> HIDE DEF f, r, t, h4
<1>29. PICK k : k = K
  OBVIOUS
<1>30. Activated(L, semAdd, p, i, d, k)
  BY <1>3, <1>5, <1>27, <1>28, <1>29 DEF Activated
<1> QED BY <1>30

\* The keys stay in order.
LEMMA ActivatesOrder ==
    ASSUME NEW L, Linked(L), NEW semAdd \in Key, NEW p, NEW i \in 1 .. Len(L[semd_h]) + 1,
           Activates(L, semAdd, p, i), NEW d \in Semd, s_key[d] = NULL,
           NEW key, key = [s_key EXCEPT ![d] = semAdd],
           NEW t, t = InsertAt(L[semd_h], i, s_link(d))
    PROVE  \A j, k \in 1 .. Len(t) : j < k => key[container_of(t[j])] < key[container_of(t[k])]
<1> DEFINE Q == L[semd_h]
           at(j) == key[container_of(t[j])]
<1>1. Q \in Seq(Cell) /\ Len(Q) \in Nat /\ s_link(d) \in Cell
  BY Heads, Reading, Cells
<1>2. /\ Len(t) = Len(Q) + 1
      /\ \A j \in 1 .. Len(Q) + 1 : t[j] = IF j < i THEN Q[j] ELSE IF j = i THEN s_link(d) ELSE Q[j - 1]
  <2> HIDE DEF Q, at
  <2>1. /\ Len(InsertAt(Q, i, s_link(d))) = Len(Q) + 1
        /\ \A j \in 1 .. Len(Q) + 1 :
              InsertAt(Q, i, s_link(d))[j] =
                 IF j < i THEN Q[j] ELSE IF j = i THEN s_link(d) ELSE Q[j - 1]
    <3>1. i \in 1 .. Len(Q) + 1
      BY DEF Q
    <3> QED BY <1>1, <3>1, InsertedCells
  <2>2. t = InsertAt(Q, i, s_link(d))
    BY DEF Q
  <2> QED BY <2>1, <2>2
<1>3. /\ \A j \in 1 .. i - 1 : KeyAt(L, j) < semAdd
      /\ i <= Len(Q) => semAdd < KeyAt(L, i)
  BY DEF Activates
<1>4. s_key \in [Semd -> Key \cup {NULL}]
  BY DEF Linked, FieldTypes
<1>5. \A j \in 1 .. Len(Q) : key[container_of(Q[j])] = KeyAt(L, j) /\ KeyAt(L, j) \in Int
  <2>1. \A j \in 1 .. Len(Q) : container_of(Q[j]) \in Semd /\ s_key[container_of(Q[j])] # NULL
    BY ActiveOrder
  <2> QED BY <1>4, <2>1, KeyAssumption DEF KeyAt
<1>6. key[container_of(s_link(d))] = semAdd /\ semAdd \in Int
  BY <1>4, Cells, KeyAssumption
<1>7. \A j, k \in 1 .. Len(Q) : j < k => KeyAt(L, j) < KeyAt(L, k)
  BY DEF Linked, SemdLists, KeyAt
<1>8. ASSUME NEW j \in 1 .. Len(Q) + 1
      PROVE  /\ j < i => j \in 1 .. Len(Q) /\ at(j) = KeyAt(L, j) /\ at(j) < semAdd
             /\ j = i => at(j) = semAdd
             /\ j > i => /\ j - 1 \in 1 .. Len(Q) /\ at(j) = KeyAt(L, j - 1)
                         /\ i <= j - 1 /\ i \in 1 .. Len(Q)
  <2>1. CASE j < i
    <3>1. j \in 1 .. Len(Q) /\ j \in 1 .. i - 1 /\ t[j] = Q[j]
      BY <1>1, <1>2, <2>1
    <3> QED BY <1>3, <1>5, <2>1, <3>1
  <2>2. CASE j = i
    <3>1. t[j] = s_link(d)
      BY <1>1, <1>2, <2>2
    <3> QED BY <1>6, <2>2, <3>1
  <2>3. CASE j > i
    <3>1. /\ j - 1 \in 1 .. Len(Q) /\ t[j] = Q[j - 1] /\ i <= j - 1 /\ i \in 1 .. Len(Q)
      BY <1>1, <1>2, <2>3
    <3> QED BY <1>5, <2>3, <3>1
  <2> QED BY <2>1, <2>2, <2>3
<1>9. \A j \in 1 .. Len(Q) : i <= j => semAdd < KeyAt(L, j)
  <2> TAKE j \in 1 .. Len(Q)
  <2> HAVE i <= j
  <2>1. i \in 1 .. Len(Q) /\ semAdd < KeyAt(L, i)
    BY <1>1, <1>3
  <2>2. i = j \/ KeyAt(L, i) < KeyAt(L, j)
    BY <1>7, <2>1
  <2> QED BY <1>5, <1>6, <2>1, <2>2
<1> HIDE DEF at
<1>10. ASSUME NEW j \in 1 .. Len(Q) + 1, NEW k \in 1 .. Len(Q) + 1, j < k
       PROVE  at(j) < at(k)
  <2>1. CASE k < i
    <3>1. j < i
      BY <1>10, <2>1
    <3> QED BY <1>7, <1>8, <1>10, <2>1, <3>1
  <2>2. CASE k = i
    BY <1>8, <1>10, <2>2
  <2>3. CASE k > i /\ j = i
    <3>1. at(j) = semAdd /\ at(k) = KeyAt(L, k - 1) /\ i <= k - 1 /\ k - 1 \in 1 .. Len(Q)
      BY <1>8, <2>3
    <3> QED BY <1>9, <3>1
  <2>4. CASE k > i /\ j < i
    <3>1. at(k) = KeyAt(L, k - 1) /\ i <= k - 1 /\ k - 1 \in 1 .. Len(Q)
      BY <1>8, <2>4
    <3>2. j \in 1 .. Len(Q) /\ at(j) = KeyAt(L, j) /\ j < k - 1
      BY <1>8, <2>4, <3>1
    <3> QED BY <1>7, <3>1, <3>2
  <2>5. CASE k > i /\ j > i
    <3>1. at(k) = KeyAt(L, k - 1) /\ k - 1 \in 1 .. Len(Q)
      BY <1>8, <2>5
    <3>2. at(j) = KeyAt(L, j - 1) /\ j - 1 \in 1 .. Len(Q) /\ j - 1 < k - 1
      BY <1>8, <1>10, <2>5
    <3> QED BY <1>7, <3>1, <3>2
  <2> QED BY <1>10, <2>1, <2>2, <2>3, <2>4, <2>5
<1> QED BY <1>2, <1>10 DEF at

\* A process is the first in the queue of a descriptor that becomes active.
LEMMA ActivatesLists ==
    ASSUME NEW L, Linked(L), NEW semAdd \in Key, NEW p \in Pcb, Blocks(semAdd, p),
           NEW i \in 1 .. Len(L[semd_h]) + 1, Activates(L, semAdd, p, i)
    PROVE  \E K : Linked(K)' /\ Enqueued(L, K, semAdd, p)
<1>pick. PICK d \in Semd : \E K : Activated(L, semAdd, p, i, d, K)
  <2>1. Held(p)
    BY DEF Blocks
  <2> QED BY <2>1, ActivatesLayout
<1>0. PICK K : Activated(L, semAdd, p, i, d, K)
  BY <1>pick
<1>1. /\ s_key[d] = NULL /\ s_key' = [s_key EXCEPT ![d] = semAdd]
      /\ Layout(list', Used \cup {s_procq(d)}, K) /\ Keeps(list, list')
      /\ ToSet(K[semdFree_h]) = ToSet(L[semdFree_h]) \ {s_link(d)}
      /\ K[semd_h] = InsertAt(L[semd_h], i, s_link(d))
      /\ K[s_procq(d)] = <<p_list(p)>>
      /\ \A a \in Used : a \notin {semdFree_h, semd_h} => K[a] = L[a]
  BY <1>0 DEF Activated
<1>2. /\ semAdd # NULL /\ Allocated(p) /\ p_semAdd[p] = NULL
      /\ p_semAdd' \in [Pcb -> Key \cup {NULL}]
      /\ \A q \in Pcb : p_semAdd'[q] = IF q = p THEN semAdd ELSE p_semAdd[q]
      /\ \A q \in Pcb : p_list(q) \in ToSet(L[ready_queue]) => p_semAdd'[q] = NULL
      /\ \A q \in Pcb : Allocated(q)' <=> Allocated(q)
  BY BlocksFacts
<1>3. p_parent' = p_parent /\ p_prio' = p_prio /\ p_pid' = p_pid
  BY DEF Blocks
<1>4. /\ s_key' \in [Semd -> Key \cup {NULL}]
      /\ \A e \in Semd : s_key'[e] = IF e = d THEN semAdd ELSE s_key[e]
  BY <1>1 DEF Linked, FieldTypes
<1>5. \A e \in Semd : s_key[e] # semAdd
  BY DEF Activates
<1>6. \A q \in Pcb : p_semAdd[q] # semAdd
  BY <1>2, <1>5 DEF Linked, SemdLists
<1>7. Used' = Used \cup {s_procq(d)}
  <2>1. {s_procq(e) : e \in {c \in Semd : s_key'[c] # NULL}} =
           {s_procq(e) : e \in {c \in Semd : s_key[c] # NULL}} \cup {s_procq(d)}
    BY <1>2, <1>4
  <2>2. Used' = {pcbFree_h, semdFree_h, semd_h, ready_queue}
                \cup {s_procq(e) : e \in {c \in Semd : s_key'[c] # NULL}}
                \cup {p_child(q) : q \in {c \in Pcb : Allocated(c)}}
                \cup {p_sib(q) : q \in {c \in Pcb : Allocated(c) /\ p_parent[c] = NULL}}
    BY <1>2, <1>3 DEF Used
  <2> QED BY <2>1, <2>2 DEF Used
<1>8. /\ K[ready_queue] = L[ready_queue] /\ K[pcbFree_h] = L[pcbFree_h]
      /\ \A q \in Pcb : Allocated(q) => K[p_child(q)] = L[p_child(q)]
      /\ \A q \in Pcb : Allocated(q) /\ p_parent[q] = NULL => K[p_sib(q)] = L[p_sib(q)]
      /\ \A e \in Semd : s_key[e] # NULL => K[s_procq(e)] = L[s_procq(e)]
  BY <1>1, Heads, Cells
<1>9. BlockedFrame(L, K)
  BY <1>1, <1>2, <1>3, <1>4, <1>7, <1>8 DEF BlockedFrame
<1>10. Waiters(K)'
  <2>1. ASSUME NEW e \in Semd, s_key'[e] # NULL
        PROVE  ToSet(K[s_procq(e)]) = {p_list(c) : c \in {q \in Pcb : p_semAdd'[q] = s_key'[e]}}
    <3>1. CASE e = d
      <4>1. {q \in Pcb : p_semAdd'[q] = s_key'[e]} = {p}
        BY <1>2, <1>4, <1>6, <3>1
      <4>2. ToSet(<<p_list(p)>>) = {p_list(p)}
        BY DEF ToSet
      <4> QED BY <1>1, <3>1, <4>1, <4>2
    <3>2. CASE e # d
      <4>1. s_key[e] # NULL /\ s_key'[e] = s_key[e]
        BY <1>4, <2>1, <3>2
      <4>2. ToSet(L[s_procq(e)]) = {p_list(c) : c \in {q \in Pcb : p_semAdd[q] = s_key[e]}}
        BY <4>1 DEF Linked, PcbLists
      <4>3. {q \in Pcb : p_semAdd'[q] = s_key[e]} = {q \in Pcb : p_semAdd[q] = s_key[e]}
        BY <1>2, <1>5, <4>1
      <4> QED BY <1>8, <4>1, <4>2, <4>3
    <3> QED BY <3>1, <3>2
  <2> QED BY <2>1 DEF Waiters
<1>11. SemdLists(K)'
  <2>1. ToSet(K[semd_h]) = {s_link(e) : e \in {c \in Semd : s_key'[c] # NULL}}
    <3>1. ToSet(K[semd_h]) = ToSet(L[semd_h]) \cup {s_link(d)}
      <4>1. L[semd_h] \in Seq(Cell) /\ s_link(d) \in Cell
        BY Heads, Cells DEF Linked, Layout
      <4> QED BY <1>1, <4>1, InsertedCells
    <3>2. ToSet(L[semd_h]) = {s_link(e) : e \in {c \in Semd : s_key[c] # NULL}}
      BY DEF Linked, SemdLists
    <3> QED BY <1>2, <1>4, <3>1, <3>2
  <2>2. ToSet(K[semdFree_h]) = {s_link(e) : e \in {c \in Semd : s_key'[c] = NULL}}
    <3>1. ToSet(L[semdFree_h]) = {s_link(e) : e \in {c \in Semd : s_key[c] = NULL}}
      BY DEF Linked, SemdLists
    <3>2. \A e \in Semd : s_link(e) = s_link(d) => e = d
      BY Cells
    <3> QED BY <1>1, <1>2, <1>4, <3>1, <3>2
  <2>3. \A j, k \in 1 .. Len(K[semd_h]) :
           j < k => s_key'[container_of(K[semd_h][j])] < s_key'[container_of(K[semd_h][k])]
    <3>1. ASSUME NEW key, key = [s_key EXCEPT ![d] = semAdd],
                 NEW t, t = InsertAt(L[semd_h], i, s_link(d))
          PROVE  \A j, k \in 1 .. Len(t) :
                    j < k => key[container_of(t[j])] < key[container_of(t[k])]
      BY <1>1, <3>1, ActivatesOrder
    <3> QED BY <1>1, <3>1
  <2>4. \A e, c \in Semd : s_key'[e] = s_key'[c] /\ s_key'[e] # NULL => e = c
    BY <1>4, <1>5 DEF Linked, SemdLists
  <2>5. \A e \in Semd : s_key'[e] # NULL => \E q \in Pcb : p_semAdd'[q] = s_key'[e]
    <3>1. \A e \in Semd : s_key[e] # NULL => \E q \in Pcb : p_semAdd[q] = s_key[e]
      BY DEF Linked, SemdLists
    <3> QED BY <1>2, <1>4, <3>1
  <2>6. \A q \in Pcb : p_semAdd'[q] # NULL =>
           Allocated(q)' /\ \E e \in Semd : s_key'[e] = p_semAdd'[q]
    <3>1. \A q \in Pcb : p_semAdd[q] # NULL =>
             Allocated(q) /\ \E e \in Semd : s_key[e] = p_semAdd[q]
      BY DEF Linked, SemdLists
    <3> QED BY <1>1, <1>2, <1>4, <3>1
  <2> QED BY <2>1, <2>2, <2>3, <2>4, <2>5, <2>6 DEF SemdLists
<1>12. Enqueued(L, K, semAdd, p)
  <2>1. WaitCells(s_key', K, semAdd) = <<p_list(p)>>
    <3>1. s_key'[d] = semAdd /\ \A e \in Semd : s_key'[e] = s_key'[d] => e = d
      BY <1>4, <1>5
    <3>2. WaitCells(s_key', K, s_key'[d]) = K[s_procq(d)]
      BY <3>1, WaitCellsOf
    <3> QED BY <1>1, <3>1, <3>2
  <2>2. WaitCells(s_key, L, semAdd) = <<>>
    BY <1>5, WaitCellsNone
  <2>3. ASSUME NEW s \in Key, s # semAdd
        PROVE  WaitCells(s_key', K, s) = WaitCells(s_key, L, s)
    <3>1. s # NULL
      BY KeyAssumption
    <3>2. /\ \A e \in Semd : s_key'[e] = s <=> s_key[e] = s
          /\ \A e \in Semd : s_key[e] = s => K[s_procq(e)] = L[s_procq(e)]
      BY <1>1, <1>4, <1>8, <2>3, <3>1
    <3> QED BY <3>2, WaitCellsSame
  <2>4. Append(<<>>, p_list(p)) = <<p_list(p)>>
    OBVIOUS
  <2> QED BY <1>8, <2>1, <2>2, <2>3, <2>4 DEF Enqueued
<1>13. Linked(K)'
  BY <1>9, <1>10, <1>11, BlockedChange
<1> QED BY <1>12, <1>13

\* insertBlocked: the process is the last in the queue of the semaphore.
LEMMA insertBlockedLists ==
    ASSUME NEW L, Linked(L), NEW semAdd \in Key, NEW p \in Pcb, insertBlocked(semAdd, p)
    PROVE  Blocks(semAdd, p) /\ \E K : Linked(K)' /\ Enqueued(L, K, semAdd, p)
<1>1. Blocks(semAdd, p)
  BY DEF insertBlocked, Blocks
<1> QED BY <1>1, insertBlockedCases, JoinsLists, ActivatesLists

\* The i-th process leaves the queue of semAdd; the other queues stay as they are.
Dequeued(L, K, semAdd, i) ==
    /\ K[ready_queue] = L[ready_queue]
    /\ WaitCells(s_key', K, semAdd) = RemoveAt(WaitCells(s_key, L, semAdd), i)
    /\ \A s \in Key : s # semAdd => WaitCells(s_key', K, s) = WaitCells(s_key, L, s)

\* What a call does that takes p, at the place i, out of the queue of sem.
Releases(L, semAdd, sem, p, i) ==
    /\ s_key[sem] = semAdd /\ L[s_procq(sem)][i] = p_list(p)
    /\ Retire(INIT_LIST_HEAD(list_del(list, p_list(p)), p_list(p)), sem)
    /\ p_semAdd' = [p_semAdd EXCEPT ![p] = NULL]
    /\ p_parent' = p_parent /\ p_prio' = p_prio /\ p_pid' = p_pid

\* The process is out of the list; the descriptor is as it was, or without
\* waiters and on the way to the free list.
Released(L, sem, p, i, h, L1) ==
    /\ Layout(h, Used, L1) /\ Keeps(list, h)
    /\ L1 = [L EXCEPT ![s_procq(sem)] = RemoveAt(L[s_procq(sem)], i)]
    /\ ToSet(L1[s_procq(sem)]) = ToSet(L[s_procq(sem)]) \ {p_list(p)}
    /\ Retire(h, sem)

\* The process that is released waited for semAdd and for nothing else, and its p_list is
\* out of the queue.
LEMMA ReleasesFacts ==
    ASSUME NEW L, Linked(L), NEW semAdd \in Key, NEW sem \in Semd, NEW p \in Pcb,
           NEW i \in 1 .. Len(L[s_procq(sem)]), Releases(L, semAdd, sem, p, i)
    PROVE  /\ semAdd # NULL /\ p_semAdd[p] = semAdd /\ Allocated(p)
           /\ p_semAdd' \in [Pcb -> Key \cup {NULL}]
           /\ \A q \in Pcb : p_semAdd'[q] = IF q = p THEN NULL ELSE p_semAdd[q]
           /\ \A q \in Pcb : p_list(q) \in ToSet(L[ready_queue]) => p_semAdd'[q] = NULL
           /\ \A q \in Pcb : Allocated(q)' <=> Allocated(q)
           /\ \A e \in Semd : s_key[e] = s_key[sem] => e = sem
           /\ \E h, L1 : Released(L, sem, p, i, h, L1)
<1> DEFINE m == L[s_procq(sem)]
           r == RemoveAt(m, i)
           h1 == list_del(list, p_list(p))
<1>1. /\ s_key[sem] = semAdd /\ m[i] = p_list(p)
      /\ Retire(INIT_LIST_HEAD(h1, p_list(p)), sem)
      /\ p_semAdd' = [p_semAdd EXCEPT ![p] = NULL]
      /\ p_parent' = p_parent /\ p_prio' = p_prio /\ p_pid' = p_pid
  BY DEF Releases
<1>2. semAdd # NULL
  BY KeyAssumption
<1>3. s_procq(sem) \in Used /\ Layout(list, Used, L) /\ p_list(p) \in Cell
  BY <1>1, <1>2, Heads, Cells DEF Linked
<1>4. p_list(p) \in ToSet(m)
  <2>1. \A j \in 1 .. Len(m) : m[j] \in ToSet(m)
    BY <1>3, Places DEF Layout, Chain
  <2> QED BY <1>1, <2>1
<1>5. p_semAdd[p] = semAdd
  <2>1. ToSet(m) = {p_list(q) : q \in {c \in Pcb : p_semAdd[c] = semAdd}}
    BY <1>1, <1>2 DEF Linked, PcbLists
  <2> QED BY <1>4, <2>1, Cells
<1>6. Allocated(p)
  BY <1>2, <1>5 DEF Linked, SemdLists
<1>7. p_semAdd \in [Pcb -> Key \cup {NULL}]
  BY DEF Linked, FieldTypes
<1>8. \A q \in Pcb : p_semAdd'[q] = IF q = p THEN NULL ELSE p_semAdd[q]
  BY <1>1, <1>7
<1>9. \A q \in Pcb : p_list(q) \in ToSet(L[ready_queue]) => p_semAdd'[q] = NULL
  BY <1>8, Kinds, Cells
<1>10. \A q \in Pcb : Allocated(q)' <=> Allocated(q)
  BY <1>1 DEF Allocated
<1>11. \A e \in Semd : s_key[e] = s_key[sem] => e = sem
  BY <1>1, <1>2 DEF Linked, SemdLists
<1>12. p_semAdd' \in [Pcb -> Key \cup {NULL}]
  BY <1>1, <1>7
<1>13. Takes(list, h1, Used, L, s_procq(sem), p_list(p), r) /\ Chain(h1, p_list(p), <<>>)
  <2>1. /\ Takes(list, list_del(list, m[i]), Used, L, s_procq(sem), m[i], RemoveAt(m, i))
        /\ Chain(list_del(list, m[i]), m[i], <<>>)
    BY <1>3, DelLayout
  <2> QED BY <1>1, <2>1
<1> DEFINE L1 == [L EXCEPT ![s_procq(sem)] = r]
<1> HIDE DEF r, h1
<1>14. /\ Layout(h1, Used, L1) /\ ToSet(r) = ToSet(m) \ {p_list(p)}
       /\ Keeps(list, h1) /\ h1 \in Heap(Cell, Fields)
  BY <1>13 DEF Takes, Layout
<1>15. INIT_LIST_HEAD(h1, p_list(p)) = h1
  BY <1>3, <1>13, <1>14, InitEmpty
<1>16. Retire(h1, sem)
  BY <1>1, <1>15
<1>17. L1[s_procq(sem)] = r
  BY <1>3 DEF Layout
<1>18. PICK h, l : h = h1 /\ l = L1
  OBVIOUS
<1>19. Released(L, sem, p, i, h, l)
  BY <1>14, <1>16, <1>17, <1>18 DEF Released, r
<1>20. \E h0, l0 : Released(L, sem, p, i, h0, l0)
  BY <1>19
<1> QED BY <1>2, <1>5, <1>6, <1>8, <1>9, <1>10, <1>11, <1>12, <1>20

\* Others still wait: the descriptor stays.
LEMMA StaysLists ==
    ASSUME NEW L, Linked(L), NEW semAdd \in Key, NEW sem \in Semd, NEW p \in Pcb,
           NEW i \in 1 .. Len(L[s_procq(sem)]), Releases(L, semAdd, sem, p, i),
           NEW h, NEW K, Released(L, sem, p, i, h, K), K[s_procq(sem)] # <<>>
    PROVE  Linked(K)' /\ Dequeued(L, K, semAdd, i)
<1> DEFINE r == RemoveAt(L[s_procq(sem)], i)
<1>1. /\ semAdd # NULL /\ p_semAdd[p] = semAdd /\ Allocated(p)
      /\ p_semAdd' \in [Pcb -> Key \cup {NULL}]
      /\ \A q \in Pcb : p_semAdd'[q] = IF q = p THEN NULL ELSE p_semAdd[q]
      /\ \A q \in Pcb : p_list(q) \in ToSet(L[ready_queue]) => p_semAdd'[q] = NULL
      /\ \A q \in Pcb : Allocated(q)' <=> Allocated(q)
      /\ \A e \in Semd : s_key[e] = s_key[sem] => e = sem
  BY ReleasesFacts
<1>2. /\ s_key[sem] = semAdd
      /\ p_parent' = p_parent /\ p_prio' = p_prio /\ p_pid' = p_pid
  BY DEF Releases
<1>3. /\ Layout(h, Used, K) /\ Keeps(list, h) /\ K = [L EXCEPT ![s_procq(sem)] = r]
      /\ ToSet(K[s_procq(sem)]) = ToSet(L[s_procq(sem)]) \ {p_list(p)}
      /\ Retire(h, sem)
  BY DEF Released
<1>4. s_procq(sem) \in Used /\ L \in [Used -> Seq(Cell)]
  BY <1>1, <1>2, Heads DEF Linked, Layout
<1>5. K[s_procq(sem)] = r /\ \A a \in Used : a # s_procq(sem) => K[a] = L[a]
  BY <1>3, <1>4
<1>6. list' = h /\ s_key' = s_key
  <2>1. ~list_empty(h, s_procq(sem))
    <3>1. ASSUME NEW a \in Used, Layout(h, Used, K)
          PROVE  list_empty(h, a) <=> K[a] = <<>>
      BY <3>1, ListFacts
    <3> QED BY <1>3, <1>4, <3>1
  <2> QED BY <1>3, <2>1 DEF Retire
<1>7. Used' = Used
  BY <1>1, <1>2, <1>6 DEF Used
<1>8. /\ K[ready_queue] = L[ready_queue] /\ K[pcbFree_h] = L[pcbFree_h]
      /\ K[semd_h] = L[semd_h] /\ K[semdFree_h] = L[semdFree_h]
      /\ \A q \in Pcb : Allocated(q) => K[p_child(q)] = L[p_child(q)]
      /\ \A q \in Pcb : Allocated(q) /\ p_parent[q] = NULL => K[p_sib(q)] = L[p_sib(q)]
      /\ \A e \in Semd : s_key[e] # NULL /\ e # sem => K[s_procq(e)] = L[s_procq(e)]
  <2> HIDE DEF r
  <2> QED BY <1>5, Heads, Cells
<1>9. s_key' \in [Semd -> Key \cup {NULL}]
  BY <1>6 DEF Linked, FieldTypes
<1>10. BlockedFrame(L, K)
  BY <1>1, <1>2, <1>3, <1>6, <1>7, <1>8, <1>9 DEF BlockedFrame
<1>11. Waiters(K)'
  <2>1. ASSUME NEW e \in Semd, s_key[e] # NULL
        PROVE  ToSet(K[s_procq(e)]) = {p_list(c) : c \in {q \in Pcb : p_semAdd'[q] = s_key[e]}}
    <3>1. ToSet(L[s_procq(e)]) = {p_list(c) : c \in {q \in Pcb : p_semAdd[q] = s_key[e]}}
      BY <2>1 DEF Linked, PcbLists
    <3>2. CASE e = sem
      <4>1. {q \in Pcb : p_semAdd'[q] = s_key[e]} = {q \in Pcb : p_semAdd[q] = s_key[e]} \ {p}
        BY <1>1, <2>1, <3>2
      <4>2. \A q \in Pcb : p_list(q) = p_list(p) => q = p
        BY Cells
      <4> QED BY <1>3, <3>1, <3>2, <4>1, <4>2
    <3>3. CASE e # sem
      <4>1. {q \in Pcb : p_semAdd'[q] = s_key[e]} = {q \in Pcb : p_semAdd[q] = s_key[e]}
        BY <1>1, <1>2, <2>1, <3>3
      <4> QED BY <1>8, <2>1, <3>1, <3>3, <4>1
    <3> QED BY <3>2, <3>3
  <2> QED BY <1>6, <2>1 DEF Waiters
<1>12. SemdLists(K)'
  <2>1. \A e \in Semd : s_key[e] # NULL => \E q \in Pcb : p_semAdd'[q] = s_key[e]
    <3>1. \A e \in Semd : s_key[e] # NULL => \E q \in Pcb : p_semAdd[q] = s_key[e]
      BY DEF Linked, SemdLists
    <3>2. \E q \in Pcb : p_semAdd'[q] = s_key[sem]
      <4>1. PICK c : c \in ToSet(K[s_procq(sem)])
        <5>1. K[s_procq(sem)] \in Seq(Cell)
          BY <1>3, <1>4 DEF Layout
        <5>2. 1 \in DOMAIN K[s_procq(sem)]
          BY <5>1
        <5> QED BY <5>2 DEF ToSet
      <4>2. PICK q \in Pcb : c = p_list(q) /\ p_semAdd[q] = s_key[sem]
        BY <1>1, <1>2, <1>3, <4>1, Kinds
      <4>3. q # p
        BY <1>3, <4>1, <4>2
      <4> QED BY <1>1, <4>2, <4>3
    <3> QED BY <1>1, <1>2, <3>1, <3>2
  <2>2. \A q \in Pcb : p_semAdd'[q] # NULL =>
           Allocated(q)' /\ \E e \in Semd : s_key[e] = p_semAdd'[q]
    BY <1>1 DEF Linked, SemdLists
  <2> QED BY <1>6, <1>8, <2>1, <2>2 DEF Linked, SemdLists
<1>13. Dequeued(L, K, semAdd, i)
  <2>1. WaitCells(s_key, K, s_key[sem]) = K[s_procq(sem)]
    BY <1>1, WaitCellsOf
  <2>2. WaitCells(s_key, L, s_key[sem]) = L[s_procq(sem)]
    BY <1>1, WaitCellsOf
  <2>3. ASSUME NEW s \in Key, s # semAdd
        PROVE  WaitCells(s_key, K, s) = WaitCells(s_key, L, s)
    <3>1. \A e \in Semd : s_key[e] = s => K[s_procq(e)] = L[s_procq(e)]
      BY <1>2, <1>8, <2>3, KeyAssumption
    <3> QED BY <3>1, WaitCellsSame
  <2> QED BY <1>2, <1>5, <1>6, <1>8, <2>1, <2>2, <2>3 DEF Dequeued
<1> QED BY <1>10, <1>11, <1>12, <1>13, BlockedChange

\* The layout when the descriptor goes to the free list.
Retired(L, sem, j, K) ==
    /\ j \in 1 .. Len(L[semd_h]) /\ L[semd_h][j] = s_link(sem)
    /\ s_key' = [s_key EXCEPT ![sem] = NULL]
    /\ Layout(list', Used \ {s_procq(sem)}, K) /\ Keeps(list, list')
    /\ K[semd_h] = RemoveAt(L[semd_h], j)
    /\ ToSet(K[semdFree_h]) = ToSet(L[semdFree_h]) \cup {s_link(sem)}
    /\ \A a \in Used : a \notin {semdFree_h, semd_h, s_procq(sem)} => K[a] = L[a]

\* The heap after an empty descriptor has gone back to the free list.
LEMMA RetiresLayout ==
    ASSUME NEW L, Linked(L), NEW sem \in Semd, s_key[sem] # NULL, NEW p, NEW i,
           NEW h, NEW L1, Released(L, sem, p, i, h, L1), L1[s_procq(sem)] = <<>>
    PROVE  \E j, K : Retired(L, sem, j, K)
<1> DEFINE head == s_procq(sem)
           r == RemoveAt(L[head], i)
           H == Used \ {head}
           L2 == Some(H, L1)
           h2 == list_del(h, s_link(sem))
           h3 == list_add(h2, s_link(sem), semdFree_h)
<1>1. /\ Layout(h, Used, L1) /\ Keeps(list, h) /\ L1 = [L EXCEPT ![head] = r]
      /\ Retire(h, sem)
  BY DEF Released
<1>2. /\ head \in Used /\ L \in [Used -> Seq(Cell)] /\ s_link(sem) \in Cell
      /\ semd_h \in Used /\ semdFree_h \in Used /\ semd_h # semdFree_h
      /\ head # semd_h /\ head # semdFree_h
  BY Heads, Cells DEF Linked, Layout
<1>3. list' = h3 /\ s_key' = [s_key EXCEPT ![sem] = NULL]
  <2>1. list_empty(h, head)
    <3>1. ASSUME NEW a \in Used, Layout(h, Used, L1)
          PROVE  list_empty(h, a) <=> L1[a] = <<>>
      BY <3>1, ListFacts
    <3> QED BY <1>1, <1>2, <3>1
  <2> QED BY <1>1, <2>1 DEF Retire
<1>4. \A a \in Used : a # head => L1[a] = L[a]
  BY <1>1, <1>2
<1>5. Layout(h, H, L2) /\ semd_h \in H /\ semdFree_h \in H
  BY <1>1, <1>2, OneFewer
<1>6. L2 \in [H -> Seq(Cell)] /\ \A a \in H : L2[a] = L[a]
  BY <1>4, <1>5 DEF Layout, Some
<1>7. PICK j \in 1 .. Len(L[semd_h]) : L[semd_h][j] = s_link(sem)
  BY ActiveOrder
<1> HIDE DEF L2, h2, h3
<1> DEFINE t == RemoveAt(L[semd_h], j)
           L3 == [L2 EXCEPT ![semd_h] = t]
           f == InsertAt(L3[semdFree_h], 1, s_link(sem))
           K == [L3 EXCEPT ![semdFree_h] = f]
<1>8. Takes(h, h2, H, L2, semd_h, s_link(sem), t)
  <2> HIDE DEF H
  <2>1. Takes(h, list_del(h, L2[semd_h][j]), H, L2, semd_h, L2[semd_h][j], RemoveAt(L2[semd_h], j))
    <3>1. ASSUME NEW k \in 1 .. Len(L2[semd_h])
          PROVE  Takes(h, list_del(h, L2[semd_h][k]), H, L2, semd_h, L2[semd_h][k],
                       RemoveAt(L2[semd_h], k))
      BY <1>5, DelLayout
    <3> QED BY <1>5, <1>6, <1>7, <3>1
  <2> QED BY <1>5, <1>6, <1>7, <2>1 DEF h2
<1> HIDE DEF t
<1>9. Layout(h2, H, L3) /\ t \in Seq(Cell) /\ Outside(s_link(sem), H, L3) /\ Keeps(h, h2)
  BY <1>8 DEF Takes
<1>10. /\ L3[semd_h] = t /\ L3[semdFree_h] = L[semdFree_h] /\ L3 \in [H -> Seq(Cell)]
       /\ \A a \in H : a # semd_h => L3[a] = L[a]
  BY <1>2, <1>5, <1>6, <1>9
<1> HIDE DEF L3, H
<1>11. Puts(h2, h3, H, L3, semdFree_h, s_link(sem), f)
  BY <1>2, <1>5, <1>9, AddLayout DEF h3
<1> HIDE DEF f
<1>12. Layout(h3, H, K) /\ ToSet(f) = ToSet(L[semdFree_h]) \cup {s_link(sem)} /\ Keeps(h2, h3)
  BY <1>10, <1>11 DEF Puts
<1>13. Keeps(list, h3)
  BY <1>1, <1>9, <1>12, KeepsAgain
<1>14. /\ K[semdFree_h] = f /\ K[semd_h] = t
       /\ \A a \in H : a \notin {semdFree_h, semd_h} => K[a] = L[a]
  BY <1>2, <1>5, <1>10
<1> HIDE DEF K
<1>15. PICK k : k = K
  OBVIOUS
<1>16. Retired(L, sem, j, k)
  BY <1>3, <1>7, <1>12, <1>13, <1>14, <1>15 DEF Retired, H, t
<1> QED BY <1>16

\* The last waiter is released, and the descriptor goes.
LEMMA RetiresLists ==
    ASSUME NEW L, Linked(L), NEW semAdd \in Key, NEW sem \in Semd, NEW p \in Pcb,
           NEW i \in 1 .. Len(L[s_procq(sem)]), Releases(L, semAdd, sem, p, i),
           NEW h, NEW L1, Released(L, sem, p, i, h, L1), L1[s_procq(sem)] = <<>>
    PROVE  \E K : Linked(K)' /\ Dequeued(L, K, semAdd, i)
<1>1. /\ semAdd # NULL /\ p_semAdd[p] = semAdd /\ Allocated(p)
      /\ p_semAdd' \in [Pcb -> Key \cup {NULL}]
      /\ \A q \in Pcb : p_semAdd'[q] = IF q = p THEN NULL ELSE p_semAdd[q]
      /\ \A q \in Pcb : p_list(q) \in ToSet(L[ready_queue]) => p_semAdd'[q] = NULL
      /\ \A q \in Pcb : Allocated(q)' <=> Allocated(q)
      /\ \A e \in Semd : s_key[e] = s_key[sem] => e = sem
  BY ReleasesFacts
<1>2. /\ s_key[sem] = semAdd
      /\ p_parent' = p_parent /\ p_prio' = p_prio /\ p_pid' = p_pid
  BY DEF Releases
<1>3. PICK j, K : Retired(L, sem, j, K)
  BY <1>1, <1>2, RetiresLayout
<1>4. /\ j \in 1 .. Len(L[semd_h]) /\ L[semd_h][j] = s_link(sem)
      /\ s_key' = [s_key EXCEPT ![sem] = NULL]
      /\ Layout(list', Used \ {s_procq(sem)}, K) /\ Keeps(list, list')
      /\ K[semd_h] = RemoveAt(L[semd_h], j)
      /\ ToSet(K[semdFree_h]) = ToSet(L[semdFree_h]) \cup {s_link(sem)}
      /\ \A a \in Used : a \notin {semdFree_h, semd_h, s_procq(sem)} => K[a] = L[a]
  BY <1>3 DEF Retired
<1>5. /\ s_key' \in [Semd -> Key \cup {NULL}]
      /\ \A e \in Semd : s_key'[e] = IF e = sem THEN NULL ELSE s_key[e]
  BY <1>4 DEF Linked, FieldTypes
<1>6. RemoveAt(L[s_procq(sem)], i) = <<>> /\ ToSet(L[s_procq(sem)]) = {p_list(p)}
  <2>1. /\ L1 = [L EXCEPT ![s_procq(sem)] = RemoveAt(L[s_procq(sem)], i)]
        /\ ToSet(L1[s_procq(sem)]) = ToSet(L[s_procq(sem)]) \ {p_list(p)}
    BY DEF Released
  <2>2. s_procq(sem) \in DOMAIN L
    BY <1>1, <1>2, Heads DEF Linked, Layout
  <2>3. ToSet(<<>>) = {}
    BY DEF ToSet
  <2>4. p_list(p) \in ToSet(L[s_procq(sem)])
    <3>1. ToSet(L[s_procq(sem)]) = {p_list(q) : q \in {c \in Pcb : p_semAdd[c] = s_key[sem]}}
      BY <1>1, <1>2 DEF Linked, PcbLists
    <3> QED BY <1>1, <1>2, <3>1
  <2> QED BY <2>1, <2>2, <2>3, <2>4
<1>7. \A q \in Pcb : p_semAdd[q] = semAdd => q = p
  <2>1. ToSet(L[s_procq(sem)]) = {p_list(q) : q \in {c \in Pcb : p_semAdd[c] = s_key[sem]}}
    BY <1>1, <1>2 DEF Linked, PcbLists
  <2>2. ASSUME NEW q \in Pcb, p_semAdd[q] = semAdd PROVE p_list(q) = p_list(p)
    BY <1>2, <1>6, <2>1, <2>2
  <2> QED BY <2>2, Cells
<1>8. Used' = Used \ {s_procq(sem)}
  <2>1. {s_procq(e) : e \in {c \in Semd : s_key'[c] # NULL}} =
           {s_procq(e) : e \in {c \in Semd : s_key[c] # NULL}} \ {s_procq(sem)}
    <3>1. \A e \in Semd : s_procq(e) = s_procq(sem) => e = sem
      BY Cells
    <3> QED BY <1>5, <3>1
  <2>2. /\ \A q \in Pcb : p_child(q) # s_procq(sem) /\ p_sib(q) # s_procq(sem)
        /\ {pcbFree_h, semdFree_h, semd_h, ready_queue} \cap {s_procq(sem)} = {}
    BY Cells
  <2>3. {p_child(q) : q \in {c \in Pcb : Allocated(c)}} \cap {s_procq(sem)} = {}
    BY <2>2
  <2>4. {p_sib(q) : q \in {c \in Pcb : Allocated(c) /\ p_parent[c] = NULL}}
           \cap {s_procq(sem)} = {}
    BY <2>2
  <2>5. Used' = {pcbFree_h, semdFree_h, semd_h, ready_queue}
                \cup {s_procq(e) : e \in {c \in Semd : s_key'[c] # NULL}}
                \cup {p_child(q) : q \in {c \in Pcb : Allocated(c)}}
                \cup {p_sib(q) : q \in {c \in Pcb : Allocated(c) /\ p_parent[c] = NULL}}
    BY <1>1, <1>2 DEF Used
  <2> QED BY <2>1, <2>2, <2>3, <2>4, <2>5 DEF Used
<1>9. /\ K[ready_queue] = L[ready_queue] /\ K[pcbFree_h] = L[pcbFree_h]
      /\ \A q \in Pcb : Allocated(q) => K[p_child(q)] = L[p_child(q)]
      /\ \A q \in Pcb : Allocated(q) /\ p_parent[q] = NULL => K[p_sib(q)] = L[p_sib(q)]
      /\ \A e \in Semd : s_key[e] # NULL /\ e # sem => K[s_procq(e)] = L[s_procq(e)]
  BY <1>4, Heads, Cells
<1>10. BlockedFrame(L, K)
  BY <1>1, <1>2, <1>4, <1>5, <1>8, <1>9 DEF BlockedFrame
<1>11. Waiters(K)'
  <2>1. ASSUME NEW e \in Semd, s_key'[e] # NULL
        PROVE  ToSet(K[s_procq(e)]) = {p_list(c) : c \in {q \in Pcb : p_semAdd'[q] = s_key'[e]}}
    <3>1. e # sem /\ s_key[e] # NULL /\ s_key'[e] = s_key[e] /\ s_key[e] # semAdd
      BY <1>1, <1>2, <1>5, <2>1
    <3>2. ToSet(L[s_procq(e)]) = {p_list(c) : c \in {q \in Pcb : p_semAdd[q] = s_key[e]}}
      BY <3>1 DEF Linked, PcbLists
    <3>3. {q \in Pcb : p_semAdd'[q] = s_key[e]} = {q \in Pcb : p_semAdd[q] = s_key[e]}
      BY <1>1, <3>1
    <3> QED BY <1>9, <3>1, <3>2, <3>3
  <2> QED BY <2>1 DEF Waiters
<1>12. SemdLists(K)'
  <2>1. ToSet(K[semd_h]) = {s_link(e) : e \in {c \in Semd : s_key'[c] # NULL}}
    <3>1. ToSet(K[semd_h]) = ToSet(L[semd_h]) \ {s_link(sem)}
      <4>1. L[semd_h] \in Seq(Cell) /\ IsInjective(L[semd_h])
        BY Heads DEF Linked, Layout, Chain
      <4> QED BY <1>4, <4>1, RemovedElements
    <3>2. ToSet(L[semd_h]) = {s_link(e) : e \in {c \in Semd : s_key[c] # NULL}}
      BY DEF Linked, SemdLists
    <3>3. \A e \in Semd : s_link(e) = s_link(sem) => e = sem
      BY Cells
    <3> QED BY <1>5, <3>1, <3>2, <3>3
  <2>2. ToSet(K[semdFree_h]) = {s_link(e) : e \in {c \in Semd : s_key'[c] = NULL}}
    <3>1. ToSet(L[semdFree_h]) = {s_link(e) : e \in {c \in Semd : s_key[c] = NULL}}
      BY DEF Linked, SemdLists
    <3> QED BY <1>4, <1>5, <3>1
  <2>3. \A k, l \in 1 .. Len(K[semd_h]) :
           k < l => s_key'[container_of(K[semd_h][k])] < s_key'[container_of(K[semd_h][l])]
    <3> DEFINE Q == L[semd_h]
               t == RemoveAt(Q, j)
               from(k) == IF k < j THEN k ELSE k + 1
    <3>0. j \in 1 .. Len(Q)
      BY <1>4
    <3>1. /\ Q \in Seq(Cell) /\ Len(Q) \in Nat /\ IsInjective(Q) /\ DOMAIN Q = 1 .. Len(Q)
      BY Heads DEF Linked, Layout, Chain
    <3>2. /\ Len(t) = Len(Q) - 1
          /\ \A k \in 1 .. Len(Q) - 1 : t[k] = IF k < j THEN Q[k] ELSE Q[k + 1]
      BY <3>0, <3>1, RemovedCells
    <3> HIDE DEF t
    <3>3. \A k, l \in 1 .. Len(Q) : k < l => s_key[container_of(Q[k])] < s_key[container_of(Q[l])]
      BY DEF Linked, SemdLists
    <3>4. \A k \in 1 .. Len(Q) : k # j =>
             s_key'[container_of(Q[k])] = s_key[container_of(Q[k])]
      <4>1. \A k \in 1 .. Len(Q) : Q[k] = Q[j] => k = j
        BY <1>4, <3>1 DEF IsInjective
      <4>2. \A k \in 1 .. Len(Q) : container_of(Q[k]) \in Semd /\ Q[k] = s_link(container_of(Q[k]))
        BY ActiveOrder
      <4> QED BY <1>4, <1>5, <4>1, <4>2
    <3>5. \A k \in 1 .. Len(t) : from(k) \in 1 .. Len(Q) /\ from(k) # j /\ t[k] = Q[from(k)]
      <4>1. ASSUME NEW k \in 1 .. Len(t)
            PROVE  from(k) \in 1 .. Len(Q) /\ from(k) # j /\ t[k] = Q[from(k)]
        <5>1. CASE k < j
          BY <3>0, <3>1, <3>2, <5>1
        <5>2. CASE ~(k < j)
          BY <3>0, <3>1, <3>2, <5>2
        <5> QED BY <5>1, <5>2
      <4> QED BY <4>1
    <3>6. \A k, l \in 1 .. Len(t) : k < l => from(k) < from(l)
      BY <3>0, <3>1, <3>2
    <3> HIDE DEF from
    <3>7. \A k, l \in 1 .. Len(t) :
             k < l => s_key'[container_of(t[k])] < s_key'[container_of(t[l])]
      <4>1. SUFFICES ASSUME NEW k \in 1 .. Len(t), NEW l \in 1 .. Len(t), k < l
                     PROVE  s_key'[container_of(t[k])] < s_key'[container_of(t[l])]
        OBVIOUS
      <4>2. /\ from(k) \in 1 .. Len(Q) /\ from(k) # j /\ t[k] = Q[from(k)]
            /\ from(l) \in 1 .. Len(Q) /\ from(l) # j /\ t[l] = Q[from(l)]
            /\ from(k) < from(l)
        BY <3>5, <3>6, <4>1
      <4> HIDE DEF Q
      <4> QED BY <3>3, <3>4, <4>2
    <3> QED BY <1>4, <3>7 DEF t
  <2>4. \A e, c \in Semd : s_key'[e] = s_key'[c] /\ s_key'[e] # NULL => e = c
    BY <1>5 DEF Linked, SemdLists
  <2>5. \A e \in Semd : s_key'[e] # NULL => \E q \in Pcb : p_semAdd'[q] = s_key'[e]
    <3>1. \A e \in Semd : s_key[e] # NULL => \E q \in Pcb : p_semAdd[q] = s_key[e]
      BY DEF Linked, SemdLists
    <3> QED BY <1>1, <1>2, <1>5, <3>1
  <2>6. \A q \in Pcb : p_semAdd'[q] # NULL =>
           Allocated(q)' /\ \E e \in Semd : s_key'[e] = p_semAdd'[q]
    <3>1. \A q \in Pcb : p_semAdd[q] # NULL =>
             Allocated(q) /\ \E e \in Semd : s_key[e] = p_semAdd[q]
      BY DEF Linked, SemdLists
    <3> QED BY <1>1, <1>2, <1>5, <1>7, <3>1
  <2> QED BY <2>1, <2>2, <2>3, <2>4, <2>5, <2>6 DEF SemdLists
<1>13. Dequeued(L, K, semAdd, i)
  <2>1. WaitCells(s_key', K, semAdd) = <<>>
    <3>1. \A e \in Semd : s_key'[e] # semAdd
      BY <1>1, <1>2, <1>5
    <3> QED BY <3>1, WaitCellsNone
  <2>2. WaitCells(s_key, L, s_key[sem]) = L[s_procq(sem)]
    BY <1>1, WaitCellsOf
  <2>3. ASSUME NEW s \in Key, s # semAdd
        PROVE  WaitCells(s_key', K, s) = WaitCells(s_key, L, s)
    <3>1. s # NULL
      BY KeyAssumption
    <3>2. /\ \A e \in Semd : s_key'[e] = s <=> s_key[e] = s
          /\ \A e \in Semd : s_key[e] = s => K[s_procq(e)] = L[s_procq(e)]
      BY <1>2, <1>5, <1>9, <2>3, <3>1
    <3> QED BY <3>2, WaitCellsSame
  <2> QED BY <1>2, <1>6, <1>9, <2>1, <2>2, <2>3 DEF Dequeued
<1>14. Linked(K)'
  BY <1>10, <1>11, <1>12, BlockedChange
<1> QED BY <1>13, <1>14

\* In both cases the queue has lost the place i and nothing else has changed.
LEMMA ReleasesLists ==
    ASSUME NEW L, Linked(L), NEW semAdd \in Key, NEW sem \in Semd, NEW p \in Pcb,
           NEW i \in 1 .. Len(L[s_procq(sem)]), Releases(L, semAdd, sem, p, i)
    PROVE  \E K : Linked(K)' /\ Dequeued(L, K, semAdd, i)
<1>1. PICK h, L1 : Released(L, sem, p, i, h, L1)
  BY ReleasesFacts
<1>2. CASE L1[s_procq(sem)] = <<>>
  BY <1>1, <1>2, RetiresLists
<1>3. CASE L1[s_procq(sem)] # <<>>
  BY <1>1, <1>3, StaysLists
<1> QED BY <1>2, <1>3

\* removeBlocked: the first process of the queue leaves it.
LEMMA removeBlockedLists ==
    ASSUME NEW L, Linked(L), NEW semAdd \in Key, removeBlocked(semAdd)
    PROVE  /\ p_parent' = p_parent /\ p_prio' = p_prio /\ p_pid' = p_pid
           /\ 1 \in 1 .. Len(WaitCells(s_key, L, semAdd))
           /\ \E K : Linked(K)' /\ Dequeued(L, K, semAdd, 1)
<1>1. PICK sem \in Active(semAdd) :
         /\ Retire(INIT_LIST_HEAD(list_del(list, p_list(headBlocked(semAdd))),
                                  p_list(headBlocked(semAdd))), sem)
         /\ p_semAdd' = [p_semAdd EXCEPT ![headBlocked(semAdd)] = NULL]
  BY DEF removeBlocked
<1>2. /\ headBlocked(semAdd) # NULL
      /\ p_parent' = p_parent /\ p_prio' = p_prio /\ p_pid' = p_pid
  BY DEF removeBlocked
<1>3. semAdd # NULL
  BY KeyAssumption
<1>4. /\ Active(semAdd) = {d \in Semd : s_key[d] = semAdd}
      /\ sem \in Semd /\ s_key[sem] = semAdd
  BY <1>1, ActiveIs
<1>5. \A e \in Semd : s_key[e] = semAdd => e = sem
  BY <1>3, <1>4 DEF Linked, SemdLists
<1>6. /\ ~list_empty(list, s_procq(sem))
      /\ headBlocked(semAdd) = container_of(list[s_procq(sem)].next)
  <2>1. \E e \in Active(semAdd) : ~list_empty(list, s_procq(e))
    BY <1>2 DEF headBlocked
  <2>2. (CHOOSE e \in Active(semAdd) : TRUE) = sem
    BY <1>1, <1>4, <1>5
  <2>3. headBlocked(semAdd) = container_of(list[s_procq(CHOOSE e \in Active(semAdd) : TRUE)].next)
    BY <2>1 DEF headBlocked
  <2> QED BY <1>4, <1>5, <2>1, <2>2, <2>3
<1>7. s_procq(sem) \in Used
  BY <1>3, <1>4, Heads
<1>8. /\ 1 \in 1 .. Len(L[s_procq(sem)]) /\ list[s_procq(sem)].next = L[s_procq(sem)][1]
      /\ L[s_procq(sem)][1] \in ToSet(L[s_procq(sem)])
  BY <1>6, <1>7, Reading
<1>9. PICK p \in Pcb : L[s_procq(sem)][1] = p_list(p)
  BY <1>3, <1>4, <1>8, Kinds
<1>10. headBlocked(semAdd) = p
  BY <1>6, <1>8, <1>9, Cells
<1>11. Releases(L, semAdd, sem, p, 1)
  BY <1>1, <1>2, <1>4, <1>9, <1>10 DEF Releases
<1>12. \E K : Linked(K)' /\ Dequeued(L, K, semAdd, 1)
  BY <1>4, <1>8, <1>11, ReleasesLists
<1>13. WaitCells(s_key, L, s_key[sem]) = L[s_procq(sem)]
  BY <1>4, <1>5, WaitCellsOf
<1> QED BY <1>2, <1>4, <1>8, <1>12, <1>13

\* outBlocked: the process leaves the queue it is in.
LEMMA outBlockedLists ==
    ASSUME NEW L, Linked(L), NEW p \in Pcb, outBlocked(p)
    PROVE  /\ p_parent' = p_parent /\ p_prio' = p_prio /\ p_pid' = p_pid
           /\ p_semAdd[p] \in Key
           /\ \E i \in 1 .. Len(WaitCells(s_key, L, p_semAdd[p])) :
                 /\ WaitCells(s_key, L, p_semAdd[p])[i] = p_list(p)
                 /\ \E K : Linked(K)' /\ Dequeued(L, K, p_semAdd[p], i)
<1>1. /\ p_semAdd[p] # NULL
      /\ p_parent' = p_parent /\ p_prio' = p_prio /\ p_pid' = p_pid
      /\ p_semAdd' = [p_semAdd EXCEPT ![p] = NULL]
  BY DEF outBlocked
<1>2. PICK semAdd \in Key : semAdd = p_semAdd[p]
  BY <1>1 DEF Linked, FieldTypes
<1>3. PICK sem \in Active(semAdd) :
         Retire(INIT_LIST_HEAD(list_del(list, p_list(p)), p_list(p)), sem)
  BY <1>2 DEF outBlocked
<1>4. semAdd # NULL /\ sem \in Semd /\ s_key[sem] = semAdd
  BY <1>3, ActiveIs, KeyAssumption
<1>5. \A e \in Semd : s_key[e] = semAdd => e = sem
  BY <1>4 DEF Linked, SemdLists
<1>6. s_procq(sem) \in Used
  BY <1>4, Heads
<1>7. PICK i \in 1 .. Len(L[s_procq(sem)]) : L[s_procq(sem)][i] = p_list(p)
  <2>1. ASSUME NEW a \in Used, NEW c \in ToSet(L[a])
        PROVE  \E k \in 1 .. Len(L[a]) : L[a][k] = c
    BY Places DEF Linked, Layout, Chain
  <2>2. p_list(p) \in ToSet(L[s_procq(sem)])
    <3>1. ToSet(L[s_procq(sem)]) = {p_list(q) : q \in {c \in Pcb : p_semAdd[c] = s_key[sem]}}
      BY <1>4 DEF Linked, PcbLists
    <3> QED BY <1>2, <1>4, <3>1
  <2> QED BY <1>6, <2>1, <2>2
<1>8. Releases(L, semAdd, sem, p, i)
  BY <1>1, <1>3, <1>4, <1>7 DEF Releases
<1>9. \E K : Linked(K)' /\ Dequeued(L, K, semAdd, i)
  BY <1>4, <1>8, ReleasesLists
<1>10. WaitCells(s_key, L, s_key[sem]) = L[s_procq(sem)]
  BY <1>4, <1>5, WaitCellsOf
<1> QED BY <1>1, <1>2, <1>4, <1>7, <1>9, <1>10

-----------------------------------------------------------------------------
(* Initialization *)

\* list_add n times: the list has the n cells.
Filled(h, H, L, head, field, n, K) ==
    /\ Layout(h, H \cup {head}, K)
    /\ ToSet(K[head]) = {field[i] : i \in 1 .. n}
    /\ \A a \in H : K[a] = L[a]

\* The recursive function behind FillList exists.
LEMMA FillRecursion ==
    ASSUME NEW h \in Heap(Cell, Fields), NEW head \in Cell, NEW field \in [1 .. MAXPROC -> Cell],
           \A i \in 1 .. MAXPROC : field[i] # head
    PROVE  \E f : /\ FillList(h, head, field) = f[MAXPROC]
                  /\ f[0] = INIT_LIST_HEAD(h, head)
                  /\ \A i \in 1 .. MAXPROC : f[i] = list_add(f[i - 1], field[i], head)
<1> DEFINE n == MAXPROC
           A == {x \in Heap(Cell, Fields) : x[head].next \in Cell}
           first == INIT_LIST_HEAD(h, head)
           step == [k \in 1 .. n |-> [x \in A |-> list_add(x, field[k], head)]]
           Body(f) == [i \in 0 .. n |-> IF i = 0 THEN first ELSE list_add(f[i - 1], field[i], head)]
<1>1. n \in Nat
  BY MaxprocAssumption
<1>2. first \in A
  BY InitFields DEF Fields
<1>3. ASSUME NEW k \in 1 .. n, NEW x \in A PROVE list_add(x, field[k], head) \in A
  <2>1. /\ x \in Heap(Cell, Fields) /\ x[head].next \in Cell /\ field[k] \in Cell
        /\ field[k] # head
    OBVIOUS
  <2>2. CASE x[head].next # field[k]
    <3>1. ASSUME NEW next \in Cell, next # field[k]
          PROVE  /\ link(x, field[k], head, next) \in Heap(Cell, Fields)
                 /\ link(x, field[k], head, next)[head].next = field[k]
      <4>1. Cell \subseteq Fields
        BY DEF Fields
      <4> QED BY <2>1, <3>1, <4>1, LinkFields
    <3> QED BY <2>1, <2>2, <3>1 DEF list_add
  <2>3. CASE x[head].next = field[k]
    <3>1. list_add(x, field[k], head) = link(x, field[k], head, field[k])
      BY <2>3 DEF list_add
    <3>2. /\ link(x, field[k], head, field[k]) \in Heap(Cell, Fields)
          /\ link(x, field[k], head, field[k])[head].next = field[k]
      BY <2>1 DEF link, Heap, Fields
    <3> QED BY <2>1, <3>1, <3>2
  <2> QED BY <2>2, <2>3
<1>4. \A k \in 1 .. n : \A x \in A : step[k][x] \in A
  <2>1. \A k \in 1 .. n : \A x \in A : step[k][x] = list_add(x, field[k], head)
    OBVIOUS
  <2> QED BY <1>3, <2>1
<1>5. PICK g : QT!IsRecursion(g, n, A, first, step)
  <2> HIDE DEF n, step, A, first
  <2> QED BY <1>1, <1>2, <1>4, QT!RecursionExists
<1>6. /\ g \in [0 .. n -> A]
      /\ \A k \in 0 .. n : g[k] = IF k = 0 THEN first ELSE step[k][g[k - 1]]
  BY <1>5 DEF QT!IsRecursion
<1>7. g = Body(g)
  <2>1. ASSUME NEW k \in 0 .. n
        PROVE  g[k] = IF k = 0 THEN first ELSE list_add(g[k - 1], field[k], head)
    <3>1. CASE k = 0
      BY <1>6, <3>1
    <3>2. CASE k # 0
      <4>1. k \in 1 .. n /\ k - 1 \in 0 .. n
        BY <1>1, <3>2
      <4>2. g[k - 1] \in A /\ g[k] = step[k][g[k - 1]]
        BY <1>6, <3>2, <4>1
      <4> HIDE DEF A, first
      <4>3. step[k][g[k - 1]] = list_add(g[k - 1], field[k], head)
        BY <4>1, <4>2
      <4> QED BY <3>2, <4>2, <4>3
    <3> QED BY <3>1, <3>2
  <2> HIDE DEF A, first, step
  <2> QED BY <1>6, <2>1
<1> DEFINE c == CHOOSE f : f = Body(f)
<1>8. c = Body(c)
  <2> HIDE DEF Body
  <2> QED BY <1>7
<1>9. FillList(h, head, field) = c[n]
  BY DEF FillList
<1> HIDE DEF c
<1>10. \A i \in 0 .. n : c[i] = IF i = 0 THEN first ELSE list_add(c[i - 1], field[i], head)
  <2> HIDE DEF first
  <2> QED BY <1>8
<1>11. /\ c[0] = first
       /\ \A i \in 1 .. n : c[i] = list_add(c[i - 1], field[i], head)
  <2> HIDE DEF first
  <2> QED BY <1>1, <1>10
<1> QED BY <1>9, <1>11

\* FillList makes a list of all the cells.
LEMMA FillListLayout ==
    ASSUME NEW h, NEW H, NEW L, Layout(h, H, L), NEW head \in Cell, Outside(head, H, L),
           NEW field \in [1 .. MAXPROC -> Cell],
           \A i, j \in 1 .. MAXPROC : field[i] = field[j] => i = j,
           \A i \in 1 .. MAXPROC : field[i] # head /\ Outside(field[i], H, L)
    PROVE  \E K : Filled(FillList(h, head, field), H, L, head, field, MAXPROC, K)
<1> DEFINE G == H \cup {head}
<1>1. /\ h \in Heap(Cell, Fields) /\ H \in SUBSET Cell /\ L \in [H -> Seq(Cell)]
      /\ MAXPROC \in Nat /\ head \notin H
  BY MaxprocAssumption DEF Layout, Outside, Area
<1>2. PICK f : /\ FillList(h, head, field) = f[MAXPROC]
               /\ f[0] = INIT_LIST_HEAD(h, head)
               /\ \A i \in 1 .. MAXPROC : f[i] = list_add(f[i - 1], field[i], head)
  BY <1>1, FillRecursion
<1> DEFINE Good == {n \in 0 .. MAXPROC : \E K : Filled(f[n], H, L, head, field, n, K)}
<1>3. 0 \in Good
  <2>1. /\ Layout(f[0], H, L) /\ Chain(f[0], head, <<>>)
    BY <1>2, InitLayout
  <2>2. Layout(f[0], G, OneMore(H, L, head))
    BY <2>1, OneMoreList
  <2>3. /\ OneMore(H, L, head)[head] = <<>>
        /\ \A a \in H : OneMore(H, L, head)[a] = L[a]
    BY <1>1 DEF OneMore
  <2>4. ToSet(<<>>) = {field[i] : i \in 1 .. 0}
    BY DEF ToSet
  <2>5. Filled(f[0], H, L, head, field, 0, OneMore(H, L, head))
    BY <2>2, <2>3, <2>4 DEF Filled
  <2>6. 0 \in 0 .. MAXPROC
    BY <1>1
  <2> QED BY <2>5, <2>6
<1>4. ASSUME NEW n \in 0 .. MAXPROC - 1, n \in Good PROVE n + 1 \in Good
  <2>1. PICK K : Filled(f[n], H, L, head, field, n, K)
    BY <1>4
  <2>2. /\ Layout(f[n], G, K) /\ ToSet(K[head]) = {field[i] : i \in 1 .. n}
        /\ \A a \in H : K[a] = L[a]
    BY <2>1 DEF Filled
  <2>3. n + 1 \in 1 .. MAXPROC /\ (n + 1) - 1 = n /\ n \in Nat
    BY <1>1
  <2>4. f[n + 1] = list_add(f[n], field[n + 1], head)
    BY <1>2, <2>3
  <2> DEFINE r == InsertAt(K[head], 1, field[n + 1])
             M == [K EXCEPT ![head] = r]
  <2>5. Outside(field[n + 1], G, K)
    <3>1. ASSUME NEW a \in G PROVE field[n + 1] \notin Area(a, K[a])
      <4>1. CASE a \in H
        BY <2>2, <2>3, <4>1 DEF Outside
      <4>2. CASE a = head
        <5>1. \A i \in 1 .. n : i \in 1 .. MAXPROC /\ i # n + 1
          BY <1>1, <2>3
        <5>2. field[n + 1] \notin {field[i] : i \in 1 .. n}
          BY <2>3, <5>1
        <5> QED BY <2>2, <2>3, <4>2, <5>2 DEF Area
      <4> QED BY <4>1, <4>2
    <3> QED BY <3>1 DEF Outside
  <2>6. Puts(f[n], f[n + 1], G, K, head, field[n + 1], r)
    <3>1. field[n + 1] \in Cell /\ head \in G
      BY <2>3
    <3> HIDE DEF G
    <3> QED BY <2>2, <2>4, <2>5, <3>1, AddLayout
  <2> HIDE DEF r
  <2>7. Layout(f[n + 1], G, M) /\ ToSet(r) = ToSet(K[head]) \cup {field[n + 1]}
    BY <2>6 DEF Puts
  <2>8. K \in [G -> Seq(Cell)]
    BY <2>2 DEF Layout
  <2>9. M[head] = r /\ \A a \in H : M[a] = K[a]
    BY <1>1, <2>8
  <2>10. {field[i] : i \in 1 .. n + 1} = {field[i] : i \in 1 .. n} \cup {field[n + 1]}
    <3>1. \A i : i \in 1 .. n + 1 <=> i \in 1 .. n \/ i = n + 1
      BY <2>3
    <3> QED BY <3>1
  <2> HIDE DEF M
  <2>11. Filled(f[n + 1], H, L, head, field, n + 1, M)
    BY <2>2, <2>7, <2>9, <2>10 DEF Filled
  <2>12. n + 1 \in 0 .. MAXPROC
    BY <2>3
  <2> QED BY <2>11, <2>12
<1>5. 0 .. MAXPROC \subseteq Good
  <2> HIDE DEF Good
  <2> QED BY <1>1, <1>3, <1>4, QT!Induction
<1>6. MAXPROC \in Good
  <2> HIDE DEF Good
  <2> QED BY <1>1, <1>5
<1> QED BY <1>2, <1>6

\* After initialization every PCB and every descriptor is free, and the four
\* lists of the modules are there.
LEMMA InitLists ==
    ASSUME Init
    PROVE  \E L : Linked(L) /\ L[ready_queue] = <<>>
<1> DEFINE zero == [c \in Cell |-> [next |-> NoCell, prev |-> NoCell]]
           N == [a \in {} |-> <<>>]
           fd == [d \in Semd |-> s_link(d)]
           fp == [p \in Pcb |-> p_list(p)]
           h1 == INIT_LIST_HEAD(zero, semd_h)
           h2 == FillList(h1, semdFree_h, fd)
           h3 == FillList(h2, pcbFree_h, fp)
           h4 == INIT_LIST_HEAD(h3, ready_queue)
           L1 == OneMore({}, N, semd_h)
           H1 == {} \cup {semd_h}
           H2 == H1 \cup {semdFree_h}
           H3 == H2 \cup {pcbFree_h}
           H4 == H3 \cup {ready_queue}
<1>1. /\ list = h4
      /\ p_parent = [p \in Pcb |-> NULL]
      /\ p_prio = [p \in Pcb |-> 0]
      /\ p_pid = [p \in Pcb |-> -1]
      /\ p_semAdd = [p \in Pcb |-> NULL]
      /\ s_key = [d \in Semd |-> NULL]
  BY DEF Init, mkEmptyProcQ, initPcbs, initASL
<1>2. /\ semd_h \in Cell /\ semdFree_h \in Cell /\ pcbFree_h \in Cell /\ ready_queue \in Cell
      /\ Kind(semd_h) = "semd_h" /\ Kind(semdFree_h) = "semdFree_h"
      /\ Kind(pcbFree_h) = "pcbFree_h" /\ Kind(ready_queue) = "ready_queue"
  BY Cells
<1>3. /\ fd \in [1 .. MAXPROC -> Cell] /\ fp \in [1 .. MAXPROC -> Cell]
      /\ \A i \in 1 .. MAXPROC : fd[i] = s_link(i) /\ Kind(fd[i]) = "s_link"
      /\ \A i \in 1 .. MAXPROC : fp[i] = p_list(i) /\ Kind(fp[i]) = "p_list"
      /\ \A i, j \in 1 .. MAXPROC : fd[i] = fd[j] => i = j
      /\ \A i, j \in 1 .. MAXPROC : fp[i] = fp[j] => i = j
  <2>1. Semd = 1 .. MAXPROC /\ Pcb = 1 .. MAXPROC
    BY DEF Semd, Pcb
  <2> QED BY <2>1, Cells
<1> HIDE DEF fd, fp
<1>4. Layout(zero, {}, N)
  <2>1. zero \in Heap(Cell, Fields)
    BY DEF Heap, Fields
  <2> QED BY <2>1 DEF Layout
<1> HIDE DEF zero
<1>5. Layout(h1, {}, N) /\ Chain(h1, semd_h, <<>>)
  <2>1. Outside(semd_h, {}, N)
    BY DEF Outside
  <2> QED BY <1>2, <1>4, <2>1, InitLayout
<1>6. Layout(h1, H1, L1)
  <2>1. Outside(semd_h, {}, N)
    BY DEF Outside
  <2> QED BY <1>2, <1>5, <2>1, OneMoreList
<1>7. L1[semd_h] = <<>> /\ ToSet(<<>>) = {}
  BY DEF OneMore, ToSet
<1>8. \A c : Outside(c, H1, L1) <=> c # semd_h
  BY <1>7 DEF Outside, Area
<1> HIDE DEF L1, h1, N
<1>9. PICK L2 : Filled(h2, H1, L1, semdFree_h, fd, MAXPROC, L2)
  <2>1. /\ Outside(semdFree_h, H1, L1)
        /\ \A i \in 1 .. MAXPROC : fd[i] # semdFree_h /\ Outside(fd[i], H1, L1)
    BY <1>2, <1>3, <1>8
  <2> HIDE DEF H1
  <2> QED BY <1>2, <1>3, <1>6, <2>1, FillListLayout
<1>10. /\ Layout(h2, H2, L2) /\ ToSet(L2[semdFree_h]) = {fd[i] : i \in 1 .. MAXPROC}
       /\ L2[semd_h] = <<>>
  BY <1>7, <1>9 DEF Filled
<1>11. \A c : Outside(c, H2, L2) <=>
                 c # semd_h /\ c # semdFree_h /\ \A i \in 1 .. MAXPROC : c # fd[i]
  BY <1>7, <1>10 DEF Outside, Area
<1> HIDE DEF h2
<1>12. PICK L3 : Filled(h3, H2, L2, pcbFree_h, fp, MAXPROC, L3)
  <2>1. /\ Outside(pcbFree_h, H2, L2)
        /\ \A i \in 1 .. MAXPROC : fp[i] # pcbFree_h /\ Outside(fp[i], H2, L2)
    BY <1>2, <1>3, <1>11
  <2> HIDE DEF H2
  <2> QED BY <1>2, <1>3, <1>10, <2>1, FillListLayout
<1>13. /\ Layout(h3, H3, L3) /\ ToSet(L3[pcbFree_h]) = {fp[i] : i \in 1 .. MAXPROC}
       /\ L3[semd_h] = <<>> /\ ToSet(L3[semdFree_h]) = {fd[i] : i \in 1 .. MAXPROC}
  BY <1>10, <1>12 DEF Filled
<1> HIDE DEF h3
<1>14. Outside(ready_queue, H3, L3)
  BY <1>2, <1>3, <1>7, <1>13 DEF Outside, Area
<1>15. Layout(h4, H3, L3) /\ Chain(h4, ready_queue, <<>>)
  BY <1>2, <1>13, <1>14, InitLayout
<1> DEFINE L4 == OneMore(H3, L3, ready_queue)
<1>16. Layout(h4, H4, L4)
  BY <1>2, <1>14, <1>15, OneMoreList
<1>17. /\ L4[ready_queue] = <<>> /\ L4[semd_h] = <<>>
       /\ ToSet(L4[semdFree_h]) = {fd[i] : i \in 1 .. MAXPROC}
       /\ ToSet(L4[pcbFree_h]) = {fp[i] : i \in 1 .. MAXPROC}
  <2>1. ready_queue # semd_h /\ ready_queue # semdFree_h /\ ready_queue # pcbFree_h
    BY <1>2
  <2> QED BY <1>13, <2>1 DEF OneMore
<1> HIDE DEF L4
<1>18. \A p \in Pcb : ~Allocated(p)
  BY <1>1 DEF Allocated
<1>19. Used = H4
  <2>1. /\ {s_procq(d) : d \in {e \in Semd : s_key[e] # NULL}} = {}
        /\ {p_child(p) : p \in {q \in Pcb : Allocated(q)}} = {}
        /\ {p_sib(p) : p \in {q \in Pcb : Allocated(q) /\ p_parent[q] = NULL}} = {}
    BY <1>1, <1>18
  <2> QED BY <2>1 DEF Used
<1>20. Layout(list, Used, L4)
  BY <1>1, <1>16, <1>19
<1>21. FieldTypes
  BY <1>1, <1>18, PrioAssumption DEF FieldTypes
<1>22. PcbLists(L4)
  <2>1. {fp[i] : i \in 1 .. MAXPROC} = {p_list(p) : p \in {q \in Pcb : ~Allocated(q)}}
    BY <1>3, <1>18 DEF Pcb
  <2> QED BY <1>1, <1>7, <1>17, <1>18, <2>1 DEF PcbLists
<1>23. SemdLists(L4)
  <2>1. {fd[i] : i \in 1 .. MAXPROC} = {s_link(d) : d \in {e \in Semd : s_key[e] = NULL}}
    BY <1>1, <1>3 DEF Semd
  <2>2. {s_link(d) : d \in {e \in Semd : s_key[e] # NULL}} = {}
    BY <1>1
  <2>3. 1 .. Len(<<>>) = {}
    OBVIOUS
  <2> QED BY <1>1, <1>7, <1>17, <2>1, <2>2, <2>3 DEF SemdLists
<1>24. FamilyLists(L4)
  BY <1>1, <1>18 DEF FamilyLists
<1>25. Linked(L4)
  BY <1>20, <1>21, <1>22, <1>23, <1>24 DEF Linked
<1> QED BY <1>17, <1>25

-----------------------------------------------------------------------------
(* Every step *)

\* The lists themselves are in no variable of the program: there are some.
Invariant == \E L : Linked(L)

\* A step of something else changes nothing.
LEMMA Stutter ==
    ASSUME NEW L, Linked(L), UNCHANGED vars
    PROVE  Linked(L)'
<1>1. /\ list' = list /\ p_parent' = p_parent /\ p_prio' = p_prio /\ p_pid' = p_pid
      /\ p_semAdd' = p_semAdd /\ s_key' = s_key
  BY DEF vars, pcbVars
<1>2. Used' = Used /\ \A p : Allocated(p)' <=> Allocated(p)
  BY <1>1 DEF Used, Allocated
<1>3. FieldTypes'
  BY <1>1, <1>2 DEF Linked, FieldTypes
<1>4. PcbLists(L)'
  BY <1>1, <1>2 DEF Linked, PcbLists
<1>5. SemdLists(L)'
  BY <1>1, <1>2 DEF Linked, SemdLists
<1>6. FamilyLists(L)'
  BY <1>1, <1>2 DEF Linked, FamilyLists
<1> QED BY <1>1, <1>2, <1>3, <1>4, <1>5, <1>6 DEF Linked

\* Every step keeps the invariant.
LEMMA NextLists ==
    ASSUME NEW L, Linked(L), [Next]_vars
    PROVE  \E K : Linked(K)'
<1>1. ASSUME NEW prio \in Prio, allocPcb(prio) PROVE \E K : Linked(K)'
  BY <1>1, allocPcbLists
<1>2. ASSUME removeProcQ PROVE \E K : Linked(K)'
  BY <1>2, removeProcQLists
<1>3. ASSUME NEW semAdd \in Key, removeBlocked(semAdd) PROVE \E K : Linked(K)'
  BY <1>3, removeBlockedLists
<1>4. ASSUME NEW p \in Pcb, freePcb(p) PROVE \E K : Linked(K)'
  BY <1>4, freePcbLists
<1>5. ASSUME NEW p \in Pcb, insertProcQ(p) PROVE \E K : Linked(K)'
  BY <1>5, insertProcQLists
<1>6. ASSUME NEW p \in Pcb, outProcQ(p) PROVE \E K : Linked(K)'
  BY <1>6, outProcQLists
<1>7. ASSUME NEW p \in Pcb, NEW prnt \in Pcb, insertChild(prnt, p) PROVE \E K : Linked(K)'
  BY <1>7, insertChildLists
<1>8. ASSUME NEW p \in Pcb, removeChild(p) PROVE \E K : Linked(K)'
  BY <1>8, removeChildLists
<1>9. ASSUME NEW p \in Pcb, outChild(p) PROVE \E K : Linked(K)'
  BY <1>9, outChildLists
<1>10. ASSUME NEW p \in Pcb, NEW semAdd \in Key, insertBlocked(semAdd, p)
       PROVE  \E K : Linked(K)'
  BY <1>10, insertBlockedLists
<1>11. ASSUME NEW p \in Pcb, outBlocked(p) PROVE \E K : Linked(K)'
  BY <1>11, outBlockedLists
<1>12. ASSUME UNCHANGED vars PROVE \E K : Linked(K)'
  BY <1>12, Stutter
<1> QED BY <1>1, <1>2, <1>3, <1>4, <1>5, <1>6, <1>7, <1>8, <1>9, <1>10, <1>11, <1>12 DEF Next

\* The fields of the cells of a PCB, and of the heads of lists in use.
THEOREM InvariantCorrect == Spec => []Invariant
<1>1. Init => Invariant
  BY InitLists DEF Invariant
<1>2. Invariant /\ [Next]_vars => Invariant'
  BY NextLists DEF Invariant
<1> QED BY <1>1, <1>2, PTL DEF Spec

-----------------------------------------------------------------------------
(* What the invariant means *)

\* The null pointer is no cell.
LEMMA NoCellNotCell == NoCell \notin Cell
<1>1. ASSUME NEW c \in Cell PROVE Kind(c) # "NULL"
  BY DEF Cell, Kind, pcbFree_h, semdFree_h, semd_h, ready_queue
<1> QED BY <1>1 DEF Kind, NoCell

\* What the types say.
LEMMA LinkedTypeOK ==
    ASSUME NEW L, Linked(L)
    PROVE  TypeOK
<1>1. list \in [Cell -> [next : Cell \cup {NoCell}, prev : Cell \cup {NoCell}]]
  BY DEF Linked, Layout, Heap, Fields
<1>2. ASSUME NEW a \in Used, NEW c \in Area(a, L[a]) PROVE Full(list, c)
  BY ListFacts DEF Linked
<1>3. \A a \in Used : a \in Area(a, L[a])
  BY DEF Area
<1>4. ASSUME NEW p \in Pcb, Allocated(p)
      PROVE  Full(list, p_list(p)) /\ Full(list, p_child(p)) /\ Full(list, p_sib(p))
  <2>1. Full(list, p_list(p))
    BY <1>4 DEF Linked, PcbLists
  <2>2. Full(list, p_child(p))
    BY <1>2, <1>3, <1>4, Heads
  <2>3. CASE p_parent[p] = NULL
    BY <1>2, <1>3, <1>4, <2>1, <2>2, <2>3, Heads
  <2>4. CASE p_parent[p] # NULL
    <3>1. p_parent[p] \in Pcb /\ Allocated(p_parent[p])
      BY <2>4 DEF Linked, FieldTypes, FamilyLists
    <3>2. p_sib(p) \in ToSet(L[p_child(p_parent[p])])
      BY <3>1 DEF Linked, FamilyLists
    <3>3. p_child(p_parent[p]) \in Used
      BY <3>1, Heads
    <3>4. p_sib(p) \in Area(p_child(p_parent[p]), L[p_child(p_parent[p])])
      BY <3>2 DEF Area
    <3> QED BY <1>2, <2>1, <2>2, <3>3, <3>4
  <2> QED BY <2>3, <2>4
<1>5. \A p \in Pcb : Allocated(p) =>
         \A c \in {p_list(p), p_child(p), p_sib(p)} : NoCell \notin {list[c].next, list[c].prev}
  BY <1>4, NoCellNotCell DEF Full
<1> QED BY <1>1, <1>5 DEF TypeOK, Linked, FieldTypes

\* The lists are the same in both directions.
LEMMA LinkedCircular ==
    ASSUME NEW L, Linked(L), NEW a \in Used
    PROVE  Circular(a) /\ Members(list, a) = L[a]
<1>1. Members(list, a) = L[a]
  BY Reading
<1>2. Rings(list, Area(a, L[a]))
  BY ListFacts DEF Linked
<1> QED BY <1>1, <1>2 DEF Circular, Area

\* p_list is in the one list that the other fields say.
LEMMA LinkedWellLinked ==
    ASSUME NEW L, Linked(L)
    PROVE  WellLinked
<1>1. /\ Circular(pcbFree_h) /\ Members(list, pcbFree_h) = L[pcbFree_h]
      /\ Circular(ready_queue) /\ Members(list, ready_queue) = L[ready_queue]
  BY Heads, LinkedCircular
<1>2. \A d \in Semd : s_key[d] # NULL =>
         Circular(s_procq(d)) /\ Members(list, s_procq(d)) = L[s_procq(d)]
  BY Heads, LinkedCircular
<1> QED BY <1>1, <1>2 DEF WellLinked, Linked, PcbLists

\* The lists of children are the inverse of p_parent.
LEMMA LinkedTreeLinks ==
    ASSUME NEW L, Linked(L)
    PROVE  TreeLinks
<1>1. \A p \in Pcb : Allocated(p) =>
         Circular(p_child(p)) /\ Members(list, p_child(p)) = L[p_child(p)]
  BY Heads, LinkedCircular
<1>2. \A p \in Pcb : Allocated(p) =>
         /\ Circular(p_child(p))
         /\ ToSet(Members(list, p_child(p))) = {p_sib(q) : q \in {c \in Pcb : p_parent[c] = p}}
  BY <1>1 DEF Linked, FamilyLists
<1>3. ASSUME NEW p \in Pcb, Allocated(p), p_parent[p] = NULL
      PROVE  list[p_sib(p)].next = p_sib(p)
  <2>1. p_sib(p) \in Used /\ L[p_sib(p)] = <<>>
    BY <1>3, Heads DEF Linked, FamilyLists
  <2>2. list_empty(list, p_sib(p))
    BY <2>1, Reading
  <2> QED BY <2>2 DEF list_empty
<1> QED BY <1>2, <1>3 DEF TreeLinks

\* The descriptors of the cells m, each once, and all those in D.
ListsDescriptors(q, m, D) ==
    /\ ToSet(q) = D
    /\ q \in [1 .. Len(m) -> D]
    /\ Len(q) = Len(m) /\ Len(m) \in Nat
    /\ \A i \in 1 .. Len(m) : q[i] = container_of(m[i])
    /\ \A i, j \in 1 .. Len(m) : q[i] = q[j] => i = j

\* The descriptors in a list, in order.
LEMMA DescriptorQueue ==
    ASSUME NEW L, Linked(L), NEW a \in Used, NEW D \in SUBSET Semd,
           ToSet(L[a]) = {s_link(d) : d \in D}
    PROVE  ListsDescriptors(Queue(a), L[a], D)
<1> DEFINE m == L[a]
           n == Len(m)
           q == [i \in 1 .. n |-> container_of(m[i])]
<1>1. Queue(a) = q
  BY Reading
<1>2. n \in Nat
  BY Reading
<1>3. \A i, j \in 1 .. n : m[i] = m[j] => i = j
  BY Reading
<1>4. /\ \A i \in 1 .. n : m[i] \in ToSet(m)
      /\ \A c \in ToSet(m) : \E i \in 1 .. n : c = m[i]
  BY Places DEF Linked, Layout, Chain
<1>5. \A i \in 1 .. n : container_of(m[i]) \in D /\ m[i] = s_link(container_of(m[i]))
  BY <1>4, Cells
<1>6. \A d \in D : \E i \in 1 .. n : container_of(m[i]) = d
  BY <1>4, Cells
<1>7. q \in [1 .. n -> D] /\ DOMAIN q = 1 .. n
  BY <1>5
<1>8. Len(q) = n
  BY <1>2, <1>7
<1>9. ToSet(q) = D
  BY <1>5, <1>6 DEF ToSet
<1>10. \A i, j \in 1 .. n : q[i] = q[j] => i = j
  BY <1>3, <1>5
<1> QED BY <1>1, <1>2, <1>7, <1>8, <1>9, <1>10 DEF ListsDescriptors

\* The descriptors are in two lists, the active ones in the order of their keys.
LEMMA LinkedDescriptors ==
    ASSUME NEW L, Linked(L)
    PROVE  Descriptors
<1> DEFINE A == {d \in Semd : s_key[d] # NULL}
           F == {d \in Semd : s_key[d] = NULL}
<1>1. /\ ToSet(L[semd_h]) = {s_link(d) : d \in A}
      /\ ToSet(L[semdFree_h]) = {s_link(d) : d \in F}
  BY DEF Linked, SemdLists
<1>2. semd_h \in Used /\ semdFree_h \in Used
  BY Heads
<1>3. A \in SUBSET Semd /\ F \in SUBSET Semd
  OBVIOUS
<1>4. ASSUME NEW a \in Used, NEW D \in SUBSET Semd, ToSet(L[a]) = {s_link(d) : d \in D}
      PROVE  ListsDescriptors(Queue(a), L[a], D)
  BY <1>4, DescriptorQueue
<1>5. /\ ListsDescriptors(Queue(semd_h), L[semd_h], A)
      /\ ListsDescriptors(Queue(semdFree_h), L[semdFree_h], F)
  <2> HIDE DEF A, F
  <2> QED BY <1>1, <1>2, <1>3, <1>4
<1>6. /\ ToSet(Queue(semd_h)) = A /\ Len(Queue(semd_h)) = Len(L[semd_h])
      /\ Len(L[semd_h]) \in Nat
      /\ \A i \in 1 .. Len(L[semd_h]) : Queue(semd_h)[i] = container_of(L[semd_h][i])
  <2> HIDE DEF A
  <2> QED BY <1>5 DEF ListsDescriptors
<1>7. ToSet(Queue(semdFree_h)) = F
  <2> HIDE DEF F
  <2> QED BY <1>5 DEF ListsDescriptors
<1>8. Circular(semd_h) /\ Circular(semdFree_h)
  BY <1>2, LinkedCircular
<1>9. \A i \in 1 .. Len(Queue(semd_h)) - 1 :
         s_key[Queue(semd_h)[i]] < s_key[Queue(semd_h)[i + 1]]
  <2>1. \A i, j \in 1 .. Len(L[semd_h]) :
           i < j => s_key[container_of(L[semd_h][i])] < s_key[container_of(L[semd_h][j])]
    BY DEF Linked, SemdLists
  <2>2. \A i \in 1 .. Len(L[semd_h]) - 1 :
           i \in 1 .. Len(L[semd_h]) /\ i + 1 \in 1 .. Len(L[semd_h]) /\ i < i + 1
    BY <1>6
  <2> QED BY <1>6, <2>1, <2>2
<1>10. ASSUME NEW d \in A PROVE ~list_empty(list, s_procq(d))
  <2>1. PICK p \in Pcb : p_semAdd[p] = s_key[d]
    BY DEF Linked, SemdLists
  <2>2. p_list(p) \in ToSet(L[s_procq(d)])
    BY <2>1 DEF Linked, PcbLists
  <2>3. L[s_procq(d)] # <<>>
    BY <2>2 DEF ToSet
  <2>4. s_procq(d) \in Used
    BY Heads
  <2> QED BY <2>3, <2>4, Reading
<1> QED BY <1>6, <1>7, <1>8, <1>9, <1>10 DEF Descriptors

\* Each active descriptor has a waiter, and no two of them the same: there are no
\* more active descriptors than blocked processes.
LEMMA LinkedDescriptorLeft ==
    ASSUME NEW L, Linked(L)
    PROVE  DescriptorLeft
<1> DEFINE A == {d \in Semd : s_key[d] # NULL}
           F == {d \in Semd : s_key[d] = NULL}
           B == {p \in Pcb : p_semAdd[p] # NULL}
           U == {p \in Pcb : p_semAdd[p] = NULL}
           f == [d \in A |-> CHOOSE p \in B : p_semAdd[p] = s_key[d]]
<1>1. IsFiniteSet(1 .. MAXPROC) /\ Pcb = 1 .. MAXPROC /\ Semd = 1 .. MAXPROC
  BY MaxprocAssumption, FS_Interval DEF Pcb, Semd
<1>2. /\ IsFiniteSet(A) /\ IsFiniteSet(F) /\ IsFiniteSet(B) /\ IsFiniteSet(U)
      /\ Cardinality(A) \in Nat /\ Cardinality(F) \in Nat
      /\ Cardinality(B) \in Nat /\ Cardinality(U) \in Nat
      /\ Cardinality(1 .. MAXPROC) \in Nat
  BY <1>1, FS_Subset, FS_CardinalityType
<1>3. Cardinality(F) = Cardinality(1 .. MAXPROC) - Cardinality(A)
  <2>1. (1 .. MAXPROC) \ A = F /\ (1 .. MAXPROC) \cap A = A
    BY <1>1
  <2> HIDE DEF A, F
  <2>2. Cardinality((1 .. MAXPROC) \ A) =
           Cardinality(1 .. MAXPROC) - Cardinality((1 .. MAXPROC) \cap A)
    BY <1>1, <1>2, FS_Difference
  <2> QED BY <2>1, <2>2
<1>4. Cardinality(U) = Cardinality(1 .. MAXPROC) - Cardinality(B)
  <2>1. (1 .. MAXPROC) \ B = U /\ (1 .. MAXPROC) \cap B = B
    BY <1>1
  <2> HIDE DEF B, U
  <2>2. Cardinality((1 .. MAXPROC) \ B) =
           Cardinality(1 .. MAXPROC) - Cardinality((1 .. MAXPROC) \cap B)
    BY <1>1, <1>2, FS_Difference
  <2> QED BY <2>1, <2>2
<1>5. Cardinality(A) <= Cardinality(B)
  <2>1. ASSUME NEW d \in A PROVE f[d] \in B /\ p_semAdd[f[d]] = s_key[d]
    <3>1. \E p \in B : p_semAdd[p] = s_key[d]
      BY DEF Linked, SemdLists
    <3> QED BY <3>1
  <2>2. f \in [A -> B]
    BY <2>1
  <2>3. \A d, e \in A : f[d] = f[e] => d = e
    <3>1. \A d, e \in Semd : s_key[d] = s_key[e] /\ s_key[d] # NULL => d = e
      BY DEF Linked, SemdLists
    <3> HIDE DEF f
    <3> QED BY <2>1, <3>1
  <2> HIDE DEF f
  <2>4. f \in Injection(A, B)
    BY <2>2, <2>3 DEF Injection, IsInjective
  <2> HIDE DEF A, B
  <2> QED BY <1>2, <2>4, FS_Injection
<1>6. Len(Queue(semdFree_h)) = Cardinality(F)
  <2> DEFINE q == Queue(semdFree_h)
             n == Len(L[semdFree_h])
  <2>1. /\ ToSet(q) = F /\ q \in [1 .. n -> F] /\ Len(q) = n /\ n \in Nat
        /\ \A i, j \in 1 .. n : q[i] = q[j] => i = j
    <3>1. semdFree_h \in Used /\ ToSet(L[semdFree_h]) = {s_link(d) : d \in F}
      BY Heads DEF Linked, SemdLists
    <3> HIDE DEF F
    <3>2. F \in SUBSET Semd
      BY DEF F
    <3>3. ASSUME NEW a \in Used, NEW D \in SUBSET Semd, ToSet(L[a]) = {s_link(d) : d \in D}
          PROVE  ListsDescriptors(Queue(a), L[a], D)
      BY <3>3, DescriptorQueue
    <3>4. ListsDescriptors(Queue(semdFree_h), L[semdFree_h], F)
      BY <3>1, <3>2, <3>3
    <3> QED BY <3>4 DEF ListsDescriptors
  <2> HIDE DEF q, n, F
  <2>2. q \in Injection(1 .. n, F)
    BY <2>1 DEF Injection, IsInjective
  <2>3. q \in Surjection(1 .. n, F)
    BY <2>1 DEF Surjection, ToSet
  <2>4. IsFiniteSet(1 .. n) /\ Cardinality(1 .. n) = n
    BY <2>1, FS_Interval
  <2>5. Cardinality(F) = Cardinality(1 .. n)
    BY <2>2, <2>3, <2>4, FS_Surjection
  <2> QED BY <2>1, <2>4, <2>5 DEF q
<1>7. Cardinality(U) <= Len(Queue(semdFree_h))
  <2> HIDE DEF A, F, B, U
  <2> QED BY <1>2, <1>3, <1>4, <1>5, <1>6
<1> QED BY <1>7 DEF DescriptorLeft

-----------------------------------------------------------------------------
(* The safety theorems *)

\* TypeOK: in every reachable state each field has its type, and no link of an
\* allocated PCB is a null pointer.
THEOREM TypeCorrect == Spec => []TypeOK
<1>1. Invariant => TypeOK
  BY LinkedTypeOK DEF Invariant
<1> QED BY <1>1, InvariantCorrect, PTL

\* WellLinked: p_list of each PCB is in the one list its other fields say, and
\* that list is circular, whatever was done to the others.
THEOREM WellLinkedCorrect == Spec => []WellLinked
<1>1. Invariant => WellLinked
  BY LinkedWellLinked DEF Invariant
<1> QED BY <1>1, InvariantCorrect, PTL

\* TreeLinks: the list of children of each process is the inverse of p_parent.
THEOREM TreeLinksCorrect == Spec => []TreeLinks
<1>1. Invariant => TreeLinks
  BY LinkedTreeLinks DEF Invariant
<1> QED BY <1>1, InvariantCorrect, PTL

\* Descriptors: the active ones are sorted by key, without duplicates, and each
\* has a waiter; the others are in the free list, without a key.
THEOREM DescriptorsCorrect == Spec => []Descriptors
<1>1. Invariant => Descriptors
  BY LinkedDescriptors DEF Invariant
<1> QED BY <1>1, InvariantCorrect, PTL

\* DescriptorLeft: insertBlocked finds a free descriptor when it needs one, for
\* MAXPROC descriptors, MAXPROC processes and any set of semaphores.
THEOREM DescriptorLeftCorrect == Spec => []DescriptorLeft
<1>1. Invariant => DescriptorLeft
  BY LinkedDescriptorLeft DEF Invariant
<1> QED BY <1>1, InvariantCorrect, PTL

-----------------------------------------------------------------------------
(* Queues of Queues.tla as insertions and removals at a place *)

\* Two sequences of the same length with the same elements.
LEMMA SameElements ==
    ASSUME NEW S, NEW q \in Seq(S), NEW r \in Seq(S), Len(q) = Len(r),
           \A k \in 1 .. Len(q) : q[k] = r[k]
    PROVE  q = r
OBVIOUS

\* The first element is taken out.
LEMMA RemovedFirst ==
    ASSUME NEW S, NEW q \in Seq(S), Len(q) > 0
    PROVE  RemoveAt(q, 1) = Tail(q)
<1> DEFINE r == RemoveAt(q, 1)
           t == Tail(q)
<1>1. PICK i \in 1 .. Len(q) : i = 1
  OBVIOUS
<1>2. /\ RemoveAt(q, i) \in Seq(S) /\ Len(RemoveAt(q, i)) = Len(q) - 1
      /\ \A k \in 1 .. Len(q) - 1 : RemoveAt(q, i)[k] = IF k < i THEN q[k] ELSE q[k + 1]
  BY RemovedElements
<1>3. /\ r \in Seq(S) /\ Len(r) = Len(q) - 1
      /\ \A k \in 1 .. Len(q) - 1 : r[k] = q[k + 1]
  <2>1. \A k \in 1 .. Len(q) - 1 : ~(k < 1)
    OBVIOUS
  <2> QED BY <1>1, <1>2, <2>1
<1>4. /\ t \in Seq(S) /\ Len(t) = Len(q) - 1
      /\ \A k \in 1 .. Len(q) - 1 : t[k] = q[k + 1]
  OBVIOUS
<1> HIDE DEF r, t
<1>5. r = t
  BY <1>3, <1>4, SameElements
<1> QED BY <1>5 DEF r, t

\* Without one element is the sequence without the place where it is.
LEMMA RemovedOne ==
    ASSUME NEW S, NEW q \in Seq(S), NEW i \in 1 .. Len(q),
           \A j \in 1 .. Len(q) : q[j] = q[i] => j = i
    PROVE  QT!Without(q, {q[i]}) = RemoveAt(q, i)
<1> DEFINE n == Len(q)
           X == {q[i]}
           r == RemoveAt(q, i)
<1>1. PICK f : /\ f = [k \in 0 .. n |->
                         IF k = 0 THEN <<>>
                         ELSE IF q[k] \in X THEN f[k - 1]
                         ELSE Append(f[k - 1], q[k])]
               /\ QT!Without(q, X) = f[n]
  BY QT!WithoutRecursion
<1>2. n \in Nat
  OBVIOUS
<1>3. /\ r \in Seq(S) /\ Len(r) = n - 1
      /\ \A k \in 1 .. n - 1 : r[k] = IF k < i THEN q[k] ELSE q[k + 1]
  BY RemovedElements
<1> DEFINE Right(k) == /\ f[k] \in Seq(S)
                       /\ Len(f[k]) = IF k < i THEN k ELSE k - 1
                       /\ \A j \in 1 .. Len(f[k]) : f[k][j] = IF j < i THEN q[j] ELSE q[j + 1]
           Good == {k \in 0 .. n : Right(k)}
<1>4. 0 \in Good
  <2>1. f[0] = <<>> /\ 0 \in 0 .. n
    BY <1>1, <1>2
  <2>2. <<>> \in Seq(S) /\ Len(<<>>) = 0 /\ 0 < i /\ 1 .. 0 = {}
    BY <1>2
  <2>3. Right(0)
    BY <2>1, <2>2
  <2> QED BY <2>1, <2>3
<1>5. ASSUME NEW k \in 0 .. n - 1, k \in Good PROVE k + 1 \in Good
  <2> DEFINE l == k + 1
  <2>1. l \in 1 .. n /\ l \in 0 .. n /\ l - 1 = k /\ l # 0
    BY <1>2
  <2>2. f[l] = IF q[l] \in X THEN f[k] ELSE Append(f[k], q[l])
    BY <1>1, <2>1
  <2>3. Right(k)
    BY <1>5
  <2>4. CASE l = i
    <3>1. f[l] = f[k]
      BY <2>2, <2>4
    <3>2. Right(l)
      BY <2>1, <2>3, <2>4, <3>1
    <3> QED BY <2>1, <3>2
  <2>5. CASE l # i
    <3>1. q[l] \notin X /\ q[l] \in S
      BY <2>1, <2>5
    <3>2. f[l] = Append(f[k], q[l])
      BY <2>2, <3>1
    <3>3. /\ f[l] \in Seq(S) /\ Len(f[l]) = Len(f[k]) + 1 /\ Len(f[k]) \in Nat
          /\ \A j \in 1 .. Len(f[k]) : f[l][j] = f[k][j]
          /\ f[l][Len(f[k]) + 1] = q[l]
      BY <2>3, <3>1, <3>2
    <3>4. Len(f[l]) = IF l < i THEN l ELSE l - 1
      BY <2>1, <2>3, <2>5, <3>3
    <3>5. ASSUME NEW j \in 1 .. Len(f[l])
          PROVE  f[l][j] = IF j < i THEN q[j] ELSE q[j + 1]
      <4>1. CASE j \in 1 .. Len(f[k])
        BY <2>3, <3>3, <4>1
      <4>2. CASE j = Len(f[k]) + 1
        <5>1. f[l][j] = q[l]
          BY <3>3, <4>2
        <5> QED BY <2>1, <2>3, <2>5, <3>3, <4>2, <5>1, SMTT(30)
      <4> QED BY <3>3, <4>1, <4>2
    <3>6. Right(l)
      BY <3>3, <3>4, <3>5
    <3> QED BY <2>1, <3>6
  <2> QED BY <2>4, <2>5
<1>6. Right(n)
  <2>1. 0 .. n \subseteq Good
    <3> HIDE DEF Good, n
    <3> QED BY <1>2, <1>4, <1>5, QT!Induction
  <2>2. n \in 0 .. n
    <3> HIDE DEF n
    <3> QED BY <1>2
  <2>3. n \in Good
    BY <2>1, <2>2
  <2> QED BY <2>3
<1> DEFINE w == f[n]
<1>7. /\ w \in Seq(S) /\ Len(w) = n - 1
      /\ \A k \in 1 .. n - 1 : w[k] = IF k < i THEN q[k] ELSE q[k + 1]
  BY <1>2, <1>6
<1> HIDE DEF w, r
<1>8. w = r
  <2>1. \A k \in 1 .. Len(w) : w[k] = r[k]
    BY <1>3, <1>7
  <2> QED BY <1>3, <1>7, <2>1, SameElements
<1> QED BY <1>1, <1>8 DEF w, r

-----------------------------------------------------------------------------
(* Phase1 implements ProcessLists: the queues of the abstract specification *)

\* What the cells of a list are embedded in.
Elements(m) == [i \in 1 .. Len(m) |-> container_of(m[i])]

\* The elements of lists of PCBs that have gained or lost one.
LEMMA ElementsOf ==
    ASSUME NEW m \in Seq(Cell), \A c \in ToSet(m) : container_of(c) \in Pcb
    PROVE  /\ Elements(m) \in Seq(Pcb) /\ Len(Elements(m)) = Len(m) /\ Len(m) \in Nat
           /\ \A i \in 1 .. Len(m) : Elements(m)[i] = container_of(m[i])
           /\ ToSet(Elements(m)) = {container_of(c) : c \in ToSet(m)}
<1>1. Len(m) \in Nat /\ DOMAIN m = 1 .. Len(m)
  OBVIOUS
<1>2. /\ \A i \in 1 .. Len(m) : m[i] \in ToSet(m)
      /\ \A c \in ToSet(m) : \E i \in 1 .. Len(m) : c = m[i]
  BY <1>1 DEF ToSet
<1> DEFINE e == Elements(m)
<1>3. /\ e \in [1 .. Len(m) -> Pcb] /\ DOMAIN e = 1 .. Len(m)
      /\ \A i \in 1 .. Len(m) : e[i] = container_of(m[i])
  BY <1>2 DEF Elements
<1>4. e \in Seq(Pcb) /\ Len(e) = Len(m)
  BY <1>1, <1>3
<1> HIDE DEF e
<1>5. ToSet(e) = {container_of(c) : c \in ToSet(m)}
  BY <1>2, <1>3 DEF ToSet
<1> QED BY <1>1, <1>3, <1>4, <1>5 DEF e

\* One PCB more in the list, ...
LEMMA ElementsInserted ==
    ASSUME NEW m \in Seq(Cell), \A c \in ToSet(m) : container_of(c) \in Pcb,
           NEW p \in Pcb, NEW i \in 1 .. Len(m) + 1
    PROVE  Elements(InsertAt(m, i, p_list(p))) = InsertAt(Elements(m), i, p)
<1> DEFINE n == Len(m)
           t == InsertAt(m, i, p_list(p))
           q == Elements(m)
           r == InsertAt(q, i, p)
           e == Elements(t)
<1>1. p_list(p) \in Cell /\ container_of(p_list(p)) = p
  BY Cells
<1>2. /\ t \in Seq(Cell) /\ Len(t) = n + 1 /\ ToSet(t) = ToSet(m) \cup {p_list(p)}
      /\ \A k \in 1 .. n + 1 :
            t[k] = IF k < i THEN m[k] ELSE IF k = i THEN p_list(p) ELSE m[k - 1]
  BY <1>1, InsertedElements
<1>3. /\ q \in Seq(Pcb) /\ Len(q) = n /\ n \in Nat
      /\ \A k \in 1 .. n : q[k] = container_of(m[k])
  BY ElementsOf
<1> HIDE DEF t, q, n
<1>4. \A c \in ToSet(t) : container_of(c) \in Pcb
  BY <1>1, <1>2
<1>5. /\ e \in Seq(Pcb) /\ Len(e) = n + 1
      /\ \A k \in 1 .. n + 1 : e[k] = container_of(t[k])
  BY <1>2, <1>4, ElementsOf
<1>6. i \in 1 .. Len(q) + 1
  BY <1>3 DEF n
<1>7. /\ r \in Seq(Pcb) /\ Len(r) = n + 1
      /\ \A k \in 1 .. n + 1 : r[k] = IF k < i THEN q[k] ELSE IF k = i THEN p ELSE q[k - 1]
  <2>1. /\ r \in Seq(Pcb) /\ Len(r) = Len(q) + 1
        /\ \A k \in 1 .. Len(q) + 1 :
              r[k] = IF k < i THEN q[k] ELSE IF k = i THEN p ELSE q[k - 1]
    <3>1. ASSUME NEW x \in Seq(Pcb), NEW j \in 1 .. Len(x) + 1
          PROVE  /\ InsertAt(x, j, p) \in Seq(Pcb) /\ Len(InsertAt(x, j, p)) = Len(x) + 1
                 /\ \A k \in 1 .. Len(x) + 1 :
                       InsertAt(x, j, p)[k] = IF k < j THEN x[k] ELSE IF k = j THEN p ELSE x[k - 1]
      BY InsertedElements
    <3> QED BY <1>3, <1>6, <3>1
  <2> HIDE DEF r
  <2> QED BY <1>3, <2>1
<1> HIDE DEF e, r
<1>8. ASSUME NEW k \in 1 .. n + 1 PROVE e[k] = r[k]
  <2>1. CASE k < i
    <3>1. k \in 1 .. n
      BY <1>3, <1>6, <2>1
    <3> QED BY <1>2, <1>3, <1>5, <1>7, <2>1, <3>1
  <2>2. CASE k = i
    <3>1. ~(k < i)
      BY <1>6, <2>2
    <3> QED BY <1>1, <1>2, <1>5, <1>7, <2>2, <3>1
  <2>3. CASE k > i
    <3>1. ~(k < i) /\ k # i /\ k - 1 \in 1 .. n
      BY <1>3, <1>6, <2>3
    <3> QED BY <1>2, <1>3, <1>5, <1>7, <3>1
  <2> QED BY <1>3, <1>6, <2>1, <2>2, <2>3
<1>9. e = r
  BY <1>5, <1>7, <1>8, SameElements
<1> QED BY <1>9 DEF e, r, q, t

\* ... and one less.
LEMMA ElementsRemoved ==
    ASSUME NEW m \in Seq(Cell), \A c \in ToSet(m) : container_of(c) \in Pcb, IsInjective(m),
           NEW i \in 1 .. Len(m)
    PROVE  Elements(RemoveAt(m, i)) = RemoveAt(Elements(m), i)
<1> DEFINE n == Len(m)
           t == RemoveAt(m, i)
           q == Elements(m)
           r == RemoveAt(q, i)
           e == Elements(t)
<1>2. /\ t \in Seq(Cell) /\ Len(t) = n - 1 /\ ToSet(t) = ToSet(m) \ {m[i]}
      /\ \A k \in 1 .. n - 1 : t[k] = IF k < i THEN m[k] ELSE m[k + 1]
  BY RemovedElements
<1>3. /\ q \in Seq(Pcb) /\ Len(q) = n /\ n \in Nat
      /\ \A k \in 1 .. n : q[k] = container_of(m[k])
  BY ElementsOf
<1> HIDE DEF t, q, n
<1>4. \A c \in ToSet(t) : container_of(c) \in Pcb
  BY <1>2
<1>5. /\ e \in Seq(Pcb) /\ Len(e) = n - 1
      /\ \A k \in 1 .. n - 1 : e[k] = container_of(t[k])
  BY <1>2, <1>4, ElementsOf
<1>6. i \in 1 .. Len(q) /\ i \in 1 .. n
  BY <1>3 DEF n
<1>7. /\ r \in Seq(Pcb) /\ Len(r) = n - 1
      /\ \A k \in 1 .. n - 1 : r[k] = IF k < i THEN q[k] ELSE q[k + 1]
  BY <1>3, <1>6, RemovedElements
<1> HIDE DEF e, r
<1>8. ASSUME NEW k \in 1 .. n - 1 PROVE e[k] = r[k]
  <2>1. k \in 1 .. n /\ k + 1 \in 1 .. n
    BY <1>3
  <2> QED BY <1>2, <1>3, <1>5, <1>7, <2>1
<1>9. e = r
  BY <1>5, <1>7, <1>8, SameElements
<1> QED BY <1>9 DEF e, r, q, t

\* Lists that hold PCBs do not share their elements.
LEMMA ElementsInjective ==
    ASSUME NEW m \in Seq(Cell), IsInjective(m),
           \A c \in ToSet(m) : \E p \in Pcb : c = p_list(p)
    PROVE  /\ \A c \in ToSet(m) : container_of(c) \in Pcb
           /\ \A i, j \in 1 .. Len(m) : Elements(m)[i] = Elements(m)[j] => i = j
           /\ \A p \in Pcb : p \in ToSet(Elements(m)) <=> p_list(p) \in ToSet(m)
<1>1. \A c \in ToSet(m) : container_of(c) \in Pcb /\ c = p_list(container_of(c))
  BY Cells
<1>2. /\ Len(m) \in Nat /\ \A i \in 1 .. Len(m) : m[i] \in ToSet(m)
      /\ \A i, j \in 1 .. Len(m) : m[i] = m[j] => i = j
  BY DEF ToSet, IsInjective
<1>3. /\ \A i \in 1 .. Len(m) : Elements(m)[i] = container_of(m[i])
      /\ ToSet(Elements(m)) = {container_of(c) : c \in ToSet(m)}
  BY <1>1, ElementsOf
<1>4. \A p \in Pcb : p \in ToSet(Elements(m)) <=> p_list(p) \in ToSet(m)
  <2> TAKE p \in Pcb
  <2>1. p_list(p) \in ToSet(m) => p \in ToSet(Elements(m))
    BY <1>3, Cells
  <2>2. p \in ToSet(Elements(m)) => p_list(p) \in ToSet(m)
    BY <1>1, <1>3
  <2> QED BY <2>1, <2>2
<1>5. \A i, j \in 1 .. Len(m) : Elements(m)[i] = Elements(m)[j] => i = j
  BY <1>1, <1>2, <1>3
<1> QED BY <1>1, <1>4, <1>5

\* What Queue makes of a list.
LEMMA QueueAt ==
    ASSUME NEW h, NEW H, NEW L, Layout(h, H, L), NEW a \in H
    PROVE  [i \in DOMAIN Members(h, a) |-> container_of(Members(h, a)[i])] = Elements(L[a])
<1>1. Members(h, a) = L[a] /\ DOMAIN L[a] = 1 .. Len(L[a])
  BY Cells, ListMembers, ListFacts
<1> QED BY <1>1 DEF Elements

\* The ready queue, and the queue of each semaphore.
LEMMA QueuesAre ==
    ASSUME NEW L, Linked(L)
    PROVE  /\ Queue(ready_queue) = Elements(L[ready_queue])
           /\ \A s \in Key : Waiting(s) = Elements(WaitCells(s_key, L, s))
<1>1. Layout(list, Used, L) /\ ready_queue \in Used
  BY Heads DEF Linked
<1>2. \A a \in Used : Queue(a) = Elements(L[a])
  BY <1>1, QueueAt DEF Queue
<1>3. ASSUME NEW s \in Key PROVE Waiting(s) = Elements(WaitCells(s_key, L, s))
  <2>1. s # NULL
    BY KeyAssumption
  <2>2. CASE \E d \in Semd : s_key[d] = s
    <3>1. PICK d : d = CHOOSE e \in Semd : s_key[e] = s
      OBVIOUS
    <3>2. d \in Semd /\ s_key[d] = s
      BY <2>2, <3>1
    <3>3. Queue(s_procq(d)) = Elements(L[s_procq(d)])
      BY <1>2, <2>1, <3>2, Heads
    <3>4. Waiting(s) = Queue(s_procq(d)) /\ WaitCells(s_key, L, s) = L[s_procq(d)]
      BY <2>2, <3>1 DEF Waiting, WaitCells
    <3> QED BY <3>3, <3>4
  <2>3. CASE ~\E d \in Semd : s_key[d] = s
    BY <2>3 DEF Waiting, WaitCells, Elements
  <2> QED BY <2>2, <2>3
<1> QED BY <1>1, <1>2, <1>3

\* The same after a step.
LEMMA QueuesBecome ==
    ASSUME NEW K, Linked(K)'
    PROVE  /\ Queue(ready_queue)' = Elements(K[ready_queue])
           /\ \A s \in Key : Waiting(s)' = Elements(WaitCells(s_key', K, s))
<1>1. Layout(list', Used', K)
  BY DEF Linked
<1>2. ready_queue \in Used' /\ \A d \in Semd : s_key'[d] # NULL => s_procq(d) \in Used'
  BY DEF Used
<1>3. \A a \in Used' : [i \in DOMAIN Members(list', a) |-> container_of(Members(list', a)[i])]
                          = Elements(K[a])
  BY <1>1, QueueAt
<1>4. Queue(ready_queue)' = Elements(K[ready_queue])
  BY <1>2, <1>3 DEF Queue
<1>5. ASSUME NEW s \in Key PROVE Waiting(s)' = Elements(WaitCells(s_key', K, s))
  <2>1. s # NULL
    BY KeyAssumption
  <2>2. CASE \E d \in Semd : s_key'[d] = s
    <3>1. PICK d : d = CHOOSE e \in Semd : s_key'[e] = s
      OBVIOUS
    <3>2. d \in Semd /\ s_key'[d] = s
      BY <2>2, <3>1
    <3>3. Queue(s_procq(d))' = Elements(K[s_procq(d)])
      BY <1>2, <1>3, <2>1, <3>2 DEF Queue
    <3>4. Waiting(s)' = Queue(s_procq(d))' /\ WaitCells(s_key', K, s) = K[s_procq(d)]
      BY <2>2, <3>1 DEF Waiting, WaitCells
    <3> QED BY <3>3, <3>4
  <2>3. CASE ~\E d \in Semd : s_key'[d] = s
    BY <2>3 DEF Waiting, WaitCells, Elements
  <2> QED BY <2>2, <2>3
<1> QED BY <1>4, <1>5

\* A list of PCBs.
PcbCells(m) ==
    /\ m \in Seq(Cell) /\ IsInjective(m)
    /\ \A c \in ToSet(m) : \E p \in Pcb : c = p_list(p)

\* The cells of those queues, and whose they are.
LEMMA QueueCells ==
    ASSUME NEW L, Linked(L)
    PROVE  /\ PcbCells(L[ready_queue])
           /\ \A p \in Pcb : p_list(p) \in ToSet(L[ready_queue]) => Allocated(p) /\ p_semAdd[p] = NULL
           /\ \A s \in Key : PcbCells(WaitCells(s_key, L, s))
           /\ \A s \in Key, p \in Pcb :
                 p_list(p) \in ToSet(WaitCells(s_key, L, s)) <=> p_semAdd[p] = s
<1>1. \A a \in Used : L[a] \in Seq(Cell) /\ IsInjective(L[a])
  BY ListFacts DEF Linked
<1>2. \A p, q \in Pcb : p_list(p) = p_list(q) => p = q
  BY Cells
<1>3. /\ PcbCells(L[ready_queue])
      /\ \A p \in Pcb : p_list(p) \in ToSet(L[ready_queue]) => Allocated(p) /\ p_semAdd[p] = NULL
  BY <1>1, <1>2, Heads DEF Linked, PcbLists, PcbCells
<1>4. ASSUME NEW s \in Key
      PROVE  /\ PcbCells(WaitCells(s_key, L, s))
             /\ \A p \in Pcb : p_list(p) \in ToSet(WaitCells(s_key, L, s)) <=> p_semAdd[p] = s
  <2>1. s # NULL
    BY KeyAssumption
  <2>2. CASE \E d \in Semd : s_key[d] = s
    <3>1. PICK d \in Semd : s_key[d] = s
      BY <2>2
    <3>2. \A e \in Semd : s_key[e] = s_key[d] => e = d
      BY <2>1, <3>1 DEF Linked, SemdLists
    <3>3. WaitCells(s_key, L, s) = L[s_procq(d)]
      BY <3>1, <3>2, WaitCellsOf
    <3>4. ToSet(L[s_procq(d)]) = {p_list(p) : p \in {q \in Pcb : p_semAdd[q] = s}}
      BY <2>1, <3>1 DEF Linked, PcbLists
    <3>5. L[s_procq(d)] \in Seq(Cell) /\ IsInjective(L[s_procq(d)])
      BY <1>1, <2>1, <3>1, Heads
    <3> QED BY <1>2, <3>3, <3>4, <3>5 DEF PcbCells
  <2>3. CASE ~\E d \in Semd : s_key[d] = s
    <3>1. WaitCells(s_key, L, s) = <<>>
      BY <2>3, WaitCellsNone
    <3>2. \A p \in Pcb : p_semAdd[p] # s
      BY <2>1, <2>3 DEF Linked, SemdLists
    <3>3. ToSet(<<>>) = {} /\ <<>> \in Seq(Cell) /\ IsInjective(<<>>)
      BY DEF ToSet, IsInjective
    <3> QED BY <3>1, <3>2, <3>3 DEF PcbCells
  <2> QED BY <2>2, <2>3
<1> QED BY <1>3, <1>4

\* The processes in those queues, and those in none.
LEMMA QueueMembers ==
    ASSUME NEW L, Linked(L)
    PROVE  /\ Queue(ready_queue) \in Seq(Pcb)
           /\ \A p \in Pcb : p \in ToSet(Queue(ready_queue)) <=> p_list(p) \in ToSet(L[ready_queue])
           /\ \A s \in Key : Waiting(s) \in Seq(Pcb)
           /\ \A s \in Key, p \in Pcb : p \in ToSet(Waiting(s)) <=> p_semAdd[p] = s
           /\ \A p \in Pcb : Held(p) => p \in Abstract!Held
<1>1. ASSUME NEW m, PcbCells(m)
      PROVE  /\ Elements(m) \in Seq(Pcb)
             /\ \A p \in Pcb : p \in ToSet(Elements(m)) <=> p_list(p) \in ToSet(m)
  <2>1. m \in Seq(Cell) /\ \A c \in ToSet(m) : container_of(c) \in Pcb
    BY <1>1, ElementsInjective DEF PcbCells
  <2>2. Elements(m) \in Seq(Pcb)
    BY <2>1, ElementsOf
  <2> QED BY <1>1, <2>2, ElementsInjective DEF PcbCells
<1>2. /\ Queue(ready_queue) \in Seq(Pcb)
      /\ \A p \in Pcb : p \in ToSet(Queue(ready_queue)) <=> p_list(p) \in ToSet(L[ready_queue])
  BY <1>1, QueuesAre, QueueCells
<1>3. \A s \in Key : /\ Waiting(s) \in Seq(Pcb)
                     /\ \A p \in Pcb : p \in ToSet(Waiting(s)) <=> p_semAdd[p] = s
  BY <1>1, QueuesAre, QueueCells
<1>4. ASSUME NEW p \in Pcb, Held(p) PROVE p \in Abstract!Held
  <2>1. Allocated(p) /\ p_semAdd[p] = NULL /\ p \notin ToSet(Queue(ready_queue))
    BY <1>4 DEF Held
  <2>2. \A s \in Key : p \notin ToSet(Waiting(s))
    BY <1>3, <2>1, KeyAssumption
  <2>3. \A s \in Key : ToSet([semAdd \in Key |-> Waiting(semAdd)][s]) = ToSet(Waiting(s))
    OBVIOUS
  <2>4. \A q, X : q \in Abstract!ToSet(X) <=> q \in ToSet(X)
    BY DEF Abstract!ToSet, ToSet
  <2> QED BY <2>1, <2>2, <2>3, <2>4 DEF Abstract!Held
<1> QED BY <1>2, <1>3, <1>4

\* A step that leaves the queues alone.
LEMMA QueuesStay ==
    ASSUME NEW L, Linked(L), NEW K, Linked(K)', SameQueues(L, K), s_key' = s_key
    PROVE  /\ Queue(ready_queue)' = Queue(ready_queue)
           /\ [s \in Key |-> Waiting(s)]' = [s \in Key |-> Waiting(s)]
<1>1. Queue(ready_queue)' = Queue(ready_queue)
  BY QueuesAre, QueuesBecome DEF SameQueues
<1>2. ASSUME NEW s \in Key PROVE Waiting(s)' = Waiting(s)
  <2>1. WaitCells(s_key', K, s) = WaitCells(s_key, L, s)
    <3>1. s # NULL
      BY KeyAssumption
    <3> QED BY <3>1, WaitCellsSame DEF SameQueues
  <2> QED BY <2>1, QueuesAre, QueuesBecome
<1> QED BY <1>1, <1>2

\* allocPcb takes a PCB from the pool and gives it its priority.
LEMMA allocPcbStep ==
    ASSUME NEW L, Linked(L), NEW prio \in Prio, allocPcb(prio)
    PROVE  Abstract!Next
<1>pick. PICK e \in Pcb : \E K :
              /\ ~Allocated(e) /\ p_prio' = [p_prio EXCEPT ![e] = prio]
              /\ p_pid' = [p_pid EXCEPT ![e] = e]
              /\ p_parent' = p_parent /\ p_semAdd' = p_semAdd /\ s_key' = s_key
              /\ Linked(K)' /\ SameQueues(L, K)
  BY allocPcbLists
<1>1. PICK K :
              /\ ~Allocated(e) /\ p_prio' = [p_prio EXCEPT ![e] = prio]
              /\ p_pid' = [p_pid EXCEPT ![e] = e]
              /\ p_parent' = p_parent /\ p_semAdd' = p_semAdd /\ s_key' = s_key
              /\ Linked(K)' /\ SameQueues(L, K)
  BY <1>pick
<1>2. UNCHANGED <<p_parent, Queue(ready_queue), [s \in Key |-> Waiting(s)]>>
  BY <1>1, QueuesStay
<1>3. {p \in Pcb : ~Allocated(p)}' = {p \in Pcb : ~Allocated(p)} \ {e}
  <2>1. p_pid \in [Pcb -> {-1} \cup Pcb] /\ e # -1
    BY MaxprocAssumption DEF Linked, FieldTypes, Pcb
  <2> QED BY <1>1, <2>1 DEF Allocated
<1>4. Abstract!Alloc(e, prio)
  BY <1>1, <1>3 DEF Abstract!Alloc
<1> QED BY <1>1, <1>2, <1>4 DEF Abstract!Next, Abstract!PoolStep

\* freePcb returns one that is in no queue and in no family.
LEMMA freePcbStep ==
    ASSUME NEW L, Linked(L), NEW p \in Pcb, freePcb(p)
    PROVE  Abstract!Next
<1>1. PICK K :
              /\ p_prio' = [p_prio EXCEPT ![p] = 0]
              /\ p_pid' = [p_pid EXCEPT ![p] = -1]
              /\ p_parent' = p_parent /\ p_semAdd' = p_semAdd /\ s_key' = s_key
              /\ \A c \in Pcb : p_parent[c] # p
              /\ Linked(K)' /\ SameQueues(L, K)
  BY freePcbLists
<1>2. Held(p) /\ p_parent[p] = NULL
  BY DEF freePcb, Alone
<1>3. UNCHANGED <<p_parent, Queue(ready_queue), [s \in Key |-> Waiting(s)]>>
  BY <1>1, QueuesStay
<1>4. {q \in Pcb : ~Allocated(q)}' = {q \in Pcb : ~Allocated(q)} \cup {p}
  <2>1. p_pid \in [Pcb -> {-1} \cup Pcb]
    BY DEF Linked, FieldTypes
  <2> QED BY <1>1, <2>1 DEF Allocated
<1>5. p \in Abstract!Held /\ Abstract!Alone(p) /\ Abstract!Free(p)
  BY <1>1, <1>2, <1>4, QueueMembers DEF Abstract!Alone, Abstract!Free
<1> QED BY <1>3, <1>5 DEF Abstract!Next, Abstract!PoolStep

\* insertChild is an adoption.
LEMMA insertChildStep ==
    ASSUME NEW L, Linked(L), NEW prnt \in Pcb, NEW p \in Pcb, insertChild(prnt, p)
    PROVE  Abstract!Next
<1>1. PICK K : Linked(K)' /\ SameQueues(L, K)
  BY insertChildLists
<1>2. /\ Allocated(p) /\ Allocated(prnt) /\ p_parent[p] = NULL
      /\ p_parent' = [p_parent EXCEPT ![p] = prnt]
      /\ p_prio' = p_prio /\ p_pid' = p_pid /\ s_key' = s_key
  BY DEF insertChild, Held, Alone
<1>3. UNCHANGED <<p_prio, {q \in Pcb : ~Allocated(q)}, Queue(ready_queue),
                  [s \in Key |-> Waiting(s)]>>
  BY <1>1, <1>2, QueuesStay DEF Allocated
<1>4. Abstract!Adopt(prnt, p)
  BY <1>2 DEF Abstract!Adopt
<1>5. /\ p \in Pcb \ {q \in Pcb : ~Allocated(q)}
      /\ prnt \in Pcb \ {q \in Pcb : ~Allocated(q)}
  BY <1>2
<1> QED BY <1>3, <1>4, <1>5 DEF Abstract!Next, Abstract!FamilyStep

\* A child without its parent.
LEMMA OrphanStep ==
    ASSUME NEW L, Linked(L), NEW q \in Pcb, p_parent[q] # NULL, p_parent' = NoParent(q),
           UNCHANGED <<p_prio, p_pid, p_semAdd, s_key>>, NEW K, Linked(K)', SameQueues(L, K)
    PROVE  Abstract!Next
<1>1. /\ Allocated(q) /\ p_parent' = [p_parent EXCEPT ![q] = NULL]
      /\ p_prio' = p_prio /\ p_pid' = p_pid /\ s_key' = s_key
  BY DEF Linked, FamilyLists, NoParent
<1>2. UNCHANGED <<p_prio, {c \in Pcb : ~Allocated(c)}, Queue(ready_queue),
                  [s \in Key |-> Waiting(s)]>>
  BY <1>1, QueuesStay DEF Allocated
<1>3. Abstract!Orphan(q)
  BY <1>1 DEF Abstract!Orphan
<1>4. q \in Pcb \ {c \in Pcb : ~Allocated(c)}
  BY <1>1
<1> QED BY <1>2, <1>3, <1>4 DEF Abstract!Next, Abstract!FamilyStep

\* removeChild orphans the first child, ...
LEMMA removeChildStep ==
    ASSUME NEW L, Linked(L), NEW p \in Pcb, removeChild(p)
    PROVE  Abstract!Next
<1>pick. PICK q \in Pcb : \E K :
         /\ p_parent[q] = p /\ p_parent' = NoParent(q)
         /\ UNCHANGED <<p_prio, p_pid, p_semAdd, s_key>>
         /\ Linked(K)' /\ SameQueues(L, K)
  BY removeChildLists
<1>1. PICK K :
         /\ p_parent[q] = p /\ p_parent' = NoParent(q)
         /\ UNCHANGED <<p_prio, p_pid, p_semAdd, s_key>>
         /\ Linked(K)' /\ SameQueues(L, K)
  BY <1>pick
<1> QED BY <1>1, NullNotPcb, OrphanStep

\* ... and outChild a child.
LEMMA outChildStep ==
    ASSUME NEW L, Linked(L), NEW p \in Pcb, outChild(p)
    PROVE  Abstract!Next
<1>1. PICK K : Linked(K)' /\ SameQueues(L, K)
  BY outChildLists
<1>2. /\ p_parent[p] # NULL /\ p_parent' = NoParent(p)
      /\ UNCHANGED <<p_prio, p_pid, p_semAdd, s_key>>
  BY DEF outChild
<1> QED BY <1>1, <1>2, OrphanStep

\* A step that changes the ready queue and nothing else.
LEMMA ReadyChanges ==
    ASSUME NEW L, Linked(L), NEW r, Linked([L EXCEPT ![ready_queue] = r])',
           UNCHANGED <<pcbVars, s_key>>
    PROVE  /\ Queue(ready_queue)' = Elements(r)
           /\ UNCHANGED <<p_prio, p_parent, {p \in Pcb : ~Allocated(p)},
                          [s \in Key |-> Waiting(s)]>>
<1>1. PICK K : K = [L EXCEPT ![ready_queue] = r]
  OBVIOUS
<1>2. L \in [Used -> Seq(Cell)] /\ ready_queue \in Used
  BY Heads DEF Linked, Layout
<1>3. K[ready_queue] = r /\ \A a \in Used : a # ready_queue => K[a] = L[a]
  BY <1>1, <1>2
<1>4. Linked(K)'
  BY <1>1
<1>5. /\ p_prio' = p_prio /\ p_parent' = p_parent /\ p_pid' = p_pid /\ s_key' = s_key
  BY DEF pcbVars
<1>6. Queue(ready_queue)' = Elements(r)
  BY <1>3, <1>4, QueuesBecome
<1>7. ASSUME NEW s \in Key PROVE Waiting(s)' = Waiting(s)
  <2>1. \A d \in Semd : s_key[d] = s => K[s_procq(d)] = L[s_procq(d)]
    <3>1. \A d \in Semd : s_procq(d) # ready_queue
      BY Cells
    <3> QED BY <1>3, <3>1, Heads, KeyAssumption
  <2>2. WaitCells(s_key', K, s) = WaitCells(s_key, L, s)
    BY <1>5, <2>1, WaitCellsSame
  <2> QED BY <1>4, <2>2, QueuesAre, QueuesBecome
<1> QED BY <1>5, <1>6, <1>7 DEF Allocated

\* The place where the loop of insertProcQ stops is the one that the priorities say.
LEMMA insertProcQStep ==
    ASSUME NEW L, Linked(L), NEW p \in Pcb, insertProcQ(p)
    PROVE  Abstract!Next
<1> DEFINE m == L[ready_queue]
           q == Queue(ready_queue)
<1>1. PICK i \in 1 .. Len(m) + 1 :
         /\ Linked([L EXCEPT ![ready_queue] = InsertAt(m, i, p_list(p))])'
         /\ \A j \in 1 .. i - 1 : ~Lower(container_of(m[j]), p)
         /\ i <= Len(m) => Lower(container_of(m[i]), p)
  BY insertProcQLists
<1>2. Held(p) /\ UNCHANGED <<pcbVars, s_key>>
  BY DEF insertProcQ
<1>3. q = Elements(m) /\ PcbCells(m)
  BY QueuesAre, QueueCells
<1>4. m \in Seq(Cell) /\ \A c \in ToSet(m) : container_of(c) \in Pcb
  BY <1>3, ElementsInjective DEF PcbCells
<1>5. /\ q \in Seq(Pcb) /\ Len(q) = Len(m) /\ Len(m) \in Nat
      /\ \A j \in 1 .. Len(m) : q[j] = container_of(m[j])
  BY <1>3, <1>4, ElementsOf
<1>6. /\ q' = Elements(InsertAt(m, i, p_list(p)))
      /\ UNCHANGED <<p_prio, p_parent, {c \in Pcb : ~Allocated(c)}, [s \in Key |-> Waiting(s)]>>
  BY <1>1, <1>2, ReadyChanges
<1>7. Elements(InsertAt(m, i, p_list(p))) = InsertAt(q, i, p)
  BY <1>3, <1>4, ElementsInserted
<1> HIDE DEF m, q
<1>8. p_prio \in [Pcb -> Int]
  BY PrioAssumption DEF Linked, FieldTypes
<1>9. QT!insertProcQ(p_prio, q, p) = QT!InsertAt(q, i, p)
  <2>1. i \in 1 .. Len(q) + 1
    BY <1>5
  <2>2. \A j \in 1 .. i - 1 : ~(p_prio[q[j]] < p_prio[p])
    BY <1>1, <1>5 DEF Lower
  <2>3. i <= Len(q) => p_prio[q[i]] < p_prio[p]
    BY <1>1, <1>5 DEF Lower
  <2> QED BY <1>5, <1>8, <2>1, <2>2, <2>3, QT!InsertedInOrder
<1>10. QT!InsertAt(q, i, p) = InsertAt(q, i, p)
  BY DEF QT!InsertAt, InsertAt
<1>11. Abstract!insertProcQ(p_prio, q, p) = QT!insertProcQ(p_prio, q, p)
  BY DEF QT!insertProcQ, Abstract!insertProcQ, QT!InsertAt, Abstract!InsertAt, QT!Ahead,
         Abstract!Ahead, QT!Cardinality, Abstract!Cardinality
<1>12. Abstract!Insert(p)
  BY <1>6, <1>7, <1>9, <1>10, <1>11 DEF Abstract!Insert, q
<1>13. p \in Abstract!Held
  BY <1>2, QueueMembers
<1> QED BY <1>6, <1>12, <1>13 DEF Abstract!Next, Abstract!ReadyStep

\* removeProcQ takes the first.
LEMMA removeProcQStep ==
    ASSUME NEW L, Linked(L), removeProcQ
    PROVE  Abstract!Next
<1> DEFINE m == L[ready_queue]
           q == Queue(ready_queue)
<1>1. Len(m) > 0 /\ Linked([L EXCEPT ![ready_queue] = RemoveAt(m, 1)])'
  BY removeProcQLists
<1>2. UNCHANGED <<pcbVars, s_key>>
  BY DEF removeProcQ
<1>3. q = Elements(m) /\ PcbCells(m)
  BY QueuesAre, QueueCells
<1>4. m \in Seq(Cell) /\ IsInjective(m) /\ \A c \in ToSet(m) : container_of(c) \in Pcb
  BY <1>3, ElementsInjective DEF PcbCells
<1>5. q \in Seq(Pcb) /\ Len(q) = Len(m) /\ Len(m) \in Nat
  BY <1>3, <1>4, ElementsOf
<1>6. /\ q' = Elements(RemoveAt(m, 1))
      /\ UNCHANGED <<p_prio, p_parent, {c \in Pcb : ~Allocated(c)}, [s \in Key |-> Waiting(s)]>>
  BY <1>1, <1>2, ReadyChanges
<1> HIDE DEF m, q
<1>7. Elements(RemoveAt(m, 1)) = RemoveAt(q, 1)
  <2>1. PICK i \in 1 .. Len(m) : i = 1
    BY <1>1, <1>5
  <2>2. Elements(RemoveAt(m, i)) = RemoveAt(Elements(m), i)
    BY <1>4, ElementsRemoved
  <2> QED BY <1>3, <2>1, <2>2
<1>8. RemoveAt(q, 1) = Tail(q)
  BY <1>1, <1>5, RemovedFirst
<1>9. q # <<>>
  BY <1>1, <1>5
<1>10. Abstract!Dequeue
  BY <1>6, <1>7, <1>8, <1>9 DEF Abstract!Dequeue, q
<1> QED BY <1>6, <1>10 DEF Abstract!Next, Abstract!ReadyStep

\* outProcQ takes its process and leaves the order of the others.
LEMMA outProcQStep ==
    ASSUME NEW L, Linked(L), NEW p \in Pcb, outProcQ(p)
    PROVE  Abstract!Next
<1> DEFINE m == L[ready_queue]
           q == Queue(ready_queue)
<1>1. PICK i \in 1 .. Len(m) :
         m[i] = p_list(p) /\ Linked([L EXCEPT ![ready_queue] = RemoveAt(m, i)])'
  BY outProcQLists
<1>2. UNCHANGED <<pcbVars, s_key>>
  BY DEF outProcQ
<1>3. q = Elements(m) /\ PcbCells(m)
  BY QueuesAre, QueueCells
<1>4. /\ m \in Seq(Cell) /\ IsInjective(m) /\ \A c \in ToSet(m) : container_of(c) \in Pcb
      /\ \A j, k \in 1 .. Len(m) : Elements(m)[j] = Elements(m)[k] => j = k
  BY <1>3, ElementsInjective DEF PcbCells
<1>5. /\ q \in Seq(Pcb) /\ Len(q) = Len(m) /\ Len(m) \in Nat
      /\ q[i] = p
  BY <1>1, <1>3, <1>4, ElementsOf, Cells
<1>6. /\ q' = Elements(RemoveAt(m, i))
      /\ UNCHANGED <<p_prio, p_parent, {c \in Pcb : ~Allocated(c)}, [s \in Key |-> Waiting(s)]>>
  BY <1>1, <1>2, ReadyChanges
<1> HIDE DEF m, q
<1>7. Elements(RemoveAt(m, i)) = RemoveAt(q, i)
  BY <1>3, <1>4, ElementsRemoved
<1>8. QT!Without(q, {q[i]}) = RemoveAt(q, i)
  BY <1>3, <1>4, <1>5, RemovedOne
<1>9. QT!Without(q, {p}) = Abstract!Without(q, {p})
  BY DEF QT!Without, Abstract!Without
<1>10. Abstract!Out(p)
  BY <1>5, <1>6, <1>7, <1>8, <1>9 DEF Abstract!Out, q
<1>11. p \in Abstract!ToSet(q)
  BY <1>5 DEF Abstract!ToSet
<1> QED BY <1>6, <1>10, <1>11 DEF Abstract!Next, Abstract!ReadyStep, q

\* A step that changes the queue of one semaphore and nothing else.
LEMMA BlockedChanges ==
    ASSUME NEW L, Linked(L), NEW K, Linked(K)', K[ready_queue] = L[ready_queue],
           p_parent' = p_parent, p_prio' = p_prio, p_pid' = p_pid, NEW semAdd \in Key,
           \A s \in Key : s # semAdd => WaitCells(s_key', K, s) = WaitCells(s_key, L, s)
    PROVE  /\ UNCHANGED <<p_prio, p_parent, {p \in Pcb : ~Allocated(p)}, Queue(ready_queue)>>
           /\ [s \in Key |-> Waiting(s)]' =
                 [[s \in Key |-> Waiting(s)] EXCEPT
                      ![semAdd] = Elements(WaitCells(s_key', K, semAdd))]
<1>1. Queue(ready_queue)' = Queue(ready_queue)
  BY QueuesAre, QueuesBecome
<1>2. \A s \in Key : /\ Waiting(s)' = Elements(WaitCells(s_key', K, s))
                     /\ Waiting(s) = Elements(WaitCells(s_key, L, s))
  BY QueuesAre, QueuesBecome
<1>3. [s \in Key |-> Waiting(s)]' =
         [[s \in Key |-> Waiting(s)] EXCEPT ![semAdd] = Elements(WaitCells(s_key', K, semAdd))]
  BY <1>2
<1> QED BY <1>1, <1>3 DEF Allocated

\* insertBlocked puts its process behind those that wait for the same semaphore, whether
\* there was a descriptor for it or not.
LEMMA insertBlockedStep ==
    ASSUME NEW L, Linked(L), NEW semAdd \in Key, NEW p \in Pcb, insertBlocked(semAdd, p)
    PROVE  Abstract!Next
<1> DEFINE w == WaitCells(s_key, L, semAdd)
           q == Waiting(semAdd)
<1>1. Blocks(semAdd, p)
  BY insertBlockedLists
<1>2. PICK K : Linked(K)' /\ Enqueued(L, K, semAdd, p)
  BY insertBlockedLists
<1>3. /\ UNCHANGED <<p_prio, p_parent, {c \in Pcb : ~Allocated(c)}, Queue(ready_queue)>>
      /\ [s \in Key |-> Waiting(s)]' =
            [[s \in Key |-> Waiting(s)] EXCEPT ![semAdd] = Elements(WaitCells(s_key', K, semAdd))]
  <2>1. p_parent' = p_parent /\ p_prio' = p_prio /\ p_pid' = p_pid
    BY <1>1 DEF Blocks
  <2>2. /\ K[ready_queue] = L[ready_queue]
        /\ \A s \in Key : s # semAdd => WaitCells(s_key', K, s) = WaitCells(s_key, L, s)
    BY <1>2 DEF Enqueued
  <2> HIDE DEF w, q
  <2> QED BY <1>2, <2>1, <2>2, BlockedChanges
<1>4. WaitCells(s_key', K, semAdd) = Append(w, p_list(p))
  BY <1>2 DEF Enqueued
<1>5. q = Elements(w) /\ PcbCells(w)
  BY QueuesAre, QueueCells
<1>6. w \in Seq(Cell) /\ \A c \in ToSet(w) : container_of(c) \in Pcb
  BY <1>5, ElementsInjective DEF PcbCells
<1>7. q \in Seq(Pcb) /\ Len(q) = Len(w) /\ Len(w) \in Nat
  BY <1>5, <1>6, ElementsOf
<1> HIDE DEF w, q
<1>8. Elements(Append(w, p_list(p))) = Append(q, p)
  <2>1. PICK i \in 1 .. Len(w) + 1 : i = Len(w) + 1
    BY <1>7
  <2>2. Elements(InsertAt(w, i, p_list(p))) = InsertAt(q, i, p)
    BY <1>5, <1>6, ElementsInserted
  <2>3. InsertAt(w, i, p_list(p)) = Append(w, p_list(p))
    BY <1>6, <2>1, Cells, InsertedAtTail
  <2>4. InsertAt(q, i, p) = Append(q, p)
    BY <1>7, <2>1, InsertedAtTail
  <2> QED BY <2>2, <2>3, <2>4
<1>9. Abstract!Block(semAdd, p)
  BY <1>3, <1>4, <1>8 DEF Abstract!Block, Abstract!Enqueue, q
<1>10. p \in Abstract!Held
  BY <1>1, QueueMembers DEF Blocks
<1> QED BY <1>3, <1>9, <1>10 DEF Abstract!Next, Abstract!BlockedStep

\* What is left of the queue of a semaphore.
LEMMA DequeuedElements ==
    ASSUME NEW L, Linked(L), NEW semAdd \in Key, NEW i \in 1 .. Len(WaitCells(s_key, L, semAdd)),
           NEW K, Linked(K)', Dequeued(L, K, semAdd, i),
           p_parent' = p_parent, p_prio' = p_prio, p_pid' = p_pid
    PROVE  /\ UNCHANGED <<p_prio, p_parent, {p \in Pcb : ~Allocated(p)}, Queue(ready_queue)>>
           /\ [s \in Key |-> Waiting(s)]' =
                 [[s \in Key |-> Waiting(s)] EXCEPT ![semAdd] = RemoveAt(Waiting(semAdd), i)]
           /\ Waiting(semAdd) \in Seq(Pcb) /\ i \in 1 .. Len(Waiting(semAdd))
           /\ Waiting(semAdd)[i] = container_of(WaitCells(s_key, L, semAdd)[i])
           /\ \A j, k \in 1 .. Len(Waiting(semAdd)) :
                 Waiting(semAdd)[j] = Waiting(semAdd)[k] => j = k
<1> DEFINE w == WaitCells(s_key, L, semAdd)
           q == Waiting(semAdd)
<1>1. /\ UNCHANGED <<p_prio, p_parent, {c \in Pcb : ~Allocated(c)}, Queue(ready_queue)>>
      /\ [s \in Key |-> Waiting(s)]' =
            [[s \in Key |-> Waiting(s)] EXCEPT ![semAdd] = Elements(WaitCells(s_key', K, semAdd))]
  BY BlockedChanges DEF Dequeued
<1>2. WaitCells(s_key', K, semAdd) = RemoveAt(w, i)
  BY DEF Dequeued
<1>3. q = Elements(w) /\ PcbCells(w)
  BY QueuesAre, QueueCells
<1>4. /\ w \in Seq(Cell) /\ IsInjective(w) /\ \A c \in ToSet(w) : container_of(c) \in Pcb
      /\ \A j, k \in 1 .. Len(w) : Elements(w)[j] = Elements(w)[k] => j = k
  BY <1>3, ElementsInjective DEF PcbCells
<1>5. /\ q \in Seq(Pcb) /\ Len(q) = Len(w) /\ Len(w) \in Nat
      /\ \A j \in 1 .. Len(w) : q[j] = container_of(w[j])
  BY <1>3, <1>4, ElementsOf
<1>6. i \in 1 .. Len(w)
  OBVIOUS
<1> HIDE DEF w, q
<1>7. Elements(RemoveAt(w, i)) = RemoveAt(q, i)
  BY <1>3, <1>4, <1>6, ElementsRemoved
<1>8. /\ q \in Seq(Pcb) /\ i \in 1 .. Len(q) /\ q[i] = container_of(w[i])
      /\ \A j, k \in 1 .. Len(q) : q[j] = q[k] => j = k
  BY <1>3, <1>4, <1>5, <1>6
<1> QED BY <1>1, <1>2, <1>7, <1>8 DEF q, w

\* removeBlocked wakes the first.
LEMMA removeBlockedStep ==
    ASSUME NEW L, Linked(L), NEW semAdd \in Key, removeBlocked(semAdd)
    PROVE  Abstract!Next
<1> DEFINE q == Waiting(semAdd)
<1>1. PICK i \in 1 .. Len(WaitCells(s_key, L, semAdd)) : i = 1
  BY removeBlockedLists
<1>2. PICK K : Linked(K)' /\ Dequeued(L, K, semAdd, i)
  BY <1>1, removeBlockedLists
<1>3. p_parent' = p_parent /\ p_prio' = p_prio /\ p_pid' = p_pid
  BY removeBlockedLists
<1>4. /\ UNCHANGED <<p_prio, p_parent, {c \in Pcb : ~Allocated(c)}, Queue(ready_queue)>>
      /\ [s \in Key |-> Waiting(s)]' =
            [[s \in Key |-> Waiting(s)] EXCEPT ![semAdd] = RemoveAt(q, i)]
      /\ q \in Seq(Pcb) /\ i \in 1 .. Len(q)
  BY <1>2, <1>3, DequeuedElements
<1> HIDE DEF q
<1>5. RemoveAt(q, i) = Tail(q) /\ q # <<>>
  BY <1>1, <1>4, RemovedFirst
<1>6. Abstract!Wake(semAdd)
  BY <1>4, <1>5 DEF Abstract!Wake, q
<1> QED BY <1>4, <1>6 DEF Abstract!Next, Abstract!BlockedStep

\* outBlocked takes its process out of the queue and leaves the order of the others.
LEMMA outBlockedStep ==
    ASSUME NEW L, Linked(L), NEW p \in Pcb, outBlocked(p)
    PROVE  Abstract!Next
<1> DEFINE semAdd == p_semAdd[p]
           w == WaitCells(s_key, L, semAdd)
           q == Waiting(semAdd)
<1>1. semAdd \in Key /\ p_parent' = p_parent /\ p_prio' = p_prio /\ p_pid' = p_pid
  BY outBlockedLists
<1>pick. PICK s : s = semAdd
  OBVIOUS
<1>place. PICK i \in 1 .. Len(WaitCells(s_key, L, s)) : \E K :
         WaitCells(s_key, L, s)[i] = p_list(p) /\ Linked(K)' /\ Dequeued(L, K, s, i)
  BY <1>pick, outBlockedLists
<1>2. PICK K : WaitCells(s_key, L, s)[i] = p_list(p) /\ Linked(K)' /\ Dequeued(L, K, s, i)
  BY <1>place
<1> DEFINE r == Waiting(s)
<1>3. /\ UNCHANGED <<p_prio, p_parent, {c \in Pcb : ~Allocated(c)}, Queue(ready_queue)>>
      /\ [t \in Key |-> Waiting(t)]' =
            [[t \in Key |-> Waiting(t)] EXCEPT ![s] = RemoveAt(r, i)]
      /\ r \in Seq(Pcb) /\ i \in 1 .. Len(r)
      /\ r[i] = container_of(WaitCells(s_key, L, s)[i])
      /\ \A j, k \in 1 .. Len(r) : r[j] = r[k] => j = k
  BY <1>1, <1>2, <1>pick, DequeuedElements
<1>4. s \in Key /\ r[i] = p
  BY <1>1, <1>2, <1>3, <1>pick, Cells
<1> HIDE DEF r
<1>5. QT!Without(r, {r[i]}) = RemoveAt(r, i)
  BY <1>3, RemovedOne
<1>6. QT!Without(r, {p}) = Abstract!Without(r, {p})
  BY DEF QT!Without, Abstract!Without
<1>7. Abstract!Unblock(s, p)
  BY <1>3, <1>4, <1>5, <1>6 DEF Abstract!Unblock, r
<1>8. p \in Abstract!ToSet([t \in Key |-> Waiting(t)][s])
  BY <1>3, <1>4 DEF Abstract!ToSet, r
<1> QED BY <1>3, <1>4, <1>7, <1>8 DEF Abstract!Next, Abstract!BlockedStep

\* The lists as initASL, initPcbs and mkEmptyProcQ leave them.
LEMMA InitRefines ==
    ASSUME Init
    PROVE  Abstract!Init
<1>1. PICK L : Linked(L) /\ L[ready_queue] = <<>>
  BY InitLists
<1>2. /\ p_parent = [p \in Pcb |-> NULL] /\ p_prio = [p \in Pcb |-> 0]
      /\ p_pid = [p \in Pcb |-> -1] /\ s_key = [d \in Semd |-> NULL]
  BY DEF Init
<1>3. {p \in Pcb : ~Allocated(p)} = Pcb
  BY <1>2 DEF Allocated
<1>4. Elements(<<>>) = <<>>
  BY DEF Elements
<1>5. Queue(ready_queue) = <<>>
  BY <1>1, <1>4, QueuesAre
<1>6. ASSUME NEW s \in Key PROVE Waiting(s) = <<>>
  BY <1>2, KeyAssumption DEF Waiting
<1> QED BY <1>2, <1>3, <1>5, <1>6 DEF Abstract!Init

\* Each call of phase1 is one step of ProcessLists.
LEMMA NextRefines ==
    ASSUME NEW L, Linked(L), [Next]_vars
    PROVE  [Abstract!Next]_Abstract!vars
<1>1. ASSUME NEW prio \in Prio, allocPcb(prio) PROVE Abstract!Next
  BY <1>1, allocPcbStep
<1>2. ASSUME removeProcQ PROVE Abstract!Next
  BY <1>2, removeProcQStep
<1>3. ASSUME NEW semAdd \in Key, removeBlocked(semAdd) PROVE Abstract!Next
  BY <1>3, removeBlockedStep
<1>4. ASSUME NEW p \in Pcb, freePcb(p) PROVE Abstract!Next
  BY <1>4, freePcbStep
<1>5. ASSUME NEW p \in Pcb, insertProcQ(p) PROVE Abstract!Next
  BY <1>5, insertProcQStep
<1>6. ASSUME NEW p \in Pcb, outProcQ(p) PROVE Abstract!Next
  BY <1>6, outProcQStep
<1>7. ASSUME NEW p \in Pcb, NEW prnt \in Pcb, insertChild(prnt, p) PROVE Abstract!Next
  BY <1>7, insertChildStep
<1>8. ASSUME NEW p \in Pcb, removeChild(p) PROVE Abstract!Next
  BY <1>8, removeChildStep
<1>9. ASSUME NEW p \in Pcb, outChild(p) PROVE Abstract!Next
  BY <1>9, outChildStep
<1>10. ASSUME NEW p \in Pcb, NEW semAdd \in Key, insertBlocked(semAdd, p) PROVE Abstract!Next
  BY <1>10, insertBlockedStep
<1>11. ASSUME NEW p \in Pcb, outBlocked(p) PROVE Abstract!Next
  BY <1>11, outBlockedStep
<1>12. ASSUME UNCHANGED vars PROVE UNCHANGED Abstract!vars
  <2>1. /\ list' = list /\ p_parent' = p_parent /\ p_prio' = p_prio /\ p_pid' = p_pid
        /\ s_key' = s_key
    BY <1>12 DEF vars, pcbVars
  <2>2. /\ Queue(ready_queue)' = Queue(ready_queue)
        /\ [s \in Key |-> Waiting(s)]' = [s \in Key |-> Waiting(s)]
        /\ {p \in Pcb : ~Allocated(p)}' = {p \in Pcb : ~Allocated(p)}
    BY <2>1 DEF Queue, Waiting, Allocated
  <2> QED BY <2>1, <2>2 DEF Abstract!vars
<1>13. Next => Abstract!Next
  BY <1>1, <1>2, <1>3, <1>4, <1>5, <1>6, <1>7, <1>8, <1>9, <1>10, <1>11 DEF Next
<1> QED BY <1>12, <1>13

\* Implements: the linked lists of pcb.c and asl.c do to the pool, to the queues
\* and to the trees what ProcessLists says, call by call, for any number of PCBs
\* and any semaphores.
THEOREM ImplementsCorrect == Spec => Implements
<1>1. Init => Abstract!Init
  BY InitRefines
<1>2. Invariant /\ [Next]_vars => [Abstract!Next]_Abstract!vars
  BY NextRefines DEF Invariant
<1> QED BY <1>1, <1>2, InvariantCorrect, PTL DEF Spec, Implements, Abstract!Spec
=============================================================================
