------------------------------- MODULE Phase1 ------------------------------
(***************************************************************************)
(* phase1/pcb.c and phase1/asl.c on the linked lists of listx.h.           *)
(*                                                                         *)
(* Every list_head in static storage is a cell: the heads of the lists of  *)
(* free PCBs, of free and of active descriptors and of the ready queue,    *)
(* p_list, p_child and p_sib of each PCB, s_link and s_procq of each       *)
(* descriptor.  Every action is one call of the interface; the guards say  *)
(* when the nucleus makes it.  Of pids it only matters here that those of  *)
(* processes differ and that a free PCB has -1: the pid of a process is    *)
(* the number of its PCB.  Nucleus has next_pid and findByPid.             *)
(***************************************************************************)
EXTENDS Lists

CONSTANTS
    MAXPROC,    \* number of PCBs, and of descriptors
    Key,        \* addresses of semaphores
    Prio        \* priorities of processes

NULL == 0

ASSUME MaxprocAssumption == MAXPROC \in Nat \ {0}
ASSUME KeyAssumption == Key \subseteq Nat \ {NULL}
ASSUME PrioAssumption == Prio \subseteq Int /\ 0 \in Prio

Pcb == 1 .. MAXPROC    \* pcbFree_table
Semd == 1 .. MAXPROC   \* semd_table

p_list(p) == <<"p_list", p>>
p_child(p) == <<"p_child", p>>
p_sib(p) == <<"p_sib", p>>
s_link(d) == <<"s_link", d>>
s_procq(d) == <<"s_procq", d>>
pcbFree_h == <<"pcbFree_h", 0>>
semdFree_h == <<"semdFree_h", 0>>
semd_h == <<"semd_h", 0>>
ready_queue == <<"ready_queue", 0>>
NoCell == <<"NULL", 0>>   \* the null pointer to a list_head

container_of(cell) == cell[2]

Cell ==
    {pcbFree_h, semdFree_h, semd_h, ready_queue}
    \cup ({"p_list", "p_child", "p_sib"} \X Pcb)
    \cup ({"s_link", "s_procq"} \X Semd)

VARIABLES
    list,        \* the heap of list_heads
    p_parent,
    p_prio,
    p_pid,
    p_semAdd,
    s_key

pcbVars == <<p_parent, p_prio, p_pid, p_semAdd>>
vars == <<list, pcbVars, s_key>>

\* The PCBs in the list with this head, in order.
Queue(head) == LET m == Members(list, head)
               IN  [i \in DOMAIN m |-> container_of(m[i])]

Allocated(p) == p_pid[p] # -1

\* In the hands of the nucleus: running, or on the way from one queue to another.
Held(p) == Allocated(p) /\ p_semAdd[p] = NULL /\ p \notin ToSet(Queue(ready_queue))

\* The nucleus has the running process in its hands and takes one more: a new
\* one, one it wakes up, one it kills or the next to run.
OneHeld == Cardinality({p \in Pcb : Held(p)}) <= 1

\* Without parent and children.
Alone(p) == p_parent[p] = NULL /\ list_empty(list, p_child(p))

-----------------------------------------------------------------------------
(* pcb.c: the free list *)

\* Mutant: p_child is left as it was.
FreshLists(h, p) == INIT_LIST_HEAD(INIT_LIST_HEAD(h, p_sib(p)), p_list(p))

\* The three INIT_LIST_HEADs of allocPcb and freePcb.
Fresh(h, p) ==
    INIT_LIST_HEAD(INIT_LIST_HEAD(INIT_LIST_HEAD(h, p_child(p)), p_sib(p)), p_list(p))

\* allocPcb, and create_process's setting of the priority.
allocPcb(prio) ==
    /\ ~list_empty(list, pcbFree_h)
    /\ OneHeld
    /\ LET elem == container_of(list[pcbFree_h].next)
       IN  /\ list' = Fresh(list_del(list, p_list(elem)), elem)
           /\ p_parent' = [p_parent EXCEPT ![elem] = NULL]
           /\ p_prio' = [p_prio EXCEPT ![elem] = prio]
           /\ p_pid' = [p_pid EXCEPT ![elem] = elem]
           /\ p_semAdd' = [p_semAdd EXCEPT ![elem] = NULL]
    /\ UNCHANGED s_key

\* subTree_killer frees a process when it is in no queue and in no family.
freePcb(p) ==
    /\ Held(p) /\ Alone(p)
    /\ list' = list_add(Fresh(list, p), p_list(p), pcbFree_h)
    /\ p_parent' = [p_parent EXCEPT ![p] = NULL]
    /\ p_prio' = [p_prio EXCEPT ![p] = 0]
    /\ p_pid' = [p_pid EXCEPT ![p] = -1]
    /\ p_semAdd' = [p_semAdd EXCEPT ![p] = NULL]
    /\ UNCHANGED s_key

-----------------------------------------------------------------------------
(* pcb.c: the ready queue *)

\* Mutant: a process goes in front of its equals.
NotHigher(q, p) == p_prio[q] <= p_prio[p]

Lower(q, p) == p_prio[q] < p_prio[p]

\* In front of the first process of a lower priority, or at the tail.
insertProcQ(p) ==
    /\ Held(p)
    /\ LET m == Members(list, ready_queue)
           lower == {i \in DOMAIN m : Lower(container_of(m[i]), p)}
           iter == m[CHOOSE i \in lower : \A j \in lower : i <= j]
       IN  list' = IF list_empty(list, ready_queue)
                   THEN list_add(list, p_list(p), ready_queue)
                   ELSE IF lower # {}
                   THEN link(list, p_list(p), list[iter].prev, iter)
                   ELSE list_add_tail(list, p_list(p), ready_queue)
    /\ UNCHANGED <<pcbVars, s_key>>

headProcQ ==
    IF list_empty(list, ready_queue)
    THEN NULL
    ELSE container_of(list[ready_queue].next)

\* The PCB that leaves keeps its next and prev.
removeProcQ ==
    /\ ~list_empty(list, ready_queue)
    /\ OneHeld
    /\ list' = unlink(list, ready_queue, list[p_list(headProcQ)].next)
    /\ UNCHANGED <<pcbVars, s_key>>

\* The first with the pid of p.  subTree_killer calls it for a process that is
\* not blocked, as outBlocked for one that is, when it has cut it out of the tree.
outProcQ(p) ==
    /\ Allocated(p) /\ p_semAdd[p] = NULL /\ Alone(p)
    /\ OneHeld
    /\ LET m == Members(list, ready_queue)
           same == {i \in DOMAIN m : p_pid[container_of(m[i])] = p_pid[p]}
           iter == m[CHOOSE i \in same : \A j \in same : i <= j]
       IN  same # {} /\ list' = list_del(list, iter)
    /\ UNCHANGED <<pcbVars, s_key>>

-----------------------------------------------------------------------------
(* pcb.c: the trees *)

emptyChild(p) == list_empty(list, p_child(p))

\* create_process gives the new process, which has no family and is in no queue
\* yet, to the process that runs.
insertChild(prnt, p) ==
    /\ Held(prnt) /\ Held(p) /\ p # prnt
    /\ Alone(p)
    /\ list' = list_add(list, p_sib(p), p_child(prnt))
    /\ p_parent' = [p_parent EXCEPT ![p] = prnt]
    /\ UNCHANGED <<p_prio, p_pid, p_semAdd, s_key>>

\* Mutant: the child goes on pointing to its parent.
KeepParent(p) == p_parent

NoParent(p) == [p_parent EXCEPT ![p] = NULL]

removeChild(p) ==
    /\ Allocated(p) /\ ~emptyChild(p)
    /\ LET first == list[p_child(p)].next
       IN  /\ list' = INIT_LIST_HEAD(list_del(list, first), first)
           /\ p_parent' = NoParent(container_of(first))
    /\ UNCHANGED <<p_prio, p_pid, p_semAdd, s_key>>

outChild(p) ==
    /\ p_parent[p] # NULL
    /\ list' = INIT_LIST_HEAD(list_del(list, p_sib(p)), p_sib(p))
    /\ p_parent' = NoParent(p)
    /\ UNCHANGED <<p_prio, p_pid, p_semAdd, s_key>>

-----------------------------------------------------------------------------
(* asl.c *)

\* The first descriptor in semd_h with the key semAdd, if any.
Active(semAdd) ==
    LET m == Queue(semd_h)
        found == {i \in DOMAIN m : s_key[m[i]] = semAdd}
    IN  IF found = {} THEN {} ELSE {m[CHOOSE i \in found : \A j \in found : i <= j]}

\* Mutant: descriptors in the order of their activation.
Never(d, semAdd) == FALSE

Beyond(d, semAdd) == s_key[d] > semAdd

\* insertBlocked is called for the process that holds the CPU.  It returns 1,
\* and changes nothing, when no descriptor is left.
insertBlocked(semAdd, p) ==
    /\ Held(p)
    /\ LET m == Queue(semd_h)
           free == ~list_empty(list, semdFree_h)
           stop == {i \in DOMAIN m : s_key[m[i]] = semAdd \/ (free /\ Beyond(m[i], semAdd))}
           sem == m[CHOOSE i \in stop : \A j \in stop : i <= j]
           new_sem == container_of(list[semdFree_h].next)
           before == IF stop = {} THEN semd_h ELSE s_link(sem)
           taken == list_del(list, s_link(new_sem))
           linked == list_add_tail(INIT_LIST_HEAD(taken, s_procq(new_sem)),
                                   s_link(new_sem), before)
       IN  IF stop # {} /\ s_key[sem] = semAdd
           THEN list' = list_add_tail(list, p_list(p), s_procq(sem)) /\ UNCHANGED s_key
           ELSE /\ free
                /\ list' = list_add_tail(linked, p_list(p), s_procq(new_sem))
                /\ s_key' = [s_key EXCEPT ![new_sem] = semAdd]
    /\ p_semAdd' = [p_semAdd EXCEPT ![p] = semAdd]
    /\ UNCHANGED <<p_parent, p_prio, p_pid>>

\* Mutant: the descriptor of the last waiter is not given back.
KeepDescriptor(h, sem) == list' = h /\ UNCHANGED s_key

\* A descriptor whose queue has become empty goes to the free list.
Retire(h, sem) ==
    IF list_empty(h, s_procq(sem))
    THEN /\ list' = list_add(list_del(h, s_link(sem)), s_link(sem), semdFree_h)
         /\ s_key' = [s_key EXCEPT ![sem] = NULL]
    ELSE list' = h /\ UNCHANGED s_key

headBlocked(semAdd) ==
    IF \E sem \in Active(semAdd) : ~list_empty(list, s_procq(sem))
    THEN container_of(list[s_procq(CHOOSE sem \in Active(semAdd) : TRUE)].next)
    ELSE NULL

removeBlocked(semAdd) ==
    /\ headBlocked(semAdd) # NULL
    /\ OneHeld
    /\ LET pcb == headBlocked(semAdd)
       IN  /\ \E sem \in Active(semAdd) :
                  Retire(INIT_LIST_HEAD(list_del(list, p_list(pcb)), p_list(pcb)), sem)
           /\ p_semAdd' = [p_semAdd EXCEPT ![pcb] = NULL]
    /\ UNCHANGED <<p_parent, p_prio, p_pid>>

outBlocked(p) ==
    /\ p_semAdd[p] # NULL /\ Alone(p)
    /\ OneHeld
    /\ \E sem \in Active(p_semAdd[p]) :
          /\ p \in ToSet(Queue(s_procq(sem)))
          /\ Retire(INIT_LIST_HEAD(list_del(list, p_list(p)), p_list(p)), sem)
    /\ p_semAdd' = [p_semAdd EXCEPT ![p] = NULL]
    /\ UNCHANGED <<p_parent, p_prio, p_pid>>

-----------------------------------------------------------------------------
\* An empty list, to which list_add adds field[1], ..., field[MAXPROC].
FillList(h, head, field) ==
    LET fill[i \in 0 .. MAXPROC] ==
            IF i = 0 THEN INIT_LIST_HEAD(h, head) ELSE list_add(fill[i - 1], field[i], head)
    IN  fill[MAXPROC]

initASL(h) == FillList(INIT_LIST_HEAD(h, semd_h), semdFree_h, [d \in Semd |-> s_link(d)])

initPcbs(h) == FillList(h, pcbFree_h, [p \in Pcb |-> p_list(p)])

mkEmptyProcQ(h) == INIT_LIST_HEAD(h, ready_queue)

\* Static storage starts with null pointers.
Init ==
    /\ LET zero == [c \in Cell |-> [next |-> NoCell, prev |-> NoCell]]
       IN  list = mkEmptyProcQ(initPcbs(initASL(zero)))
    /\ p_parent = [p \in Pcb |-> NULL]
    /\ p_prio = [p \in Pcb |-> 0]
    /\ p_pid = [p \in Pcb |-> -1]
    /\ p_semAdd = [p \in Pcb |-> NULL]
    /\ s_key = [d \in Semd |-> NULL]

Next ==
    \/ \E prio \in Prio : allocPcb(prio)
    \/ removeProcQ
    \/ \E semAdd \in Key : removeBlocked(semAdd)
    \/ \E p \in Pcb :
        \/ freePcb(p)
        \/ insertProcQ(p)
        \/ outProcQ(p)
        \/ \E prnt \in Pcb : insertChild(prnt, p)
        \/ removeChild(p)
        \/ outChild(p)
        \/ \E semAdd \in Key : insertBlocked(semAdd, p)
        \/ outBlocked(p)

Spec == Init /\ [][Next]_vars

-----------------------------------------------------------------------------
(* Correctness *)

\* Every field has its type, and none of an allocated PCB or of a list in use is
\* a null pointer.
TypeOK ==
    /\ list \in [Cell -> [next : Cell \cup {NoCell}, prev : Cell \cup {NoCell}]]
    /\ \A p \in Pcb : Allocated(p) =>
          \A c \in {p_list(p), p_child(p), p_sib(p)} : NoCell \notin {list[c].next, list[c].prev}
    /\ p_parent \in [Pcb -> Pcb \cup {NULL}]
    /\ p_prio \in [Pcb -> Prio]
    /\ p_pid \in [Pcb -> {-1} \cup Pcb]
    /\ p_semAdd \in [Pcb -> Key \cup {NULL}]
    /\ s_key \in [Semd -> Key \cup {NULL}]

\* A circular list, the same in both directions.
Circular(head) == Rings(list, {head} \cup ToSet(Members(list, head)))

\* p_list is in the one list that the other fields of the PCB say: the free list,
\* the queue of the descriptor for p_semAdd, the ready queue, or none; and no
\* list that is in use is broken by what is done to another one, in spite of the
\* next and prev that a PCB keeps when removeProcQ takes it out of the queue.
WellLinked ==
    /\ Circular(pcbFree_h) /\ Circular(ready_queue)
    /\ ToSet(Members(list, pcbFree_h)) = {p_list(p) : p \in {q \in Pcb : ~Allocated(q)}}
    /\ ToSet(Members(list, ready_queue))
          \subseteq {p_list(p) : p \in {q \in Pcb : Allocated(q) /\ p_semAdd[q] = NULL}}
    /\ \A d \in Semd : s_key[d] # NULL =>
          /\ Circular(s_procq(d))
          /\ ToSet(Members(list, s_procq(d))) =
                {p_list(p) : p \in {q \in Pcb : p_semAdd[q] = s_key[d]}}

\* The list of children of each process is the inverse of p_parent, and p_sib of
\* a process without parent is in no list.
TreeLinks ==
    /\ \A p \in Pcb : Allocated(p) =>
          /\ Circular(p_child(p))
          /\ ToSet(Members(list, p_child(p))) =
                {p_sib(q) : q \in {c \in Pcb : p_parent[c] = p}}
    /\ \A p \in Pcb : Allocated(p) /\ p_parent[p] = NULL => list[p_sib(p)].next = p_sib(p)

\* Every descriptor is either in the free list, without a key, or in the active
\* list, which is sorted by keys, without duplicates, and holds none without
\* waiters.
Descriptors ==
    LET active == Queue(semd_h)
    IN  /\ Circular(semd_h) /\ Circular(semdFree_h)
        /\ \A i \in 1 .. Len(active) - 1 : s_key[active[i]] < s_key[active[i + 1]]
        /\ \A d \in ToSet(active) : s_key[d] # NULL /\ ~list_empty(list, s_procq(d))
        /\ ToSet(Queue(semdFree_h)) = Semd \ ToSet(active)
        /\ \A d \in ToSet(Queue(semdFree_h)) : s_key[d] = NULL

\* insertBlocked does not fail: there are as many free descriptors as PCBs that
\* are not blocked, whatever semaphores the others are blocked on and however
\* they left those they were blocked on before.
DescriptorLeft ==
    Cardinality({p \in Pcb : p_semAdd[p] = NULL}) <= Len(Queue(semdFree_h))

\* The processes blocked on semAdd, in order.
Waiting(semAdd) ==
    IF \E d \in Semd : s_key[d] = semAdd
    THEN Queue(s_procq(CHOOSE d \in Semd : s_key[d] = semAdd))
    ELSE <<>>

Abstract == INSTANCE ProcessLists WITH
    pool <- {p \in Pcb : ~Allocated(p)},
    prio <- p_prio,
    ready <- Queue(ready_queue),
    blocked <- [semAdd \in Key |-> Waiting(semAdd)],
    parent <- p_parent

\* The linked lists implement the sequences, functions and sets that Nucleus is
\* written with: each call changes one of them as Queues says, and no other.
Implements == Abstract!Spec
=============================================================================
