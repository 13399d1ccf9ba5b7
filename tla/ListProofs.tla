----------------------------- MODULE ListProofs ----------------------------
(***************************************************************************)
(* The circular lists of listx.h, in heaps of any size: what its functions *)
(* do to one list, and that they leave the others alone.                   *)
(*                                                                         *)
(* A list is seen in two ways.  As a set of cells it is well linked if     *)
(* next and prev stay in it and are inverse (Rings).  As a sequence it is  *)
(* a chain from its head, and what the recursive Members reads.  A layout  *)
(* is several lists in one heap that share no cell, with the cells of      *)
(* PCBs, descriptors and static heads that Phase1 has: a call of listx.h   *)
(* changes one of the lists and leaves the layout of the others.           *)
(***************************************************************************)
EXTENDS Phase1, FiniteSetTheorems, TLAPS

QT == INSTANCE QueueTheorems

-----------------------------------------------------------------------------
(* Heaps *)

\* A heap of cells C whose fields hold elements of D: cells, or a null pointer.
Heap(C, D) == [C -> [next : D, prev : D]]

-----------------------------------------------------------------------------
(* What the two basic functions leave in each field *)

\* __list_add: the new cell between two others.
LEMMA LinkFields ==
    ASSUME NEW C, NEW D, C \subseteq D, NEW h \in Heap(C, D),
           NEW new \in C, NEW prev \in C, NEW next \in C, new # prev, new # next
    PROVE  /\ link(h, new, prev, next) \in Heap(C, D)
           /\ \A c \in C :
                /\ link(h, new, prev, next)[c].next =
                      IF c = prev THEN new ELSE IF c = new THEN next ELSE h[c].next
                /\ link(h, new, prev, next)[c].prev =
                      IF c = next THEN new ELSE IF c = new THEN prev ELSE h[c].prev
<1> DEFINE h1 == [h EXCEPT ![next].prev = new]
           h2 == [h1 EXCEPT ![new].next = next]
           h3 == [h2 EXCEPT ![new].prev = prev]
           h4 == [h3 EXCEPT ![prev].next = new]
<1>1. h1 \in Heap(C, D) /\ \A c \in C : /\ h1[c].next = h[c].next
                                        /\ h1[c].prev = IF c = next THEN new ELSE h[c].prev
  BY DEF Heap
<1>2. h2 \in Heap(C, D) /\ \A c \in C : /\ h2[c].next = IF c = new THEN next ELSE h1[c].next
                                        /\ h2[c].prev = h1[c].prev
  <2> HIDE DEF h1
  <2> QED BY <1>1 DEF Heap
<1>3. h3 \in Heap(C, D) /\ \A c \in C : /\ h3[c].next = h2[c].next
                                        /\ h3[c].prev = IF c = new THEN prev ELSE h2[c].prev
  <2> HIDE DEF h2
  <2> QED BY <1>2 DEF Heap
<1>4. h4 \in Heap(C, D) /\ \A c \in C : /\ h4[c].next = IF c = prev THEN new ELSE h3[c].next
                                        /\ h4[c].prev = h3[c].prev
  <2> HIDE DEF h3
  <2> QED BY <1>3 DEF Heap
<1>5. link(h, new, prev, next) = h4
  BY DEF link
<1> HIDE DEF h1, h2, h3, h4
<1> QED BY <1>1, <1>2, <1>3, <1>4, <1>5

\* __list_del: two cells become neighbours.
LEMMA UnlinkFields ==
    ASSUME NEW C, NEW D, C \subseteq D, NEW h \in Heap(C, D), NEW prev \in C, NEW next \in C
    PROVE  /\ unlink(h, prev, next) \in Heap(C, D)
           /\ \A c \in C :
                /\ unlink(h, prev, next)[c].next = IF c = prev THEN next ELSE h[c].next
                /\ unlink(h, prev, next)[c].prev = IF c = next THEN prev ELSE h[c].prev
<1> DEFINE h1 == [h EXCEPT ![next].prev = prev]
           h2 == [h1 EXCEPT ![prev].next = next]
<1>1. h1 \in Heap(C, D) /\ \A c \in C : /\ h1[c].next = h[c].next
                                        /\ h1[c].prev = IF c = next THEN prev ELSE h[c].prev
  BY DEF Heap
<1>2. h2 \in Heap(C, D) /\ \A c \in C : /\ h2[c].next = IF c = prev THEN next ELSE h1[c].next
                                        /\ h2[c].prev = h1[c].prev
  <2> HIDE DEF h1
  <2> QED BY <1>1 DEF Heap
<1>3. unlink(h, prev, next) = h2
  BY DEF unlink
<1> HIDE DEF h1, h2
<1> QED BY <1>1, <1>2, <1>3

\* INIT_LIST_HEAD: a cell that is a list of its own.
LEMMA InitFields ==
    ASSUME NEW C, NEW D, C \subseteq D, NEW h \in Heap(C, D), NEW cell \in C
    PROVE  /\ INIT_LIST_HEAD(h, cell) \in Heap(C, D)
           /\ \A c \in C :
                /\ INIT_LIST_HEAD(h, cell)[c].next = IF c = cell THEN cell ELSE h[c].next
                /\ INIT_LIST_HEAD(h, cell)[c].prev = IF c = cell THEN cell ELSE h[c].prev
BY DEF INIT_LIST_HEAD, Heap

-----------------------------------------------------------------------------
(* Rings *)

\* __list_add between two neighbours of a ring (list_add, list_add_tail and the
\* insertion in the middle of insertProcQ and insertBlocked) makes a ring with one
\* more cell, and leaves every other ring as it is.
THEOREM LinkRings ==
    ASSUME NEW C, NEW D, C \subseteq D, NEW h \in Heap(C, D),
           NEW R \in SUBSET C, Rings(h, R),
           NEW new \in C, new \notin R, NEW prev \in R,
           NEW S \in SUBSET C, S \cap (R \cup {new}) = {}, Rings(h, S)
    PROVE  LET g == link(h, new, prev, h[prev].next)
           IN  g \in Heap(C, D) /\ Rings(g, R \cup {new}) /\ Rings(g, S)
<1> DEFINE next == h[prev].next
           g == link(h, new, prev, next)
<1>1. next \in R /\ h[next].prev = prev /\ prev # new /\ next # new
  BY DEF Rings
<1> HIDE DEF next, g
<1>2. /\ g \in Heap(C, D)
      /\ \A c \in C : /\ g[c].next = IF c = prev THEN new ELSE IF c = new THEN next ELSE h[c].next
                      /\ g[c].prev = IF c = next THEN new ELSE IF c = new THEN prev ELSE h[c].prev
  BY <1>1, LinkFields DEF g
<1>3. Rings(g, R \cup {new})
  <2> SUFFICES ASSUME NEW c \in R \cup {new}
               PROVE  /\ g[c].next \in R \cup {new} /\ g[g[c].next].prev = c
                      /\ g[c].prev \in R \cup {new} /\ g[g[c].prev].next = c
    BY DEF Rings
  <2>1. CASE c = new
    BY <1>1, <1>2, <2>1
  <2>2. CASE c \in R
    <3>1. /\ h[c].next \in R /\ h[h[c].next].prev = c
          /\ h[c].prev \in R /\ h[h[c].prev].next = c
      BY <2>2 DEF Rings
    <3>2. g[c].next \in R \cup {new} /\ g[g[c].next].prev = c
      BY <1>1, <1>2, <2>2, <3>1 DEF next
    <3>3. g[c].prev \in R \cup {new} /\ g[g[c].prev].next = c
      BY <1>1, <1>2, <2>2, <3>1 DEF next
    <3> QED BY <3>2, <3>3
  <2> QED BY <2>1, <2>2
<1>4. Rings(g, S)
  BY <1>1, <1>2 DEF Rings
<1> QED BY <1>2, <1>3, <1>4 DEF g, next

\* __list_del of the neighbours of a cell takes it out of its ring, which stays
\* one; whatever the cell keeps in its own fields, no other ring changes.
\* (list_del, and removeProcQ, which does no more than this.)
THEOREM UnlinkRings ==
    ASSUME NEW C, NEW D, C \subseteq D, NEW h \in Heap(C, D),
           NEW R \in SUBSET C, Rings(h, R), NEW entry \in R,
           NEW S \in SUBSET C, S \cap R = {}, Rings(h, S)
    PROVE  LET g == unlink(h, h[entry].prev, h[entry].next)
           IN  g \in Heap(C, D) /\ Rings(g, R \ {entry}) /\ Rings(g, S)
<1> DEFINE prev == h[entry].prev
           next == h[entry].next
           g == unlink(h, prev, next)
<1>1. /\ next \in R /\ h[next].prev = entry
      /\ prev \in R /\ h[prev].next = entry
  BY DEF Rings
<1> HIDE DEF g
<1>2. /\ g \in Heap(C, D)
      /\ \A c \in C : /\ g[c].next = IF c = prev THEN next ELSE h[c].next
                      /\ g[c].prev = IF c = next THEN prev ELSE h[c].prev
  <2> HIDE DEF prev, next
  <2> QED BY <1>1, UnlinkFields DEF g
<1>3. Rings(g, R \ {entry})
  <2> SUFFICES ASSUME NEW c \in R \ {entry}
               PROVE  /\ g[c].next \in R \ {entry} /\ g[g[c].next].prev = c
                      /\ g[c].prev \in R \ {entry} /\ g[g[c].prev].next = c
    BY DEF Rings
  <2>1. /\ h[c].next \in R /\ h[h[c].next].prev = c
        /\ h[c].prev \in R /\ h[h[c].prev].next = c
    BY DEF Rings
  <2>2. g[c].next \in R \ {entry} /\ g[g[c].next].prev = c
    BY <1>1, <1>2, <2>1
  <2>3. g[c].prev \in R \ {entry} /\ g[g[c].prev].next = c
    BY <1>1, <1>2, <2>1
  <2> QED BY <2>2, <2>3
<1>4. Rings(g, S)
  BY <1>1, <1>2 DEF Rings
<1> QED BY <1>2, <1>3, <1>4 DEF g

-----------------------------------------------------------------------------
(* The functions of the header *)

\* list_add and list_add_tail put a cell that is in none of the two rings into
\* that of the head, and touch no other.
THEOREM AddRings ==
    ASSUME NEW C, NEW D, C \subseteq D, NEW h \in Heap(C, D),
           NEW R \in SUBSET C, Rings(h, R),
           NEW new \in C, new \notin R, NEW head \in R,
           NEW S \in SUBSET C, S \cap (R \cup {new}) = {}, Rings(h, S)
    PROVE  /\ list_add(h, new, head) \in Heap(C, D)
           /\ Rings(list_add(h, new, head), R \cup {new})
           /\ Rings(list_add(h, new, head), S)
           /\ list_add_tail(h, new, head) \in Heap(C, D)
           /\ Rings(list_add_tail(h, new, head), R \cup {new})
           /\ Rings(list_add_tail(h, new, head), S)
<1>1. h[head].prev \in R /\ h[h[head].prev].next = head
  BY DEF Rings
<1>2. /\ list_add(h, new, head) = link(h, new, head, h[head].next)
      /\ list_add_tail(h, new, head) = link(h, new, h[head].prev, h[h[head].prev].next)
  BY <1>1 DEF list_add, list_add_tail
<1>3. LET g == link(h, new, head, h[head].next)
      IN  g \in Heap(C, D) /\ Rings(g, R \cup {new}) /\ Rings(g, S)
  BY LinkRings
<1>4. LET g == link(h, new, h[head].prev, h[h[head].prev].next)
      IN  g \in Heap(C, D) /\ Rings(g, R \cup {new}) /\ Rings(g, S)
  BY <1>1, LinkRings
<1> QED BY <1>2, <1>3, <1>4

\* list_del takes a cell out of its ring and makes it a ring of its own, so that
\* the cell is an empty list, or one that can be added anywhere.
THEOREM DelRings ==
    ASSUME NEW C, NEW D, C \subseteq D, NEW h \in Heap(C, D),
           NEW R \in SUBSET C, Rings(h, R), NEW entry \in R,
           NEW S \in SUBSET C, S \cap R = {}, Rings(h, S)
    PROVE  /\ list_del(h, entry) \in Heap(C, D)
           /\ Rings(list_del(h, entry), R \ {entry})
           /\ Rings(list_del(h, entry), {entry})
           /\ Rings(list_del(h, entry), S)
           /\ list_empty(list_del(h, entry), entry)
<1> DEFINE g == unlink(h, h[entry].prev, h[entry].next)
           d == INIT_LIST_HEAD(g, entry)
<1>1. g \in Heap(C, D) /\ Rings(g, R \ {entry}) /\ Rings(g, S)
  BY UnlinkRings
<1> HIDE DEF g
<1>2. /\ d \in Heap(C, D)
      /\ \A c \in C : /\ d[c].next = IF c = entry THEN entry ELSE g[c].next
                      /\ d[c].prev = IF c = entry THEN entry ELSE g[c].prev
  BY <1>1, InitFields
<1>3. list_del(h, entry) = d
  BY DEF list_del, g
<1> HIDE DEF d
<1>4. Rings(d, R \ {entry})
  BY <1>1, <1>2 DEF Rings
<1>5. Rings(d, S)
  BY <1>1, <1>2 DEF Rings
<1>6. Rings(d, {entry}) /\ list_empty(d, entry)
  BY <1>2 DEF Rings, list_empty
<1> QED BY <1>2, <1>3, <1>4, <1>5, <1>6

-----------------------------------------------------------------------------
(* Lists in order *)

\* The cells of a list in order, from its head (0) to its head (Len(m) + 1).
At(head, m, i) == IF i \in 1 .. Len(m) THEN m[i] ELSE head

\* The list with this head consists of m.
Chain(h, head, m) ==
    /\ IsInjective(m) /\ head \notin ToSet(m)
    /\ \A i \in 0 .. Len(m) : /\ h[At(head, m, i)].next = At(head, m, i + 1)
                              /\ h[At(head, m, i + 1)].prev = At(head, m, i)

\* What a list occupies.
Area(head, m) == {head} \cup ToSet(m)

\* A cell has the same fields in two heaps.
Same(h, g, c) == g[c].next = h[c].next /\ g[c].prev = h[c].prev

\* The places of a list are different cells.
LEMMA Places ==
    ASSUME NEW C, NEW head \in C, NEW m \in Seq(C), IsInjective(m), head \notin ToSet(m)
    PROVE  /\ Len(m) \in Nat
           /\ \A i \in 0 .. Len(m) + 1 : At(head, m, i) \in Area(head, m) /\ At(head, m, i) \in C
           /\ At(head, m, 0) = head /\ At(head, m, Len(m) + 1) = head
           /\ \A i \in 1 .. Len(m) :
                 At(head, m, i) = m[i] /\ m[i] \in ToSet(m) /\ m[i] # head /\ m[i] \in C
           /\ \A i, j \in 0 .. Len(m) : At(head, m, i) = At(head, m, j) => i = j
           /\ \A i, j \in 1 .. Len(m) + 1 : At(head, m, i) = At(head, m, j) => i = j
           /\ \A c \in ToSet(m) : \E i \in 1 .. Len(m) : c = m[i]
           /\ ToSet(m) \subseteq C
<1>1. DOMAIN m = 1 .. Len(m) /\ Len(m) \in Nat /\ \A i \in 1 .. Len(m) : m[i] \in C
  OBVIOUS
<1>2. \A i \in 1 .. Len(m) : m[i] \in ToSet(m) /\ m[i] # head
  BY <1>1 DEF ToSet
<1>3. \A c \in ToSet(m) : \E i \in 1 .. Len(m) : c = m[i]
  BY <1>1 DEF ToSet
<1>4. \A i, j \in 1 .. Len(m) : m[i] = m[j] => i = j
  BY <1>1 DEF IsInjective
<1>5. /\ \A i, j \in 0 .. Len(m) : At(head, m, i) = At(head, m, j) => i = j
      /\ \A i, j \in 1 .. Len(m) + 1 : At(head, m, i) = At(head, m, j) => i = j
  BY <1>1, <1>2, <1>4 DEF At
<1>6. /\ At(head, m, 0) = head /\ At(head, m, Len(m) + 1) = head
      /\ \A i \in 1 .. Len(m) : At(head, m, i) = m[i]
  BY <1>1 DEF At
<1>7. \A i \in 0 .. Len(m) + 1 : i \in 1 .. Len(m) \/ i = 0 \/ i = Len(m) + 1
  BY <1>1
<1> QED BY <1>1, <1>2, <1>3, <1>5, <1>6, <1>7 DEF Area

\* A list stays what it is if its cells do.
LEMMA FrameChain ==
    ASSUME NEW C, NEW head \in C, NEW m \in Seq(C), NEW h, NEW g, Chain(h, head, m),
           \A c \in Area(head, m) : Same(h, g, c)
    PROVE  Chain(g, head, m)
<1>1. /\ Len(m) \in Nat
      /\ \A i \in 0 .. Len(m) + 1 : At(head, m, i) \in Area(head, m)
  BY Places DEF Chain
<1>2. ASSUME NEW i \in 0 .. Len(m)
      PROVE  /\ g[At(head, m, i)].next = At(head, m, i + 1)
             /\ g[At(head, m, i + 1)].prev = At(head, m, i)
  <2>1. i \in 0 .. Len(m) + 1 /\ i + 1 \in 0 .. Len(m) + 1
    BY <1>1
  <2>2. Same(h, g, At(head, m, i)) /\ Same(h, g, At(head, m, i + 1))
    BY <1>1, <2>1
  <2> QED BY <2>2 DEF Same, Chain
<1> QED BY <1>2 DEF Chain

\* A list is well linked.
LEMMA ChainRings ==
    ASSUME NEW C, NEW head \in C, NEW m \in Seq(C), NEW h, Chain(h, head, m)
    PROVE  Rings(h, Area(head, m))
<1>1. /\ Len(m) \in Nat
      /\ \A i \in 0 .. Len(m) + 1 : At(head, m, i) \in Area(head, m)
      /\ At(head, m, 0) = head /\ At(head, m, Len(m) + 1) = head
      /\ \A i \in 1 .. Len(m) : At(head, m, i) = m[i]
      /\ \A c \in ToSet(m) : \E i \in 1 .. Len(m) : c = m[i]
  BY Places DEF Chain
<1>2. ASSUME NEW c \in Area(head, m)
      PROVE  /\ h[c].next \in Area(head, m) /\ h[h[c].next].prev = c
             /\ h[c].prev \in Area(head, m) /\ h[h[c].prev].next = c
  <2>1. PICK i \in 0 .. Len(m) : c = At(head, m, i)
    BY <1>1 DEF Area
  <2>2. PICK j \in 1 .. Len(m) + 1 : c = At(head, m, j)
    BY <1>1 DEF Area
  <2>3. h[c].next = At(head, m, i + 1) /\ h[At(head, m, i + 1)].prev = c
    BY <2>1 DEF Chain
  <2>4. j - 1 \in 0 .. Len(m) /\ (j - 1) + 1 = j
    BY <1>1
  <2>5. h[c].prev = At(head, m, j - 1) /\ h[At(head, m, j - 1)].next = c
    BY <2>2, <2>4 DEF Chain
  <2>6. i + 1 \in 0 .. Len(m) + 1 /\ j - 1 \in 0 .. Len(m) + 1
    BY <1>1
  <2> QED BY <1>1, <2>3, <2>5, <2>6
<1> QED BY <1>2 DEF Rings

\* The empty list.
LEMMA EmptyChain ==
    ASSUME NEW h, NEW head, h[head].next = head, h[head].prev = head
    PROVE  Chain(h, head, <<>>)
BY DEF Chain, At, IsInjective, ToSet

\* A list is empty when next of its head is the head.
LEMMA EmptyList ==
    ASSUME NEW C, NEW head \in C, NEW m \in Seq(C), NEW h, Chain(h, head, m)
    PROVE  /\ list_empty(h, head) <=> m = <<>>
           /\ m # <<>> => h[head].next = m[1] /\ h[m[1]].prev = head /\ Len(m) > 0
           /\ h[head].prev = At(head, m, Len(m)) /\ h[head].next = At(head, m, 1)
<1>1. /\ Len(m) \in Nat
      /\ At(head, m, 0) = head /\ At(head, m, Len(m) + 1) = head
      /\ \A i \in 1 .. Len(m) : At(head, m, i) = m[i] /\ m[i] # head
  BY Places DEF Chain
<1>2. /\ h[head].next = At(head, m, 1) /\ h[At(head, m, 1)].prev = head
      /\ h[head].prev = At(head, m, Len(m))
  <2>1. 0 \in 0 .. Len(m) /\ Len(m) \in 0 .. Len(m) /\ 0 + 1 = 1
    BY <1>1
  <2> QED BY <1>1, <2>1 DEF Chain
<1>3. CASE m = <<>>
  BY <1>1, <1>2, <1>3 DEF list_empty
<1>4. CASE m # <<>>
  <2>1. 1 \in 1 .. Len(m)
    BY <1>1, <1>4
  <2> QED BY <1>1, <1>2, <1>4, <2>1 DEF list_empty
<1> QED BY <1>3, <1>4

-----------------------------------------------------------------------------
(* What the functions of the header do to lists *)

\* The elements of a concatenation.
LEMMA Concatenation ==
    ASSUME NEW S, NEW a \in Seq(S), NEW b \in Seq(S)
    PROVE  /\ a \o b \in Seq(S)
           /\ Len(a \o b) = Len(a) + Len(b)
           /\ \A k \in 1 .. Len(a) + Len(b) :
                 (a \o b)[k] = IF k <= Len(a) THEN a[k] ELSE b[k - Len(a)]
BY QT!ConcatFacts

\* The elements of a sequence with one more, and with one less.
LEMMA InsertedElements ==
    ASSUME NEW S, NEW q \in Seq(S), NEW e \in S, NEW i \in 1 .. Len(q) + 1
    PROVE  /\ InsertAt(q, i, e) \in Seq(S)
           /\ Len(InsertAt(q, i, e)) = Len(q) + 1
           /\ \A k \in 1 .. Len(q) + 1 :
                InsertAt(q, i, e)[k] =
                    IF k < i THEN q[k] ELSE IF k = i THEN e ELSE q[k - 1]
           /\ ToSet(InsertAt(q, i, e)) = ToSet(q) \cup {e}
           /\ IsInjective(q) /\ e \notin ToSet(q) => IsInjective(InsertAt(q, i, e))
<1>1. QT!InsertAt(q, i, e) = InsertAt(q, i, e)
  BY DEF QT!InsertAt, InsertAt
<1>2. \A s : QT!ToSet(s) = ToSet(s) /\ QT!IsInjective(s) = IsInjective(s)
  BY DEF QT!ToSet, ToSet, QT!IsInjective, IsInjective
<1>3. /\ InsertAt(q, i, e) \in Seq(S)
      /\ Len(InsertAt(q, i, e)) = Len(q) + 1
      /\ \A k \in 1 .. Len(q) + 1 :
           InsertAt(q, i, e)[k] = IF k < i THEN q[k] ELSE IF k = i THEN e ELSE q[k - 1]
  <2> DEFINE a == SubSeq(q, 1, i - 1)
             b == SubSeq(q, i, Len(q))
             c == a \o <<e>>
             n == Len(q)
  <2>1. /\ a \in Seq(S) /\ Len(a) = i - 1 /\ \A k \in 1 .. i - 1 : a[k] = q[k]
    OBVIOUS
  <2>2. /\ b \in Seq(S) /\ Len(b) = n - i + 1
        /\ \A k \in 1 .. n - i + 1 : b[k] = q[i + k - 1]
    OBVIOUS
  <2>3. n \in Nat /\ i \in 1 .. n + 1
    OBVIOUS
  <2> HIDE DEF a, b
  <2>4. c \in Seq(S) /\ Len(c) = i /\ \A k \in 1 .. i : c[k] = IF k < i THEN a[k] ELSE e
    BY <2>1
  <2> HIDE DEF c
  <2>5. InsertAt(q, i, e) = c \o b
    BY DEF InsertAt, a, b, c
  <2>6. /\ c \o b \in Seq(S) /\ Len(c \o b) = Len(c) + Len(b)
        /\ \A k \in 1 .. Len(c) + Len(b) :
             (c \o b)[k] = IF k <= Len(c) THEN c[k] ELSE b[k - Len(c)]
    BY <2>2, <2>4, Concatenation
  <2> HIDE DEF n
  <2>7. ASSUME NEW k \in 1 .. n + 1
        PROVE  (c \o b)[k] = IF k < i THEN q[k] ELSE IF k = i THEN e ELSE q[k - 1]
    <3>1. k \in 1 .. Len(c) + Len(b)
      BY <2>2, <2>3, <2>4
    <3>2. CASE k <= i
      <4>1. k \in 1 .. i /\ (k < i => k \in 1 .. i - 1)
        BY <2>3, <3>2
      <4> QED BY <2>1, <2>4, <2>6, <3>1, <3>2, <4>1
    <3>3. CASE k > i
      <4>1. k - i \in 1 .. n - i + 1 /\ i + (k - i) - 1 = k - 1 /\ ~(k <= i) /\ ~(k < i) /\ k # i
        BY <2>3, <3>3
      <4> QED BY <2>2, <2>4, <2>6, <3>1, <4>1
    <3>4. k <= i \/ k > i
      BY <2>3
    <3> QED BY <3>2, <3>3, <3>4
  <2>8. Len(c) + Len(b) = n + 1
    BY <2>2, <2>3, <2>4
  <2> QED BY <2>5, <2>6, <2>7, <2>8 DEF n
<1>4. /\ QT!ToSet(QT!InsertAt(q, i, e)) = QT!ToSet(q) \cup {e}
      /\ QT!IsInjective(q) /\ e \notin QT!ToSet(q) => QT!IsInjective(QT!InsertAt(q, i, e))
  BY QT!InsertAtFacts
<1> QED BY <1>1, <1>2, <1>3, <1>4

\* The same when one is taken out.
LEMMA RemovedElements ==
    ASSUME NEW S, NEW q \in Seq(S), NEW i \in 1 .. Len(q)
    PROVE  /\ RemoveAt(q, i) \in Seq(S)
           /\ Len(RemoveAt(q, i)) = Len(q) - 1
           /\ \A k \in 1 .. Len(q) - 1 : RemoveAt(q, i)[k] = IF k < i THEN q[k] ELSE q[k + 1]
           /\ IsInjective(q) => /\ IsInjective(RemoveAt(q, i))
                                /\ ToSet(RemoveAt(q, i)) = ToSet(q) \ {q[i]}
<1> DEFINE a == SubSeq(q, 1, i - 1)
           b == SubSeq(q, i + 1, Len(q))
           r == RemoveAt(q, i)
<1>1. /\ a \in Seq(S) /\ Len(a) = i - 1 /\ \A k \in 1 .. i - 1 : a[k] = q[k]
  OBVIOUS
<1>2. /\ b \in Seq(S) /\ Len(b) = Len(q) - i
      /\ \A k \in 1 .. Len(q) - i : b[k] = q[i + k]
  OBVIOUS
<1>3. r = a \o b
  BY DEF RemoveAt
<1> HIDE DEF a, b, r
<1>4. /\ r \in Seq(S) /\ Len(r) = Len(q) - 1 /\ Len(q) \in Nat
      /\ \A k \in 1 .. Len(q) - 1 : r[k] = IF k < i THEN a[k] ELSE b[k - (i - 1)]
  <2>1. /\ a \o b \in Seq(S) /\ Len(a \o b) = Len(a) + Len(b)
        /\ \A k \in 1 .. Len(a) + Len(b) :
             (a \o b)[k] = IF k <= Len(a) THEN a[k] ELSE b[k - Len(a)]
    BY <1>1, <1>2, Concatenation
  <2> QED BY <1>1, <1>2, <1>3, <2>1
<1>5. ASSUME NEW k \in 1 .. Len(q) - 1
      PROVE  r[k] = IF k < i THEN q[k] ELSE q[k + 1]
  <2>1. CASE k < i
    BY <1>1, <1>4, <2>1
  <2>2. CASE ~(k < i)
    <3>1. k - (i - 1) \in 1 .. Len(q) - i /\ i + (k - (i - 1)) = k + 1
      BY <1>4, <2>2
    <3> QED BY <1>2, <1>4, <2>2, <3>1
  <2> QED BY <2>1, <2>2
<1>6. DOMAIN q = 1 .. Len(q) /\ DOMAIN r = 1 .. Len(q) - 1
  BY <1>4
<1>7. ASSUME IsInjective(q)
      PROVE  IsInjective(r) /\ ToSet(r) = ToSet(q) \ {q[i]}
  <2> DEFINE from(k) == IF k < i THEN k ELSE k + 1
  <2>1. \A k, l \in 1 .. Len(q) : q[k] = q[l] => k = l
    BY <1>6, <1>7 DEF IsInjective
  <2>2. \A k \in 1 .. Len(q) - 1 : from(k) \in 1 .. Len(q) /\ from(k) # i /\ r[k] = q[from(k)]
    BY <1>4, <1>5
  <2>3. \A k, l \in 1 .. Len(q) - 1 : from(k) = from(l) => k = l
    BY <1>4
  <2>4. \A j \in 1 .. Len(q) : j # i => \E k \in 1 .. Len(q) - 1 : from(k) = j
    <3> SUFFICES ASSUME NEW j \in 1 .. Len(q), j # i
                 PROVE  \E k \in 1 .. Len(q) - 1 : from(k) = j
      OBVIOUS
    <3>1. CASE j < i
      <4>1. j \in 1 .. Len(q) - 1 /\ from(j) = j
        BY <3>1, <1>4
      <4> QED BY <4>1
    <3>2. CASE j > i
      <4>1. j - 1 \in 1 .. Len(q) - 1 /\ from(j - 1) = j
        BY <3>2, <1>4
      <4> HIDE DEF from
      <4> QED BY <4>1
    <3> QED BY <3>1, <3>2
  <2> HIDE DEF from
  <2>5. IsInjective(r)
    BY <1>6, <2>1, <2>2, <2>3 DEF IsInjective
  <2>6. ToSet(r) \subseteq ToSet(q) \ {q[i]}
    BY <1>6, <2>1, <2>2 DEF ToSet
  <2>7. ASSUME NEW j \in 1 .. Len(q), q[j] # q[i] PROVE q[j] \in ToSet(r)
    <3>1. PICK k \in 1 .. Len(q) - 1 : from(k) = j
      BY <2>4, <2>7
    <3>2. r[k] = q[j]
      BY <2>2, <3>1
    <3> QED BY <1>6, <3>2 DEF ToSet
  <2>8. ToSet(q) \ {q[i]} \subseteq ToSet(r)
    BY <1>6, <2>7 DEF ToSet
  <2> QED BY <2>5, <2>6, <2>8
<1> QED BY <1>4, <1>5, <1>7 DEF r

\* __list_add between two places puts a cell there.
LEMMA LinkChain ==
    ASSUME NEW C, NEW D, C \subseteq D, NEW h \in Heap(C, D),
           NEW head \in C, NEW m \in Seq(C), Chain(h, head, m),
           NEW new \in C, new \notin Area(head, m), NEW i \in 1 .. Len(m) + 1
    PROVE  LET g == link(h, new, At(head, m, i - 1), At(head, m, i))
               r == InsertAt(m, i, new)
           IN  /\ g \in Heap(C, D) /\ r \in Seq(C) /\ Chain(g, head, r)
               /\ Area(head, r) = Area(head, m) \cup {new}
               /\ \A c \in C \ Area(head, r) : Same(h, g, c)
<1> DEFINE n == Len(m)
           a(k) == At(head, m, k)
           r == InsertAt(m, i, new)
           b(k) == At(head, r, k)
           g == link(h, new, a(i - 1), a(i))
<1>1. /\ n \in Nat
      /\ \A k \in 0 .. n + 1 : a(k) \in Area(head, m) /\ a(k) \in C
      /\ a(0) = head /\ a(n + 1) = head /\ \A k \in 1 .. n : a(k) = m[k]
      /\ \A k, l \in 0 .. n : a(k) = a(l) => k = l
      /\ \A k, l \in 1 .. n + 1 : a(k) = a(l) => k = l
  BY Places DEF Chain
<1>2. /\ r \in Seq(C) /\ Len(r) = n + 1
      /\ \A k \in 1 .. n + 1 : r[k] = IF k < i THEN m[k] ELSE IF k = i THEN new ELSE m[k - 1]
      /\ ToSet(r) = ToSet(m) \cup {new}
      /\ IsInjective(r)
  BY InsertedElements DEF Chain, Area
<1>3. \A k \in 0 .. n : h[a(k)].next = a(k + 1) /\ h[a(k + 1)].prev = a(k)
  BY DEF Chain
<1>4. /\ g \in Heap(C, D)
      /\ \A c \in C : /\ g[c].next = IF c = a(i - 1) THEN new ELSE IF c = new THEN a(i) ELSE h[c].next
                      /\ g[c].prev = IF c = a(i) THEN new ELSE IF c = new THEN a(i - 1) ELSE h[c].prev
  <2>1. i - 1 \in 0 .. n + 1 /\ i \in 0 .. n + 1
    BY <1>1
  <2>2. a(i - 1) \in C /\ a(i) \in C /\ new # a(i - 1) /\ new # a(i)
    BY <1>1, <2>1
  <2> HIDE DEF a
  <2> QED BY <2>2, LinkFields
<1>5. /\ b(0) = head /\ b(n + 2) = head
      /\ \A k \in 1 .. n + 1 : b(k) = IF k < i THEN a(k) ELSE IF k = i THEN new ELSE a(k - 1)
  <2>1. \A k \in 1 .. n + 1 : b(k) = r[k] /\ (k < i => k \in 1 .. n) /\ (k > i => k - 1 \in 1 .. n)
    BY <1>1, <1>2 DEF At
  <2>2. \A k \in 1 .. n : a(k) = m[k]
    BY <1>1
  <2>3. b(0) = head /\ b(n + 2) = head
    BY <1>1, <1>2 DEF At
  <2> HIDE DEF a, b
  <2>4. ASSUME NEW k \in 1 .. n + 1
        PROVE  b(k) = IF k < i THEN a(k) ELSE IF k = i THEN new ELSE a(k - 1)
    <3>1. CASE k < i
      BY <1>2, <2>1, <2>2, <3>1
    <3>2. CASE k = i
      BY <1>2, <2>1, <3>2
    <3>3. CASE k > i
      BY <1>2, <2>1, <2>2, <3>3
    <3> QED BY <1>1, <3>1, <3>2, <3>3
  <2> QED BY <2>3, <2>4
<1>6. \A k \in 0 .. n + 2 : b(k) = IF k < i THEN a(k) ELSE IF k = i THEN new ELSE a(k - 1)
  <2>1. \A k \in 0 .. n + 2 : k = 0 \/ k = n + 2 \/ k \in 1 .. n + 1
    BY <1>1
  <2>2. 0 < i /\ ~(n + 2 < i) /\ n + 2 # i /\ (n + 2) - 1 = n + 1
    BY <1>1
  <2> HIDE DEF a, b
  <2> QED BY <1>1, <1>5, <2>1, <2>2
<1> HIDE DEF a, b, g, r
<1>7. ASSUME NEW k \in 0 .. n + 1
      PROVE  g[b(k)].next = b(k + 1) /\ g[b(k + 1)].prev = b(k)
  <2>0. k \in 0 .. n + 2 /\ k + 1 \in 0 .. n + 2 /\ (k + 1) - 1 = k /\ i \in 0 .. n + 1
        /\ i - 1 \in 0 .. n /\ (i - 1) + 1 = i
    BY <1>1
  <2>1. CASE k < i - 1
    <3>1. k \in 0 .. n /\ k + 1 \in 1 .. n + 1 /\ k + 1 # i /\ k # i - 1 /\ k < i /\ k + 1 < i
      BY <1>1, <2>1
    <3>2. a(k) # a(i - 1) /\ a(k + 1) # a(i)
      BY <1>1, <2>0, <3>1
    <3>3. a(k) # new /\ a(k + 1) # new /\ a(k) \in C /\ a(k + 1) \in C
      BY <1>1, <3>1
    <3> QED BY <1>3, <1>4, <1>6, <2>0, <3>1, <3>2, <3>3
  <2>2. CASE k = i - 1
    <3>1. b(k) = a(i - 1) /\ b(k + 1) = new
      BY <1>6, <2>0, <2>2
    <3>2. a(i - 1) \in C /\ new # a(i)
      BY <1>1, <2>0
    <3> QED BY <1>4, <3>1, <3>2
  <2>3. CASE k = i
    <3>1. b(k) = new /\ b(k + 1) = a(i)
      BY <1>6, <2>0, <2>3
    <3>2. a(i) \in C /\ new # a(i - 1)
      BY <1>1, <2>0
    <3> QED BY <1>4, <3>1, <3>2
  <2>4. CASE k > i
    <3>1. /\ k - 1 \in 0 .. n /\ k - 1 # i - 1 /\ (k - 1) + 1 = k /\ k \in 1 .. n + 1 /\ k # i
          /\ ~(k < i) /\ ~(k + 1 < i) /\ k + 1 # i
      BY <1>1, <2>4
    <3>2. a(k - 1) # a(i - 1) /\ a(k) # a(i)
      BY <1>1, <2>0, <3>1
    <3>3. a(k - 1) # new /\ a(k) # new /\ a(k - 1) \in C /\ a(k) \in C
      BY <1>1, <3>1
    <3> QED BY <1>3, <1>4, <1>6, <2>0, <3>1, <3>2, <3>3
  <2> QED BY <1>1, <2>1, <2>2, <2>3, <2>4
<1>8. head \notin ToSet(r)
  BY <1>2 DEF Chain, Area
<1>9. Chain(g, head, r)
  BY <1>2, <1>7, <1>8 DEF Chain, b
<1>10. Area(head, r) = Area(head, m) \cup {new}
  BY <1>2 DEF Area
<1>11. \A c \in C \ Area(head, r) : Same(h, g, c)
  <2>1. i - 1 \in 0 .. n + 1 /\ i \in 0 .. n + 1
    BY <1>1
  <2>2. a(i - 1) \in Area(head, r) /\ a(i) \in Area(head, r) /\ new \in Area(head, r)
    BY <1>1, <1>10, <2>1
  <2> QED BY <1>4, <2>2 DEF Same
<1> QED BY <1>2, <1>4, <1>9, <1>10, <1>11 DEF g, a, r

\* __list_del around a cell takes it out.
LEMMA UnlinkChain ==
    ASSUME NEW C, NEW D, C \subseteq D, NEW h \in Heap(C, D),
           NEW head \in C, NEW m \in Seq(C), Chain(h, head, m), NEW i \in 1 .. Len(m)
    PROVE  LET g == unlink(h, At(head, m, i - 1), At(head, m, i + 1))
               r == RemoveAt(m, i)
           IN  /\ h[m[i]].prev = At(head, m, i - 1) /\ h[m[i]].next = At(head, m, i + 1)
               /\ g \in Heap(C, D) /\ r \in Seq(C) /\ Chain(g, head, r)
               /\ Area(head, r) = Area(head, m) \ {m[i]}
               /\ \A c \in C \ Area(head, r) : Same(h, g, c)
<1> DEFINE n == Len(m)
           a(k) == At(head, m, k)
           r == RemoveAt(m, i)
           b(k) == At(head, r, k)
           g == unlink(h, a(i - 1), a(i + 1))
<1>1. /\ n \in Nat
      /\ \A k \in 0 .. n + 1 : a(k) \in Area(head, m) /\ a(k) \in C
      /\ a(0) = head /\ a(n + 1) = head /\ \A k \in 1 .. n : a(k) = m[k]
      /\ \A k, l \in 0 .. n : a(k) = a(l) => k = l
      /\ \A k, l \in 1 .. n + 1 : a(k) = a(l) => k = l
  BY Places DEF Chain
<1>2. /\ r \in Seq(C) /\ Len(r) = n - 1
      /\ \A k \in 1 .. n - 1 : r[k] = IF k < i THEN m[k] ELSE m[k + 1]
      /\ ToSet(r) = ToSet(m) \ {m[i]} /\ IsInjective(r)
  <2>1. IsInjective(m)
    BY DEF Chain
  <2> HIDE DEF a, b, g
  <2> QED BY <2>1, RemovedElements, SMTT(30)
<1>3. \A k \in 0 .. n : h[a(k)].next = a(k + 1) /\ h[a(k + 1)].prev = a(k)
  BY DEF Chain
<1>4. i - 1 \in 0 .. n + 1 /\ i + 1 \in 0 .. n + 1 /\ i \in 0 .. n /\ i - 1 \in 0 .. n
      /\ (i - 1) + 1 = i /\ i \in 1 .. n
  BY <1>1
<1>5. /\ g \in Heap(C, D)
      /\ \A c \in C : /\ g[c].next = IF c = a(i - 1) THEN a(i + 1) ELSE h[c].next
                      /\ g[c].prev = IF c = a(i + 1) THEN a(i - 1) ELSE h[c].prev
  <2>1. a(i - 1) \in C /\ a(i + 1) \in C
    BY <1>1, <1>4
  <2> HIDE DEF a
  <2> QED BY <2>1, UnlinkFields
<1>6. \A k \in 0 .. n : b(k) = IF k < i THEN a(k) ELSE a(k + 1)
  <2>1. /\ b(0) = head /\ b(n) = head
        /\ \A k \in 1 .. n - 1 : b(k) = IF k < i THEN m[k] ELSE m[k + 1]
    BY <1>1, <1>2 DEF At
  <2>2. \A k \in 1 .. n - 1 : k \in 1 .. n /\ k + 1 \in 1 .. n
    BY <1>1
  <2>3. \A k \in 0 .. n : k = 0 \/ k = n \/ k \in 1 .. n - 1
    BY <1>1
  <2>4. 0 < i /\ ~(n < i)
    BY <1>1
  <2> HIDE DEF a, b
  <2> QED BY <1>1, <2>1, <2>2, <2>3, <2>4
<1> HIDE DEF a, b, g, r
<1>7. ASSUME NEW k \in 0 .. n - 1
      PROVE  g[b(k)].next = b(k + 1) /\ g[b(k + 1)].prev = b(k)
  <2>0. k \in 0 .. n /\ k + 1 \in 0 .. n
    BY <1>1
  <2>1. CASE k < i - 1
    <3>1. k < i /\ k + 1 < i /\ k # i - 1 /\ k + 1 # i + 1 /\ k + 1 \in 1 .. n + 1 /\ i + 1 \in 1 .. n + 1
      BY <1>1, <2>1
    <3>2. a(k) # a(i - 1) /\ a(k + 1) # a(i + 1) /\ a(k) \in C /\ a(k + 1) \in C
      BY <1>1, <1>4, <2>0, <3>1
    <3> QED BY <1>3, <1>5, <1>6, <2>0, <3>1, <3>2
  <2>2. CASE k = i - 1
    <3>1. k < i /\ ~(k + 1 < i) /\ k + 1 = i
      BY <1>1, <2>2
    <3>2. b(k) = a(i - 1) /\ b(k + 1) = a(i + 1)
      BY <1>6, <2>0, <2>2, <3>1
    <3>3. a(i - 1) \in C /\ a(i + 1) \in C
      BY <1>1, <1>4
    <3> QED BY <1>5, <3>2, <3>3
  <2>3. CASE k >= i
    <3>1. /\ ~(k < i) /\ ~(k + 1 < i) /\ k + 1 # i - 1 /\ (k + 1) + 1 # i + 1
          /\ k + 1 \in 0 .. n /\ (k + 1) + 1 \in 1 .. n + 1 /\ i + 1 \in 1 .. n + 1
          /\ (k + 1) + 1 \in 0 .. n + 1 /\ k + 1 \in 0 .. n + 1
      BY <1>1, <2>3
    <3>2. a(k + 1) # a(i - 1) /\ a((k + 1) + 1) # a(i + 1)
      BY <1>1, <1>4, <3>1
    <3>3. a(k + 1) \in C /\ a((k + 1) + 1) \in C
      BY <1>1, <3>1
    <3> QED BY <1>3, <1>5, <1>6, <2>0, <3>1, <3>2, <3>3
  <2> QED BY <1>1, <2>1, <2>2, <2>3
<1>8. Chain(g, head, r)
  BY <1>2, <1>7 DEF Chain, b
<1>9. Area(head, r) = Area(head, m) \ {m[i]} /\ m[i] = a(i) /\ m[i] # head
  <2>1. m[i] # head
    BY Places DEF Chain
  <2> QED BY <1>1, <1>2, <2>1 DEF Area
<1>10. \A c \in C \ Area(head, r) : Same(h, g, c)
  <2>1. a(i - 1) # a(i) /\ a(i + 1) # a(i)
    <3>1. i - 1 # i /\ i + 1 # i /\ i + 1 \in 1 .. n + 1
      BY <1>1
    <3> QED BY <1>1, <1>4, <3>1
  <2>2. a(i - 1) \in Area(head, r) /\ a(i + 1) \in Area(head, r)
    BY <1>1, <1>4, <1>9, <2>1
  <2> QED BY <1>5, <2>2 DEF Same
<1>11. h[m[i]].prev = a(i - 1) /\ h[m[i]].next = a(i + 1)
  BY <1>3, <1>4, <1>9
<1> QED BY <1>2, <1>5, <1>8, <1>9, <1>10, <1>11 DEF g, a, r

-----------------------------------------------------------------------------
(* What list_for_each visits *)

\* The cell that comes after those seen, and whether the loop goes on to it.
Pos(h, head, seen) == h[IF seen = <<>> THEN head ELSE Last(seen)].next

Goes(h, head, C, seen) ==
    /\ Pos(h, head, seen) # head
    /\ Pos(h, head, seen) \notin ToSet(seen)
    /\ Pos(h, head, seen) \in C

\* One turn of the loop of Members.
Visit(h, head, C, f) ==
    [seen \in Seq(C) |->
        IF Goes(h, head, C, seen) THEN f[Append(seen, Pos(h, head, seen))] ELSE seen]

\* The recursive function behind Members exists: with finitely many cells, the
\* loop ends.
LEMMA VisitExists ==
    ASSUME NEW C, IsFiniteSet(C), NEW h, NEW head
    PROVE  \E f : f = Visit(h, head, C, f)
<1> DEFINE A == [Seq(C) -> Seq(C)]
           N == Cardinality(C)
           first == [seen \in Seq(C) |-> seen]
           step == [k \in 1 .. N + 1 |-> [f \in A |-> Visit(h, head, C, f)]]
           next(seen) == Append(seen, Pos(h, head, seen))
           left(seen) == Cardinality(C \ ToSet(seen))
<1>1. N \in Nat
  BY FS_CardinalityType
<1>2. \A seen \in Seq(C) : Goes(h, head, C, seen) => next(seen) \in Seq(C)
  BY DEF Goes
<1>3. \A f \in A : Visit(h, head, C, f) \in A
  <2> SUFFICES ASSUME NEW f \in A PROVE Visit(h, head, C, f) \in A
    OBVIOUS
  <2>1. ASSUME NEW seen \in Seq(C)
        PROVE  (IF Goes(h, head, C, seen) THEN f[next(seen)] ELSE seen) \in Seq(C)
    <3> HIDE DEF next
    <3> QED BY <1>2
  <2> QED BY <2>1 DEF Visit
<1>4. PICK g : QT!IsRecursion(g, N + 1, A, first, step)
  <2>1. first \in A /\ N + 1 \in Nat
    BY <1>1
  <2>2. \A k \in 1 .. N + 1 : \A f \in A : step[k][f] \in A
    <3> HIDE DEF A
    <3> QED BY <1>3
  <2> HIDE DEF A, N, first, step
  <2> QED BY <2>1, <2>2, QT!RecursionExists
<1>5. /\ g \in [0 .. N + 1 -> A]
      /\ \A k \in 0 .. N + 1 : g[k] = IF k = 0 THEN first ELSE step[k][g[k - 1]]
  BY <1>4 DEF QT!IsRecursion
<1>6. g[0] = first /\ \A k \in 0 .. N : g[k + 1] = Visit(h, head, C, g[k])
  <2>1. ASSUME NEW k \in 0 .. N PROVE g[k + 1] = Visit(h, head, C, g[k])
    <3>1. k + 1 \in 0 .. N + 1 /\ k + 1 # 0 /\ (k + 1) - 1 = k /\ k \in 0 .. N + 1
          /\ k + 1 \in 1 .. N + 1
      BY <1>1
    <3>2. g[k + 1] = step[k + 1][g[k]] /\ g[k] \in A
      <4> HIDE DEF A, step, first
      <4> QED BY <1>5, <3>1
    <3> HIDE DEF A
    <3> QED BY <3>1, <3>2
  <2>2. 0 \in 0 .. N + 1
    BY <1>1
  <2> QED BY <1>5, <2>1, <2>2
<1>7. /\ \A seen \in Seq(C) : g[0][seen] = seen
      /\ \A k \in 0 .. N : \A seen \in Seq(C) :
            g[k + 1][seen] = IF Goes(h, head, C, seen) THEN g[k][next(seen)] ELSE seen
  <2>1. \A seen \in Seq(C) : g[0][seen] = seen
    BY <1>6
  <2>2. ASSUME NEW k \in 0 .. N, NEW seen \in Seq(C)
        PROVE  g[k + 1][seen] = IF Goes(h, head, C, seen) THEN g[k][next(seen)] ELSE seen
    <3>1. g[k + 1] = Visit(h, head, C, g[k])
      BY <1>6
    <3> HIDE DEF N
    <3> QED BY <3>1 DEF Visit
  <2> HIDE DEF next
  <2> QED BY <2>1, <2>2
<1>8. \A seen \in Seq(C) : left(seen) \in Nat /\ left(seen) <= N
  <2> TAKE seen \in Seq(C)
  <2>1. C \ ToSet(seen) \subseteq C
    OBVIOUS
  <2> QED BY <2>1, FS_Subset, FS_CardinalityType
<1>9. ASSUME NEW seen \in Seq(C), Goes(h, head, C, seen)
      PROVE  left(seen) = left(next(seen)) + 1
  <2> DEFINE pos == Pos(h, head, seen)
             R == C \ ToSet(seen)
  <2>1. pos \in C /\ pos \notin ToSet(seen)
    BY <1>9 DEF Goes
  <2> HIDE DEF pos
  <2>2. ToSet(Append(seen, pos)) = ToSet(seen) \cup {pos}
    BY <2>1, QT!AppendFacts DEF QT!ToSet, ToSet
  <2>3. C \ ToSet(Append(seen, pos)) = R \ {pos} /\ pos \in R /\ IsFiniteSet(R)
    BY <2>1, <2>2, FS_Subset
  <2> HIDE DEF R
  <2>4. Cardinality(R \ {pos}) = Cardinality(R) - 1 /\ Cardinality(R) \in Nat
    BY <2>3, FS_RemoveElement, FS_CardinalityType
  <2>5. left(seen) = Cardinality(R) /\ left(next(seen)) = Cardinality(R \ {pos})
    BY <2>3 DEF R, pos
  <2> HIDE DEF left, next
  <2> QED BY <2>4, <2>5
<1> DEFINE Settled(k) ==
             \A seen \in Seq(C) : left(seen) <= k => g[k + 1][seen] = g[k][seen]
           S == {k \in 0 .. N : Settled(k)}
<1> HIDE DEF left, next
<1>10. 0 \in S
  <2>1. ASSUME NEW seen \in Seq(C), left(seen) <= 0 PROVE g[1][seen] = g[0][seen]
    <3>1. ~Goes(h, head, C, seen)
      <4> SUFFICES ASSUME Goes(h, head, C, seen) PROVE FALSE
        OBVIOUS
      <4>1. left(seen) = left(next(seen)) + 1 /\ next(seen) \in Seq(C)
        BY <1>2, <1>9
      <4> QED BY <1>8, <2>1, <4>1
    <3>2. 0 \in 0 .. N /\ 0 + 1 = 1
      BY <1>1
    <3>3. g[0 + 1][seen] = seen
      BY <1>7, <3>1, <3>2
    <3> QED BY <1>7, <3>2, <3>3
  <2> QED BY <1>1, <2>1
<1>11. \A k \in 0 .. N - 1 : k \in S => k + 1 \in S
  <2> SUFFICES ASSUME NEW k \in 0 .. N - 1, k \in S PROVE k + 1 \in S
    OBVIOUS
  <2>1. k \in 0 .. N /\ k + 1 \in 0 .. N /\ Settled(k)
    BY <1>1
  <2>2. ASSUME NEW seen \in Seq(C), left(seen) <= k + 1
        PROVE  g[(k + 1) + 1][seen] = g[k + 1][seen]
    <3>1. CASE Goes(h, head, C, seen)
      <4>1. next(seen) \in Seq(C) /\ left(next(seen)) <= k
        BY <1>2, <1>8, <1>9, <2>1, <2>2, <3>1
      <4>2. g[k + 1][next(seen)] = g[k][next(seen)]
        BY <2>1, <4>1
      <4> QED BY <1>7, <2>1, <3>1, <4>2
    <3>2. CASE ~Goes(h, head, C, seen)
      BY <1>7, <2>1, <3>2
    <3> QED BY <3>1, <3>2
  <2> QED BY <2>1, <2>2
<1>12. N \in S
  <2>1. 0 .. N \subseteq S
    <3> HIDE DEF S, N
    <3> QED BY <1>1, <1>10, <1>11, QT!Induction
  <2> HIDE DEF S
  <2> QED BY <1>1, <2>1
<1>13. \A seen \in Seq(C) : g[N + 1][seen] = g[N][seen]
  BY <1>8, <1>12
<1>14. g[N + 1] = g[N]
  <2>1. g[N + 1] \in A /\ g[N] \in A
    <3>1. N + 1 \in 0 .. N + 1 /\ N \in 0 .. N + 1
      BY <1>1
    <3> HIDE DEF A, first, step
    <3> QED BY <1>5, <3>1
  <2> QED BY <1>13, <2>1
<1>15. g[N] = Visit(h, head, C, g[N])
  <2>1. N \in 0 .. N
    BY <1>1
  <2> QED BY <1>6, <1>14, <2>1
<1> QED BY <1>15

\* Members gives what a list consists of.
LEMMA ChainMembers ==
    ASSUME NEW C, IsFiniteSet(C), NEW D, NEW h \in Heap(C, D),
           NEW head \in C, NEW m \in Seq(C), Chain(h, head, m)
    PROVE  Members(h, head) = m
<1> DEFINE n == Len(m)
           c == CHOOSE f : f = Visit(h, head, C, f)
           to(k) == SubSeq(m, 1, k)
<1>1. c = Visit(h, head, C, c)
  BY VisitExists
<1>2. Members(h, head) = c[<<>>]
  <2>1. DOMAIN h = C
    BY DEF Heap
  <2> QED BY <2>1 DEF Members, Visit, Goes, Pos
<1>3. \A seen \in Seq(C) :
         c[seen] = IF Goes(h, head, C, seen) THEN c[Append(seen, Pos(h, head, seen))] ELSE seen
  <2> HIDE DEF c
  <2> QED BY <1>1 DEF Visit
<1> HIDE DEF c
<1>4. /\ n \in Nat
      /\ \A i \in 1 .. n : At(head, m, i) = m[i] /\ m[i] # head /\ m[i] \in C
      /\ At(head, m, 0) = head /\ At(head, m, n + 1) = head
      /\ \A i, j \in 1 .. n : m[i] = m[j] => i = j
  <2>1. DOMAIN m = 1 .. n
    OBVIOUS
  <2>2. \A i, j \in 1 .. n : m[i] = m[j] => i = j
    BY <2>1 DEF Chain, IsInjective
  <2>3. /\ Len(m) \in Nat
        /\ \A i \in 1 .. Len(m) : At(head, m, i) = m[i] /\ m[i] # head /\ m[i] \in C
        /\ At(head, m, 0) = head /\ At(head, m, Len(m) + 1) = head
    BY Places DEF Chain
  <2> QED BY <2>2, <2>3
<1>5. ASSUME NEW k \in 0 .. n
      PROVE  /\ to(k) \in Seq(C) /\ Len(to(k)) = k /\ \A i \in 1 .. k : to(k)[i] = m[i]
             /\ Pos(h, head, to(k)) = At(head, m, k + 1)
  <2>1. /\ to(k) \in Seq(C) /\ Len(to(k)) = k
        /\ \A i \in 1 .. k : to(k)[i] = m[i]
    BY <1>4
  <2>2. CASE k = 0
    <3>1. to(k) = <<>>
      BY <2>1, <2>2
    <3> QED BY <1>4, <2>1, <2>2, <3>1 DEF Pos, Chain
  <2>3. CASE k # 0
    <3>1. to(k) # <<>> /\ Last(to(k)) = At(head, m, k)
      BY <1>4, <2>1, <2>3 DEF Last
    <3> HIDE DEF to
    <3> QED BY <2>1, <3>1 DEF Pos, Chain
  <2> QED BY <2>1, <2>2, <2>3
<1>6. c[to(n)] = m
  <2>1. n \in 0 .. n /\ to(n) = m
    BY <1>4
  <2>2. ~Goes(h, head, C, to(n))
    BY <1>4, <1>5, <2>1 DEF Goes
  <2> HIDE DEF to
  <2> QED BY <1>3, <2>1, <2>2
<1>7. ASSUME NEW k \in 0 .. n - 1 PROVE c[to(k)] = c[to(k + 1)]
  <2>1. k \in 0 .. n /\ k + 1 \in 1 .. n /\ k + 1 \in 0 .. n
    BY <1>4
  <2>2. Pos(h, head, to(k)) = m[k + 1]
    BY <1>4, <1>5, <2>1
  <2>3. m[k + 1] \notin ToSet(to(k))
    <3>1. DOMAIN to(k) = 1 .. k
      BY <1>5, <2>1
    <3>2. \A i \in 1 .. k : i \in 1 .. n /\ i # k + 1
      BY <1>4
    <3> HIDE DEF to
    <3> QED BY <1>4, <1>5, <2>1, <3>1, <3>2 DEF ToSet
  <2>4. Goes(h, head, C, to(k))
    BY <1>4, <2>1, <2>2, <2>3 DEF Goes
  <2>5. Append(to(k), m[k + 1]) = to(k + 1)
    BY <1>4
  <2> HIDE DEF to
  <2> QED BY <1>3, <1>5, <2>1, <2>2, <2>4, <2>5
<1> DEFINE S == {j \in 0 .. n : c[to(n - j)] = m}
<1>8. 0 \in S
  BY <1>4, <1>6
<1>9. \A j \in 0 .. n - 1 : j \in S => j + 1 \in S
  <2> SUFFICES ASSUME NEW j \in 0 .. n - 1, j \in S PROVE j + 1 \in S
    OBVIOUS
  <2>1. n - (j + 1) \in 0 .. n - 1 /\ (n - (j + 1)) + 1 = n - j /\ j + 1 \in 0 .. n
    BY <1>4
  <2> HIDE DEF to
  <2> QED BY <1>7, <2>1
<1>10. n \in S
  <2>1. 0 .. n \subseteq S
    <3> HIDE DEF S, n
    <3> QED BY <1>4, <1>8, <1>9, QT!Induction
  <2> HIDE DEF S
  <2> QED BY <1>4, <2>1
<1>11. c[to(0)] = m
  BY <1>4, <1>10
<1>12. to(0) = <<>>
  BY <1>4
<1> QED BY <1>2, <1>11, <1>12

\* The same for lists of cells.
LEMMA InsertedCells ==
    ASSUME NEW q \in Seq(Cell), NEW e \in Cell, NEW i \in 1 .. Len(q) + 1
    PROVE  /\ InsertAt(q, i, e) \in Seq(Cell)
           /\ Len(InsertAt(q, i, e)) = Len(q) + 1
           /\ \A k \in 1 .. Len(q) + 1 :
                InsertAt(q, i, e)[k] =
                    IF k < i THEN q[k] ELSE IF k = i THEN e ELSE q[k - 1]
           /\ ToSet(InsertAt(q, i, e)) = ToSet(q) \cup {e}
  BY InsertedElements

\* ... when one is taken out.
LEMMA RemovedCells ==
    ASSUME NEW q \in Seq(Cell), NEW i \in 1 .. Len(q)
    PROVE  /\ RemoveAt(q, i) \in Seq(Cell)
           /\ Len(RemoveAt(q, i)) = Len(q) - 1
           /\ \A k \in 1 .. Len(q) - 1 :
                RemoveAt(q, i)[k] = IF k < i THEN q[k] ELSE q[k + 1]
  BY RemovedElements

-----------------------------------------------------------------------------
(* Several lists in one heap *)

Fields == Cell \cup {NoCell}

\* The lists with their heads in H are in h, each consists of L[head], and no two
\* of them share a cell.
Layout(h, H, L) ==
    /\ h \in Heap(Cell, Fields)
    /\ H \in SUBSET Cell /\ L \in [H -> Seq(Cell)]
    /\ \A head \in H : Chain(h, head, L[head])
    /\ \A a, b \in H : a # b => Area(a, L[a]) \cap Area(b, L[b]) = {}

\* A cell is in none of the lists.
Outside(c, H, L) == \A a \in H : c \notin Area(a, L[a])

\* The fields of a cell point to cells, and a step does not make them null.
Full(h, c) == h[c].next \in Cell /\ h[c].prev \in Cell
Keeps(h, g) == \A c \in Cell : Full(h, c) => Full(g, c)

\* The step from h to g puts new into the list at head, which becomes r.
Puts(h, g, H, L, head, new, r) ==
    /\ Layout(g, H, [L EXCEPT ![head] = r]) /\ r \in Seq(Cell)
    /\ ToSet(r) = ToSet(L[head]) \cup {new}
    /\ Keeps(h, g)

\* The step from h to g takes old out of the list at head, which becomes r.
Takes(h, g, H, L, head, old, r) ==
    /\ Layout(g, H, [L EXCEPT ![head] = r]) /\ r \in Seq(Cell)
    /\ ToSet(r) = ToSet(L[head]) \ {old}
    /\ Outside(old, H, [L EXCEPT ![head] = r])
    /\ Keeps(h, g)

\* Two steps that make no pointer null.
LEMMA KeepsAgain ==
    ASSUME NEW h, NEW g, NEW f, Keeps(h, g), Keeps(g, f)
    PROVE  Keeps(h, f)
BY DEF Keeps

\* __list_add makes no pointer null, ...
LEMMA LinkKeeps ==
    ASSUME NEW h \in Heap(Cell, Fields), NEW new \in Cell, NEW prev \in Cell, NEW next \in Cell,
           new # prev, new # next
    PROVE  Keeps(h, link(h, new, prev, next))
<1> DEFINE g == link(h, new, prev, next)
<1>1. \A c \in Cell :
         /\ g[c].next = IF c = prev THEN new ELSE IF c = new THEN next ELSE h[c].next
         /\ g[c].prev = IF c = next THEN new ELSE IF c = new THEN prev ELSE h[c].prev
  <2>1. Cell \subseteq Fields
    BY DEF Fields
  <2> QED BY <2>1, LinkFields
<1> HIDE DEF g
<1>2. Keeps(h, g)
  BY <1>1 DEF Keeps, Full
<1> QED BY <1>2 DEF g

\* ... nor does __list_del.
LEMMA UnlinkKeeps ==
    ASSUME NEW h \in Heap(Cell, Fields), NEW prev \in Cell, NEW next \in Cell
    PROVE  Keeps(h, unlink(h, prev, next))
<1> DEFINE g == unlink(h, prev, next)
<1>1. \A c \in Cell : /\ g[c].next = IF c = prev THEN next ELSE h[c].next
                     /\ g[c].prev = IF c = next THEN prev ELSE h[c].prev
  <2>1. Cell \subseteq Fields
    BY DEF Fields
  <2> QED BY <2>1, UnlinkFields
<1> HIDE DEF g
<1>2. Keeps(h, g)
  BY <1>1 DEF Keeps, Full
<1> QED BY <1>2 DEF g

\* What is outside of a layout, when one of its lists is replaced.
LEMMA OutsideExcept ==
    ASSUME NEW H, NEW L \in [H -> Seq(Cell)], NEW head \in H, NEW r \in Seq(Cell), NEW c
    PROVE  Outside(c, H, [L EXCEPT ![head] = r]) <=>
              /\ c \notin Area(head, r)
              /\ \A a \in H : a # head => c \notin Area(a, L[a])
BY DEF Outside

\* A layout in which one list is replaced and the cells of the others are left
\* alone.
LEMMA ReplaceLayout ==
    ASSUME NEW h, NEW H, NEW L, Layout(h, H, L), NEW head \in H, NEW r \in Seq(Cell),
           NEW g \in Heap(Cell, Fields), Chain(g, head, r),
           \A a \in H : a # head => /\ Area(a, L[a]) \cap Area(head, r) = {}
                                    /\ \A c \in Area(a, L[a]) : Same(h, g, c)
    PROVE  Layout(g, H, [L EXCEPT ![head] = r])
<1> DEFINE K == [L EXCEPT ![head] = r]
<1>1. /\ L \in [H -> Seq(Cell)] /\ H \in SUBSET Cell
      /\ \A a \in H : Chain(h, a, L[a])
      /\ \A a, b \in H : a # b => Area(a, L[a]) \cap Area(b, L[b]) = {}
  BY DEF Layout
<1>2. /\ K \in [H -> Seq(Cell)] /\ K[head] = r
      /\ \A a \in H : a # head => K[a] = L[a]
  BY <1>1
<1> HIDE DEF K
<1>3. ASSUME NEW a \in H PROVE Chain(g, a, K[a])
  <2>1. CASE a = head
    BY <1>2, <2>1
  <2>2. CASE a # head
    <3>1. a \in Cell /\ L[a] \in Seq(Cell) /\ \A c \in Area(a, L[a]) : Same(h, g, c)
      BY <1>1, <2>2
    <3>2. Chain(g, a, L[a])
      BY <1>1, <3>1, FrameChain
    <3> QED BY <1>2, <2>2, <3>2
  <2> QED BY <2>1, <2>2
<1>4. ASSUME NEW a \in H, NEW b \in H, a # b
      PROVE  Area(a, K[a]) \cap Area(b, K[b]) = {}
  <2>1. CASE a = head
    BY <1>2, <1>4, <2>1
  <2>2. CASE b = head
    BY <1>2, <1>4, <2>2
  <2>3. CASE a # head /\ b # head
    BY <1>1, <1>2, <1>4, <2>3
  <2> QED BY <2>1, <2>2, <2>3
<1> QED BY <1>1, <1>2, <1>3, <1>4 DEF Layout, K

\* __list_add in front of the i-th place of a list.
LEMMA LinkLayout ==
    ASSUME NEW h, NEW H, NEW L, Layout(h, H, L), NEW head \in H,
           NEW i \in 1 .. Len(L[head]) + 1, NEW new \in Cell, Outside(new, H, L)
    PROVE  /\ h[At(head, L[head], i)].prev = At(head, L[head], i - 1)
           /\ h[At(head, L[head], i - 1)].next = At(head, L[head], i)
           /\ Puts(h, link(h, new, At(head, L[head], i - 1), At(head, L[head], i)),
                   H, L, head, new, InsertAt(L[head], i, new))
<1> DEFINE m == L[head]
           g == link(h, new, At(head, m, i - 1), At(head, m, i))
           r == InsertAt(m, i, new)
<1>1. /\ h \in Heap(Cell, Fields) /\ Cell \subseteq Fields /\ head \in Cell /\ m \in Seq(Cell)
      /\ Chain(h, head, m) /\ new \notin Area(head, m)
  BY DEF Layout, Outside, Fields
<1> HIDE DEF m
<1>2. i \in 1 .. Len(m) + 1
  BY DEF m
<1>3. /\ g \in Heap(Cell, Fields) /\ r \in Seq(Cell) /\ Chain(g, head, r)
      /\ Area(head, r) = Area(head, m) \cup {new}
      /\ \A c \in Cell \ Area(head, r) : Same(h, g, c)
  BY <1>1, <1>2, LinkChain
<1>4. ToSet(r) = ToSet(m) \cup {new}
  BY <1>1, <1>2, InsertedElements
<1>5. /\ At(head, m, i - 1) \in Cell /\ At(head, m, i) \in Cell
      /\ At(head, m, i - 1) # new /\ At(head, m, i) # new
      /\ h[At(head, m, i)].prev = At(head, m, i - 1)
      /\ h[At(head, m, i - 1)].next = At(head, m, i)
  <2>1. /\ Len(m) \in Nat
        /\ \A k \in 0 .. Len(m) + 1 : At(head, m, k) \in Area(head, m) /\ At(head, m, k) \in Cell
    BY <1>1, Places DEF Chain
  <2>2. i - 1 \in 0 .. Len(m) /\ (i - 1) + 1 = i /\ i - 1 \in 0 .. Len(m) + 1
        /\ i \in 0 .. Len(m) + 1
    BY <1>2, <2>1
  <2> QED BY <1>1, <2>1, <2>2 DEF Chain
<1>6. Keeps(h, g)
  BY <1>1, <1>5, LinkKeeps
<1> HIDE DEF g, r
<1>7. Layout(g, H, [L EXCEPT ![head] = r])
  <2> SUFFICES ASSUME NEW a \in H, a # head
               PROVE  /\ Area(a, L[a]) \cap Area(head, r) = {}
                      /\ \A c \in Area(a, L[a]) : Same(h, g, c)
    BY <1>3, ReplaceLayout
  <2>1. Area(a, L[a]) \cap Area(head, m) = {} /\ new \notin Area(a, L[a])
    BY DEF Layout, Outside, m
  <2>2. Area(a, L[a]) \subseteq Cell
    <3>1. a \in Cell /\ L[a] \in Seq(Cell) /\ Chain(h, a, L[a])
      BY DEF Layout
    <3> QED BY <3>1, Places DEF Chain, Area
  <2> QED BY <1>3, <2>1, <2>2
<1> QED BY <1>3, <1>4, <1>5, <1>6, <1>7 DEF m, g, r, Puts

\* list_add_tail in front of a cell of a list, or of its head.
LEMMA AddBeforeLayout ==
    ASSUME NEW h, NEW H, NEW L, Layout(h, H, L), NEW head \in H,
           NEW i \in 1 .. Len(L[head]) + 1, NEW new \in Cell, Outside(new, H, L)
    PROVE  Puts(h, list_add_tail(h, new, At(head, L[head], i)),
                H, L, head, new, InsertAt(L[head], i, new))
<1>1. list_add_tail(h, new, At(head, L[head], i)) =
         link(h, new, At(head, L[head], i - 1), At(head, L[head], i))
  BY LinkLayout DEF list_add_tail
<1> QED BY <1>1, LinkLayout

\* Behind the last place is at the tail.
LEMMA InsertedAtTail ==
    ASSUME NEW S, NEW q \in Seq(S), NEW e \in S
    PROVE  InsertAt(q, Len(q) + 1, e) = Append(q, e)
<1> DEFINE r == InsertAt(q, Len(q) + 1, e)
           s == Append(q, e)
<1>1. Len(q) \in Nat /\ Len(q) + 1 \in 1 .. Len(q) + 1
  OBVIOUS
<1>2. /\ r \in Seq(S) /\ Len(r) = Len(q) + 1
      /\ \A k \in 1 .. Len(q) + 1 : r[k] = IF k < Len(q) + 1 THEN q[k]
                                           ELSE IF k = Len(q) + 1 THEN e ELSE q[k - 1]
  <2>1. ASSUME NEW i \in 1 .. Len(q) + 1
        PROVE  /\ InsertAt(q, i, e) \in Seq(S) /\ Len(InsertAt(q, i, e)) = Len(q) + 1
               /\ \A k \in 1 .. Len(q) + 1 :
                    InsertAt(q, i, e)[k] = IF k < i THEN q[k] ELSE IF k = i THEN e ELSE q[k - 1]
    BY InsertedElements
  <2> QED BY <1>1, <2>1
<1> HIDE DEF r
<1>3. /\ s \in Seq(S) /\ Len(s) = Len(q) + 1 /\ s[Len(q) + 1] = e
      /\ \A k \in 1 .. Len(q) : s[k] = q[k]
  OBVIOUS
<1> HIDE DEF s
<1>4. ASSUME NEW k \in 1 .. Len(q) + 1 PROVE r[k] = s[k]
  <2>1. CASE k < Len(q) + 1
    <3>1. k \in 1 .. Len(q)
      BY <1>1, <2>1
    <3> QED BY <1>2, <1>3, <2>1, <3>1
  <2>2. CASE k = Len(q) + 1
    BY <1>1, <1>2, <1>3, <2>2
  <2> QED BY <1>1, <2>1, <2>2
<1>5. r = s
  BY <1>2, <1>3, <1>4
<1> QED BY <1>5 DEF r, s

\* list_add_tail to a list.
LEMMA AddTailLayout ==
    ASSUME NEW h, NEW H, NEW L, Layout(h, H, L), NEW head \in H,
           NEW new \in Cell, Outside(new, H, L)
    PROVE  Puts(h, list_add_tail(h, new, head), H, L, head, new, Append(L[head], new))
<1>1. L[head] \in Seq(Cell) /\ head \in Cell /\ Chain(h, head, L[head])
  BY DEF Layout
<1>2. Len(L[head]) + 1 \in 1 .. Len(L[head]) + 1 /\ At(head, L[head], Len(L[head]) + 1) = head
  BY <1>1, Places DEF Chain
<1>3. InsertAt(L[head], Len(L[head]) + 1, new) = Append(L[head], new)
  BY <1>1, InsertedAtTail
<1>4. ASSUME NEW i \in 1 .. Len(L[head]) + 1
      PROVE  Puts(h, list_add_tail(h, new, At(head, L[head], i)),
                  H, L, head, new, InsertAt(L[head], i, new))
  BY AddBeforeLayout
<1> QED BY <1>2, <1>3, <1>4

\* list_add to a list.
LEMMA AddLayout ==
    ASSUME NEW h, NEW H, NEW L, Layout(h, H, L), NEW head \in H,
           NEW new \in Cell, Outside(new, H, L)
    PROVE  Puts(h, list_add(h, new, head), H, L, head, new, InsertAt(L[head], 1, new))
<1>1. L[head] \in Seq(Cell) /\ head \in Cell /\ Chain(h, head, L[head])
  BY DEF Layout
<1>2. 1 \in 1 .. Len(L[head]) + 1 /\ 1 - 1 = 0 /\ At(head, L[head], 0) = head
      /\ h[head].next = At(head, L[head], 1)
  BY <1>1, Places, EmptyList DEF Chain
<1>3. ASSUME NEW i \in 1 .. Len(L[head]) + 1
      PROVE  Puts(h, link(h, new, At(head, L[head], i - 1), At(head, L[head], i)),
                  H, L, head, new, InsertAt(L[head], i, new))
  BY LinkLayout
<1>4. list_add(h, new, head) = link(h, new, At(head, L[head], 1 - 1), At(head, L[head], 1))
  BY <1>2 DEF list_add
<1> QED BY <1>2, <1>3, <1>4

\* __list_del of the neighbours of a cell.
LEMMA UnlinkLayout ==
    ASSUME NEW h, NEW H, NEW L, Layout(h, H, L), NEW head \in H, NEW i \in 1 .. Len(L[head])
    PROVE  /\ h[L[head][i]].prev = At(head, L[head], i - 1)
           /\ h[L[head][i]].next = At(head, L[head], i + 1)
           /\ L[head][i] \in Cell /\ L[head][i] \in ToSet(L[head])
           /\ Takes(h, unlink(h, At(head, L[head], i - 1), At(head, L[head], i + 1)),
                    H, L, head, L[head][i], RemoveAt(L[head], i))
<1> DEFINE m == L[head]
           g == unlink(h, At(head, m, i - 1), At(head, m, i + 1))
           r == RemoveAt(m, i)
           K == [L EXCEPT ![head] = r]
<1>1. /\ h \in Heap(Cell, Fields) /\ Cell \subseteq Fields /\ head \in Cell /\ m \in Seq(Cell)
      /\ Chain(h, head, m) /\ L \in [H -> Seq(Cell)]
  BY DEF Layout, Fields
<1> HIDE DEF m
<1>2. i \in 1 .. Len(m)
  BY DEF m
<1>3. /\ g \in Heap(Cell, Fields) /\ r \in Seq(Cell) /\ Chain(g, head, r)
      /\ Area(head, r) = Area(head, m) \ {m[i]}
      /\ \A c \in Cell \ Area(head, r) : Same(h, g, c)
      /\ h[m[i]].prev = At(head, m, i - 1) /\ h[m[i]].next = At(head, m, i + 1)
  BY <1>1, <1>2, UnlinkChain
<1>4. ToSet(r) = ToSet(m) \ {m[i]}
  BY <1>1, <1>2, RemovedElements DEF Chain
<1>5. /\ At(head, m, i - 1) \in Cell /\ At(head, m, i + 1) \in Cell
      /\ m[i] \in ToSet(m) /\ m[i] \in Cell /\ m[i] \in Area(head, m)
  <2>1. /\ Len(m) \in Nat
        /\ \A k \in 0 .. Len(m) + 1 : At(head, m, k) \in Area(head, m) /\ At(head, m, k) \in Cell
        /\ \A k \in 1 .. Len(m) : m[k] \in ToSet(m) /\ m[k] \in Cell
    BY <1>1, Places DEF Chain
  <2>2. i - 1 \in 0 .. Len(m) + 1 /\ i + 1 \in 0 .. Len(m) + 1
    BY <1>2, <2>1
  <2> QED BY <1>2, <2>1, <2>2 DEF Area
<1>6. Keeps(h, g)
  BY <1>1, <1>5, UnlinkKeeps
<1> HIDE DEF g, r
<1>7. ASSUME NEW a \in H, a # head
      PROVE  /\ Area(a, L[a]) \cap Area(head, r) = {} /\ m[i] \notin Area(a, L[a])
             /\ \A c \in Area(a, L[a]) : Same(h, g, c)
  <2>1. Area(a, L[a]) \cap Area(head, m) = {}
    BY <1>7 DEF Layout, m
  <2>2. Area(a, L[a]) \subseteq Cell
    <3>1. a \in Cell /\ L[a] \in Seq(Cell) /\ Chain(h, a, L[a])
      BY DEF Layout
    <3> QED BY <3>1, Places DEF Chain, Area
  <2> QED BY <1>3, <1>5, <2>1, <2>2
<1>8. Layout(g, H, K)
  BY <1>3, <1>7, ReplaceLayout
<1>9. Outside(m[i], H, K)
  BY <1>1, <1>3, <1>7, OutsideExcept
<1> QED BY <1>3, <1>4, <1>5, <1>6, <1>8, <1>9 DEF m, g, r, Takes

\* INIT_LIST_HEAD of a cell that is in no list.
LEMMA InitLayout ==
    ASSUME NEW h, NEW H, NEW L, Layout(h, H, L), NEW cell \in Cell, Outside(cell, H, L)
    PROVE  /\ Layout(INIT_LIST_HEAD(h, cell), H, L)
           /\ Chain(INIT_LIST_HEAD(h, cell), cell, <<>>)
           /\ Keeps(h, INIT_LIST_HEAD(h, cell)) /\ Full(INIT_LIST_HEAD(h, cell), cell)
<1> DEFINE g == INIT_LIST_HEAD(h, cell)
<1>1. h \in Heap(Cell, Fields) /\ Cell \subseteq Fields
  BY DEF Layout, Fields
<1>2. /\ g \in Heap(Cell, Fields)
      /\ \A c \in Cell : /\ g[c].next = IF c = cell THEN cell ELSE h[c].next
                         /\ g[c].prev = IF c = cell THEN cell ELSE h[c].prev
  BY <1>1, InitFields
<1> HIDE DEF g
<1>3. ASSUME NEW a \in H PROVE Chain(g, a, L[a])
  <2>1. a \in Cell /\ L[a] \in Seq(Cell) /\ Chain(h, a, L[a])
    BY DEF Layout
  <2>2. Area(a, L[a]) \subseteq Cell
    BY <2>1, Places DEF Chain, Area
  <2>3. \A c \in Area(a, L[a]) : Same(h, g, c)
    BY <1>2, <2>2 DEF Same, Outside
  <2> QED BY <2>1, <2>3, FrameChain
<1>4. Layout(g, H, L)
  BY <1>2, <1>3 DEF Layout
<1>5. g[cell].next = cell /\ g[cell].prev = cell
  BY <1>2
<1>6. Chain(g, cell, <<>>)
  BY <1>5, EmptyChain
<1>7. Keeps(h, g) /\ Full(g, cell)
  BY <1>2, <1>5 DEF Keeps, Full
<1> QED BY <1>4, <1>6, <1>7 DEF g

\* Of an empty list, it changes nothing.
LEMMA InitEmpty ==
    ASSUME NEW h \in Heap(Cell, Fields), NEW cell \in Cell, Chain(h, cell, <<>>)
    PROVE  INIT_LIST_HEAD(h, cell) = h /\ Full(h, cell)
<1>1. h[cell].next = cell /\ h[cell].prev = cell
  <2>1. 0 \in 0 .. Len(<<>>) /\ At(cell, <<>>, 0) = cell /\ At(cell, <<>>, 0 + 1) = cell
    BY DEF At
  <2> QED BY <2>1 DEF Chain
<1>2. h[cell] \in [next : Fields, prev : Fields]
  BY DEF Heap
<1>3. h[cell] = [next |-> cell, prev |-> cell]
  BY <1>1, <1>2
<1>4. [h EXCEPT ![cell] = [next |-> cell, prev |-> cell]] = h
  BY <1>3 DEF Heap
<1> QED BY <1>1, <1>4 DEF INIT_LIST_HEAD, Full

\* list_del of a cell of a list.
LEMMA DelLayout ==
    ASSUME NEW h, NEW H, NEW L, Layout(h, H, L), NEW head \in H, NEW i \in 1 .. Len(L[head])
    PROVE  /\ Takes(h, list_del(h, L[head][i]), H, L, head, L[head][i], RemoveAt(L[head], i))
           /\ Chain(list_del(h, L[head][i]), L[head][i], <<>>)
           /\ L[head][i] \in Cell /\ Full(list_del(h, L[head][i]), L[head][i])
<1> DEFINE cell == L[head][i]
           g == unlink(h, At(head, L[head], i - 1), At(head, L[head], i + 1))
           f == INIT_LIST_HEAD(g, cell)
           r == RemoveAt(L[head], i)
           K == [L EXCEPT ![head] = r]
<1>1. cell \in Cell /\ Takes(h, g, H, L, head, cell, r) /\ f = list_del(h, cell)
  BY UnlinkLayout DEF list_del
<1> HIDE DEF cell, g, f, r
<1>2. Layout(g, H, K) /\ Outside(cell, H, K) /\ Keeps(h, g)
  BY <1>1 DEF Takes
<1> HIDE DEF K
<1>3. Layout(f, H, K) /\ Chain(f, cell, <<>>) /\ Keeps(g, f) /\ Full(f, cell)
  BY <1>1, <1>2, InitLayout DEF f
<1>4. Keeps(h, f)
  BY <1>2, <1>3, KeepsAgain
<1>5. Takes(h, f, H, L, head, cell, r)
  BY <1>1, <1>2, <1>3, <1>4 DEF Takes, K
<1> QED BY <1>1, <1>3, <1>5 DEF cell, r

\* One list more, which is empty; and some of the lists.
OneMore(H, L, cell) == [a \in H \cup {cell} |-> IF a = cell THEN <<>> ELSE L[a]]
Some(G, L) == [a \in G |-> L[a]]

\* An empty list outside of the layout is one more list of it.
LEMMA OneMoreList ==
    ASSUME NEW h, NEW H, NEW L, Layout(h, H, L), NEW cell \in Cell, Outside(cell, H, L),
           Chain(h, cell, <<>>)
    PROVE  Layout(h, H \cup {cell}, OneMore(H, L, cell))
<1> DEFINE G == H \cup {cell}
           K == OneMore(H, L, cell)
<1>1. /\ h \in Heap(Cell, Fields) /\ H \in SUBSET Cell /\ L \in [H -> Seq(Cell)]
      /\ \A a \in H : Chain(h, a, L[a])
      /\ \A a, b \in H : a # b => Area(a, L[a]) \cap Area(b, L[b]) = {}
  BY DEF Layout
<1>2. cell \notin H /\ Area(cell, <<>>) = {cell} /\ \A a \in H : cell \notin Area(a, L[a])
  BY DEF Outside, Area, ToSet
<1>3. /\ G \in SUBSET Cell /\ K \in [G -> Seq(Cell)] /\ K[cell] = <<>>
      /\ \A a \in H : K[a] = L[a] /\ a \in G /\ a # cell
  BY <1>1, <1>2 DEF OneMore
<1>4. \A a \in G : a = cell \/ a \in H
  OBVIOUS
<1> HIDE DEF G, K
<1>5. \A a \in G : Chain(h, a, K[a])
  BY <1>1, <1>3, <1>4
<1>6. \A a, b \in G : a # b => Area(a, K[a]) \cap Area(b, K[b]) = {}
  BY <1>1, <1>2, <1>3, <1>4
<1>7. Layout(h, G, K)
  BY <1>1, <1>3, <1>5, <1>6 DEF Layout
<1> QED BY <1>7 DEF G, K

\* Some of the lists of a layout.
LEMMA FewerLists ==
    ASSUME NEW h, NEW H, NEW L, Layout(h, H, L), NEW G \in SUBSET H
    PROVE  Layout(h, G, Some(G, L))
BY DEF Layout, Some

\* What the cells of a list are, and what list_for_each makes of it.
LEMMA ListFacts ==
    ASSUME NEW h, NEW H, NEW L, Layout(h, H, L), NEW head \in H
    PROVE  /\ head \in Cell /\ L[head] \in Seq(Cell) /\ Len(L[head]) \in Nat
           /\ IsInjective(L[head]) /\ head \notin ToSet(L[head]) /\ ToSet(L[head]) \subseteq Cell
           /\ \A i \in 1 .. Len(L[head]) : L[head][i] \in ToSet(L[head]) /\ L[head][i] \in Cell
           /\ \A c \in ToSet(L[head]) : \E i \in 1 .. Len(L[head]) : c = L[head][i]
           /\ DOMAIN L[head] = 1 .. Len(L[head])
           /\ \A c \in Area(head, L[head]) : Full(h, c)
           /\ Rings(h, Area(head, L[head]))
           /\ list_empty(h, head) <=> L[head] = <<>>
           /\ L[head] # <<>> => 1 \in 1 .. Len(L[head]) /\ h[head].next = L[head][1]
           /\ h[head].prev = At(head, L[head], Len(L[head]))
<1>1. head \in Cell /\ L[head] \in Seq(Cell) /\ Chain(h, head, L[head])
  BY DEF Layout
<1>2. IsInjective(L[head]) /\ head \notin ToSet(L[head]) /\ DOMAIN L[head] = 1 .. Len(L[head])
  BY <1>1 DEF Chain
<1>3. /\ Len(L[head]) \in Nat /\ ToSet(L[head]) \subseteq Cell
      /\ \A i \in 1 .. Len(L[head]) : L[head][i] \in ToSet(L[head]) /\ L[head][i] \in Cell
      /\ \A c \in ToSet(L[head]) : \E i \in 1 .. Len(L[head]) : c = L[head][i]
  BY <1>1, <1>2, Places
<1>4. Rings(h, Area(head, L[head])) /\ Area(head, L[head]) \subseteq Cell
  BY <1>1, <1>3, ChainRings DEF Area
<1>5. \A c \in Area(head, L[head]) : Full(h, c)
  BY <1>4 DEF Rings, Full
<1>6. /\ list_empty(h, head) <=> L[head] = <<>>
      /\ L[head] # <<>> => h[head].next = L[head][1] /\ Len(L[head]) > 0
      /\ h[head].prev = At(head, L[head], Len(L[head]))
  BY <1>1, EmptyList
<1> QED BY <1>1, <1>2, <1>3, <1>4, <1>5, <1>6

\* Members reads each list of a layout.
LEMMA ListMembers ==
    ASSUME IsFiniteSet(Cell), NEW h, NEW H, NEW L, Layout(h, H, L), NEW head \in H
    PROVE  Members(h, head) = L[head]
<1>1. /\ h \in Heap(Cell, Fields) /\ head \in Cell /\ L[head] \in Seq(Cell)
      /\ Chain(h, head, L[head])
  BY DEF Layout
<1> QED BY <1>1, ChainMembers

-----------------------------------------------------------------------------
(* The cells *)

Kind(c) == c[1]

\* The heads in static storage are finitely many.
LEMMA FourFinite ==
    ASSUME NEW a, NEW b, NEW c, NEW d
    PROVE  IsFiniteSet({a, b, c, d})
<1>1. IsFiniteSet({} \cup {a})
  BY FS_EmptySet, FS_AddElement
<1>2. IsFiniteSet(({} \cup {a}) \cup {b})
  BY <1>1, FS_AddElement
<1>3. IsFiniteSet((({} \cup {a}) \cup {b}) \cup {c})
  BY <1>2, FS_AddElement
<1>4. IsFiniteSet(((({} \cup {a}) \cup {b}) \cup {c}) \cup {d})
  BY <1>3, FS_AddElement
<1>5. ((({} \cup {a}) \cup {b}) \cup {c}) \cup {d} = {a, b, c, d}
  OBVIOUS
<1> QED BY <1>4, <1>5

\* The fields of PCBs and descriptors are cells, all different.
LEMMA Cells ==
    /\ IsFiniteSet(Cell)
    /\ pcbFree_h \in Cell /\ semdFree_h \in Cell /\ semd_h \in Cell /\ ready_queue \in Cell
    /\ Kind(pcbFree_h) = "pcbFree_h" /\ Kind(semdFree_h) = "semdFree_h"
    /\ Kind(semd_h) = "semd_h" /\ Kind(ready_queue) = "ready_queue"
    /\ \A p \in Pcb :
          /\ p_list(p) \in Cell /\ Kind(p_list(p)) = "p_list" /\ container_of(p_list(p)) = p
          /\ p_child(p) \in Cell /\ Kind(p_child(p)) = "p_child" /\ container_of(p_child(p)) = p
          /\ p_sib(p) \in Cell /\ Kind(p_sib(p)) = "p_sib" /\ container_of(p_sib(p)) = p
    /\ \A d \in Semd :
          /\ s_link(d) \in Cell /\ Kind(s_link(d)) = "s_link" /\ container_of(s_link(d)) = d
          /\ s_procq(d) \in Cell /\ Kind(s_procq(d)) = "s_procq" /\ container_of(s_procq(d)) = d
<1>1. IsFiniteSet(Cell)
  <2>1. IsFiniteSet(Pcb) /\ IsFiniteSet(Semd)
    BY MaxprocAssumption, FS_Interval DEF Pcb, Semd
  <2>2. IsFiniteSet({"p_list", "p_child", "p_sib"}) /\ IsFiniteSet({"s_link", "s_procq"})
    <3>1. IsFiniteSet({"p_list", "p_child", "p_sib", "p_sib"})
      BY FourFinite
    <3>2. IsFiniteSet({"s_link", "s_procq", "s_procq", "s_procq"})
      BY FourFinite
    <3>3. /\ {"p_list", "p_child", "p_sib", "p_sib"} = {"p_list", "p_child", "p_sib"}
          /\ {"s_link", "s_procq", "s_procq", "s_procq"} = {"s_link", "s_procq"}
      OBVIOUS
    <3> QED BY <3>1, <3>2, <3>3
  <2>3. /\ IsFiniteSet({"p_list", "p_child", "p_sib"} \X Pcb)
        /\ IsFiniteSet({"s_link", "s_procq"} \X Semd)
    BY <2>1, <2>2, FS_Product
  <2>4. IsFiniteSet({pcbFree_h, semdFree_h, semd_h, ready_queue})
    BY FourFinite
  <2>5. IsFiniteSet(({"p_list", "p_child", "p_sib"} \X Pcb) \cup ({"s_link", "s_procq"} \X Semd))
    BY <2>3, FS_Union
  <2> QED BY <2>3, <2>4, FS_Union DEF Cell
<1>2. /\ pcbFree_h \in Cell /\ semdFree_h \in Cell /\ semd_h \in Cell /\ ready_queue \in Cell
  BY DEF Cell
<1>3. /\ Kind(pcbFree_h) = "pcbFree_h" /\ Kind(semdFree_h) = "semdFree_h"
      /\ Kind(semd_h) = "semd_h" /\ Kind(ready_queue) = "ready_queue"
  BY DEF Kind, pcbFree_h, semdFree_h, semd_h, ready_queue
<1>4. ASSUME NEW p \in Pcb
      PROVE  /\ p_list(p) \in Cell /\ Kind(p_list(p)) = "p_list" /\ container_of(p_list(p)) = p
             /\ p_child(p) \in Cell /\ Kind(p_child(p)) = "p_child" /\ container_of(p_child(p)) = p
             /\ p_sib(p) \in Cell /\ Kind(p_sib(p)) = "p_sib" /\ container_of(p_sib(p)) = p
  BY DEF Cell, Kind, container_of, p_list, p_child, p_sib
<1>5. ASSUME NEW d \in Semd
      PROVE  /\ s_link(d) \in Cell /\ Kind(s_link(d)) = "s_link" /\ container_of(s_link(d)) = d
             /\ s_procq(d) \in Cell /\ Kind(s_procq(d)) = "s_procq" /\ container_of(s_procq(d)) = d
  BY DEF Cell, Kind, container_of, s_link, s_procq
<1> QED BY <1>1, <1>2, <1>3, <1>4, <1>5
=============================================================================
