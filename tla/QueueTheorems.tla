--------------------------- MODULE QueueTheorems ---------------------------
(***************************************************************************)
(* What the operators of Queues return, for every queue: they lose nobody, *)
(* they invent nobody, they put nobody in twice, and whoever comes in      *)
(* stands behind its equals.                                               *)
(***************************************************************************)
EXTENDS Queues, FiniteSetTheorems, WellFoundedInduction, TLAPS

-----------------------------------------------------------------------------
(* Induction, as a statement about a set of numbers *)

\* A non-empty set of natural numbers has a least element.
LEMMA LeastElement ==
  ASSUME NEW S \in SUBSET Nat, S # {}
  PROVE  \E m \in S : \A k \in S : m <= k
<1> DEFINE R == {ss \in Nat \X Nat : ss[1] < ss[2]}
<1>1. IsWellFoundedOn(R, Nat)
  BY NatLessThanWellFounded, Zenon DEF OpToRel
<1>2. PICK m \in S : \A k \in S : ~ (<<k, m>> \in R)
  BY <1>1, WFMin, Zenon
<1>3. ASSUME NEW k \in S PROVE m <= k
  <2>1. m \in Nat /\ k \in Nat  OBVIOUS
  <2>2. k < m => <<k, m>> \in R
    BY <2>1
  <2>3. QED  BY <1>2, <2>1, <2>2
<1>4. QED  BY <1>3

\* A set of numbers up to n that has 0 and, with each k below n, k + 1, has
\* them all.
LEMMA Induction ==
  ASSUME NEW n \in Nat, NEW S,
         0 \in S,
         \A k \in 0 .. n - 1 : k \in S => k + 1 \in S
  PROVE  0 .. n \subseteq S
<1> DEFINE Bad == (0 .. n) \ S
<1>1. ASSUME Bad # {} PROVE FALSE
  <2>1. Bad \in SUBSET Nat  OBVIOUS
  <2>2. PICK m \in Bad : \A k \in Bad : m <= k
    BY <1>1, <2>1, LeastElement
  <2>3. m \in 1 .. n
    BY <2>2
  <2>4. m - 1 \in 0 .. n - 1 /\ m - 1 \notin Bad
    BY <2>2, <2>3
  <2>5. (m - 1) + 1 \in S
    BY <2>4
  <2>6. (m - 1) + 1 = m
    BY <2>3
  <2>7. QED  BY <2>2, <2>5, <2>6
<1>2. QED  BY <1>1

\* g is the function on 0 .. n that starts with a and goes on with step.
IsRecursion(g, n, A, a, step) ==
    /\ g \in [0 .. n -> A]
    /\ \A k \in 0 .. n : g[k] = IF k = 0 THEN a ELSE step[k][g[k - 1]]

\* A recursive function on 0 .. n exists, for any step.
LEMMA RecursionExists ==
  ASSUME NEW n \in Nat, NEW A, NEW a \in A, NEW step,
         \A k \in 1 .. n : \A x \in A : step[k][x] \in A
  PROVE  \E g : IsRecursion(g, n, A, a, step)
<1> DEFINE Up(m, g) ==
             /\ g \in [0 .. m -> A]
             /\ \A k \in 0 .. m :
                  g[k] = IF k = 0 THEN a ELSE step[k][g[k - 1]]
           Good == {m \in 0 .. n : \E g : Up(m, g)}
<1>1. 0 \in Good
  <2>1. Up(0, [k \in 0 .. 0 |-> a])  OBVIOUS
  <2>2. \E g : Up(0, g)
    <3> HIDE DEF Up
    <3>1. QED  BY <2>1
  <2>3. QED  BY <2>2
<1>2. ASSUME NEW l \in 0 .. n - 1, l \in Good PROVE l + 1 \in Good
  <2> DEFINE m == l + 1
  <2>1. m \in 1 .. n /\ m - 1 = l /\ m # 0
    OBVIOUS
  <2>2. PICK g : Up(l, g)
    BY <1>2
  <2> DEFINE h == [k \in 0 .. m |-> IF k = m THEN step[m][g[l]] ELSE g[k]]
  <2>3. g[l] \in A
    BY <2>2
  <2>4. step[m][g[l]] \in A
    BY <2>1, <2>3
  <2>5. h \in [0 .. m -> A]
    BY <2>2, <2>4
  <2>6. ASSUME NEW k \in 0 .. m
        PROVE  h[k] = IF k = 0 THEN a ELSE step[k][h[k - 1]]
    <3>1. CASE k = m
      <4>1. h[k - 1] = g[l]
        BY <3>1, <2>1
      <4>2. h[k] = step[k][g[l]]
        BY <3>1
      <4>3. QED  BY <3>1, <4>1, <4>2, <2>1
    <3>2. CASE k # m
      <4>1. g[k] = IF k = 0 THEN a ELSE step[k][g[k - 1]]
        BY <3>2, <2>2
      <4>2. k # 0 => h[k - 1] = g[k - 1]
        BY <3>2
      <4>3. QED  BY <4>1, <4>2, <3>2
    <3>3. QED  BY <3>1, <3>2
  <2>7. Up(m, h)
    BY <2>5, <2>6
  <2>8. \E u : Up(m, u)
    <3> HIDE DEF Up, h
    <3>1. QED  BY <2>7
  <2>9. m \in 0 .. n
    BY <2>1
  <2>10. QED
    <3> HIDE DEF Up
    <3>1. QED  BY <2>8, <2>9
<1>3. n \in Good
  <2>1. 0 .. n \subseteq Good
    <3> HIDE DEF Good
    <3>1. QED  BY <1>1, <1>2, Induction
  <2>2. QED  BY <2>1
<1>4. QED  BY <1>3 DEF IsRecursion

-----------------------------------------------------------------------------
(* InsertAt and insertProcQ *)

\* The elements of a concatenation.
LEMMA ConcatFacts ==
  ASSUME NEW S, NEW a \in Seq(S), NEW b \in Seq(S)
  PROVE  /\ a \o b \in Seq(S)
         /\ Len(a \o b) = Len(a) + Len(b)
         /\ \A k \in 1 .. Len(a) + Len(b) :
               (a \o b)[k] = IF k <= Len(a) THEN a[k] ELSE b[k - Len(a)]
OBVIOUS

\* The place of each element after an insertion.
LEMMA InsertAtElements ==
  ASSUME NEW S, NEW q \in Seq(S), NEW e \in S, NEW i \in 1 .. Len(q) + 1
  PROVE  /\ InsertAt(q, i, e) \in Seq(S)
         /\ Len(InsertAt(q, i, e)) = Len(q) + 1
         /\ \A k \in 1 .. Len(q) + 1 :
              InsertAt(q, i, e)[k] =
                 IF k < i THEN q[k] ELSE IF k = i THEN e ELSE q[k - 1]
<1> DEFINE a == SubSeq(q, 1, i - 1)
           b == SubSeq(q, i, Len(q))
           c == a \o <<e>>
<1>1. /\ a \in Seq(S) /\ Len(a) = i - 1
      /\ \A k \in 1 .. i - 1 : a[k] = q[k]
  OBVIOUS
<1>2. /\ b \in Seq(S) /\ Len(b) = Len(q) - i + 1
      /\ \A k \in 1 .. Len(q) - i + 1 : b[k] = q[i + k - 1]
  OBVIOUS
<1> HIDE DEF a, b
<1>3. /\ c \in Seq(S) /\ Len(c) = i
      /\ \A k \in 1 .. i : c[k] = IF k < i THEN a[k] ELSE e
  BY <1>1
<1> HIDE DEF c
<1>4. /\ c \o b \in Seq(S) /\ Len(c \o b) = Len(q) + 1
      /\ \A k \in 1 .. Len(q) + 1 : (c \o b)[k] = IF k <= i THEN c[k] ELSE b[k - i]
  <2>1. c \in Seq(S) /\ b \in Seq(S)
    BY <1>2, <1>3
  <2>2. /\ c \o b \in Seq(S)
        /\ Len(c \o b) = Len(c) + Len(b)
        /\ \A k \in 1 .. Len(c) + Len(b) :
             (c \o b)[k] = IF k <= Len(c) THEN c[k] ELSE b[k - Len(c)]
    BY <2>1, ConcatFacts
  <2>3. Len(c) = i /\ Len(c) + Len(b) = Len(q) + 1
    BY <1>2, <1>3
  <2>4. QED  BY <2>2, <2>3
<1>5. InsertAt(q, i, e) = c \o b
  BY DEF InsertAt, a, b, c
<1>6. ASSUME NEW k \in 1 .. Len(q) + 1
      PROVE  (c \o b)[k] = IF k < i THEN q[k] ELSE IF k = i THEN e ELSE q[k - 1]
  <2>1. CASE k <= i
    <3>1. (c \o b)[k] = c[k]
      BY <2>1, <1>4
    <3>2. c[k] = IF k < i THEN a[k] ELSE e
      BY <2>1, <1>3
    <3>3. k < i => a[k] = q[k]
      BY <1>1
    <3>4. QED  BY <2>1, <3>1, <3>2, <3>3
  <2>2. CASE k > i
    <3>1. k - i \in 1 .. Len(q) - i + 1
      BY <2>2
    <3>2. b[k - i] = q[i + (k - i) - 1]
      BY <3>1, <1>2
    <3>3. i + (k - i) - 1 = k - 1
      OBVIOUS
    <3>4. (c \o b)[k] = b[k - i]
      BY <2>2, <1>4
    <3>5. (c \o b)[k] = q[k - 1]
      BY <3>2, <3>3, <3>4
    <3>6. QED  BY <2>2, <3>5
  <2>3. k <= i \/ k > i
    OBVIOUS
  <2>4. QED  BY <2>1, <2>2, <2>3
<1>7. QED  BY <1>4, <1>5, <1>6

\* An insertion adds one element, once.
LEMMA InsertAtFacts ==
  ASSUME NEW S, NEW q \in Seq(S), NEW e \in S, NEW i \in 1 .. Len(q) + 1
  PROVE  /\ InsertAt(q, i, e) \in Seq(S)
         /\ ToSet(InsertAt(q, i, e)) = ToSet(q) \cup {e}
         /\ IsInjective(q) /\ e \notin ToSet(q) => IsInjective(InsertAt(q, i, e))
<1> DEFINE r == InsertAt(q, i, e)
<1>1. /\ r \in Seq(S) /\ Len(r) = Len(q) + 1
      /\ \A k \in 1 .. Len(q) + 1 :
              r[k] = IF k < i THEN q[k] ELSE IF k = i THEN e ELSE q[k - 1]
  BY InsertAtElements
<1> HIDE DEF r
<1>2. DOMAIN q = 1 .. Len(q) /\ DOMAIN r = 1 .. Len(q) + 1
  BY <1>1
<1>3. ToSet(r) \subseteq ToSet(q) \cup {e}
  <2> SUFFICES ASSUME NEW k \in 1 .. Len(q) + 1
               PROVE  r[k] \in ToSet(q) \cup {e}
    BY <1>2 DEF ToSet
  <2>1. k < i => k \in DOMAIN q
    BY <1>2
  <2>2. k > i => k - 1 \in DOMAIN q
    BY <1>2
  <2>3. QED  BY <1>1, <2>1, <2>2 DEF ToSet
<1>4. ToSet(q) \cup {e} \subseteq ToSet(r)
  <2>1. r[i] = e /\ i \in DOMAIN r
    BY <1>1, <1>2
  <2>2. ASSUME NEW k \in 1 .. Len(q) PROVE q[k] \in ToSet(r)
    <3>1. CASE k < i
      <4>1. k \in DOMAIN r /\ r[k] = q[k]
        BY <3>1, <1>1, <1>2
      <4>2. QED  BY <4>1 DEF ToSet
    <3>2. CASE k >= i
      <4>1. k + 1 \in DOMAIN r /\ r[k + 1] = q[(k + 1) - 1]
        BY <3>2, <1>1, <1>2
      <4>2. QED  BY <4>1 DEF ToSet
    <3>3. QED  BY <3>1, <3>2
  <2>3. QED  BY <2>1, <2>2, <1>2 DEF ToSet
<1>5. ASSUME IsInjective(q), e \notin ToSet(q) PROVE IsInjective(r)
  <2>1. \A k \in 1 .. Len(q) : q[k] # e
    BY <1>5, <1>2 DEF ToSet
  <2>2. \A k, l \in 1 .. Len(q) : q[k] = q[l] => k = l
    BY <1>5, <1>2 DEF IsInjective
  <2>3. ASSUME NEW k \in 1 .. Len(q) + 1, NEW l \in 1 .. Len(q) + 1, r[k] = r[l]
        PROVE  k = l
    <3> DEFINE from(x) == IF x < i THEN x ELSE x - 1
    <3>1. ASSUME NEW x \in 1 .. Len(q) + 1, x # i
          PROVE  from(x) \in 1 .. Len(q) /\ r[x] = q[from(x)]
      BY <1>1, <3>1
    <3>2. r[i] = e
      BY <1>1
    <3>3. CASE k = i \/ l = i
      BY <3>1, <3>2, <3>3, <2>1, <2>3
    <3>4. CASE k # i /\ l # i
      <4>1. from(k) = from(l)
        <5> HIDE DEF from
        <5>1. QED  BY <3>1, <3>4, <2>2, <2>3
      <4>2. QED  BY <4>1, <3>4
    <3>5. QED  BY <3>3, <3>4
  <2>4. QED  BY <2>3, <1>2 DEF IsInjective
<1>6. QED  BY <1>1, <1>3, <1>4, <1>5 DEF r

\* insertProcQ adds its process, once, and nothing else.
LEMMA insertProcQFacts ==
  ASSUME NEW S, NEW prio, NEW q \in Seq(S), NEW p \in S
  PROVE  /\ insertProcQ(prio, q, p) \in Seq(S)
         /\ ToSet(insertProcQ(prio, q, p)) = ToSet(q) \cup {p}
         /\ IsInjective(q) /\ p \notin ToSet(q)
               => IsInjective(insertProcQ(prio, q, p))
<1> DEFINE A == Ahead(prio, q, p)
<1>1. IsFiniteSet(1 .. Len(q)) /\ Cardinality(1 .. Len(q)) = Len(q)
  <2>1. Len(q) \in Nat /\ 1 \in Int /\ Len(q) \in Int
    OBVIOUS
  <2>2. Cardinality(1 .. Len(q)) = IF 1 > Len(q) THEN 0 ELSE Len(q) - 1 + 1
    BY <2>1, FS_Interval
  <2>3. QED  BY <2>1, <2>2, FS_Interval
<1>2. A \subseteq 1 .. Len(q)
  BY DEF Ahead
<1> HIDE DEF A
<1>3. Cardinality(A) \in Nat /\ Cardinality(A) <= Len(q)
  BY <1>1, <1>2, FS_Subset, FS_CardinalityType
<1>4. Cardinality(A) + 1 \in 1 .. Len(q) + 1
  BY <1>3
<1>5. insertProcQ(prio, q, p) = InsertAt(q, Cardinality(A) + 1, p)
  BY DEF insertProcQ, A
<1>6. QED  BY <1>4, <1>5, InsertAtFacts

-----------------------------------------------------------------------------
(* Appending, taking the head, leaving *)

\* What Append adds, and what Tail leaves.
LEMMA AppendFacts ==
  ASSUME NEW S, NEW q \in Seq(S), NEW p \in S
  PROVE  /\ Append(q, p) \in Seq(S)
         /\ ToSet(Append(q, p)) = ToSet(q) \cup {p}
         /\ IsInjective(q) /\ p \notin ToSet(q) => IsInjective(Append(q, p))
<1> DEFINE r == Append(q, p)
<1>1. /\ r \in Seq(S) /\ Len(r) = Len(q) + 1
      /\ \A k \in 1 .. Len(q) : r[k] = q[k]
      /\ r[Len(q) + 1] = p
  OBVIOUS
<1> HIDE DEF r
<1>2. DOMAIN r = 1 .. Len(q) + 1 /\ DOMAIN q = 1 .. Len(q) /\ Len(q) \in Nat
  BY <1>1
<1>3. \A k \in DOMAIN r : k \in DOMAIN q \/ k = Len(q) + 1
  BY <1>2
<1>4. Len(q) + 1 \in DOMAIN r /\ DOMAIN q \subseteq DOMAIN r
  BY <1>2
<1>5. ToSet(r) = ToSet(q) \cup {p}
  <2>1. ToSet(r) \subseteq ToSet(q) \cup {p}
    BY <1>1, <1>2, <1>3 DEF ToSet
  <2>2. ToSet(q) \subseteq ToSet(r)
    BY <1>1, <1>2, <1>4 DEF ToSet
  <2>3. p \in ToSet(r)
    BY <1>1, <1>4 DEF ToSet
  <2>4. QED  BY <2>1, <2>2, <2>3
<1>6. ASSUME IsInjective(q), p \notin ToSet(q) PROVE IsInjective(r)
  <2>1. \A k \in DOMAIN q : q[k] # p
    BY <1>6 DEF ToSet
  <2>2. \A k, l \in DOMAIN q : q[k] = q[l] => k = l
    BY <1>6 DEF IsInjective
  <2>3. \A k, l \in DOMAIN r : r[k] = r[l] => k = l
    BY <1>1, <1>2, <1>3, <2>1, <2>2
  <2>4. QED  BY <2>3 DEF IsInjective
<1>7. QED  BY <1>1, <1>5, <1>6 DEF r

\* The head of a queue without repetitions is not in its tail.
LEMMA HeadTailFacts ==
  ASSUME NEW S, NEW q \in Seq(S), q # <<>>
  PROVE  /\ Head(q) \in S /\ Head(q) \in ToSet(q)
         /\ Tail(q) \in Seq(S)
         /\ ToSet(q) = ToSet(Tail(q)) \cup {Head(q)}
         /\ IsInjective(q) => IsInjective(Tail(q)) /\ Head(q) \notin ToSet(Tail(q))
<1> DEFINE t == Tail(q)
<1>1. /\ t \in Seq(S) /\ Len(t) = Len(q) - 1 /\ Len(q) > 0 /\ Len(q) \in Nat
      /\ \A k \in 1 .. Len(q) - 1 : t[k] = q[k + 1]
      /\ Head(q) = q[1] /\ Head(q) \in S
  OBVIOUS
<1> HIDE DEF t
<1>2. DOMAIN t = 1 .. Len(q) - 1 /\ DOMAIN q = 1 .. Len(q)
  BY <1>1
<1>3. ToSet(q) \subseteq ToSet(t) \cup {q[1]}
  <2> SUFFICES ASSUME NEW k \in 1 .. Len(q), k # 1 PROVE q[k] \in ToSet(t)
    BY <1>2 DEF ToSet
  <2>1. k - 1 \in DOMAIN t /\ t[k - 1] = q[(k - 1) + 1] /\ (k - 1) + 1 = k
    BY <1>1, <1>2
  <2>2. QED  BY <2>1 DEF ToSet
<1>4. ToSet(t) \subseteq ToSet(q)
  <2> SUFFICES ASSUME NEW k \in 1 .. Len(q) - 1 PROVE t[k] \in ToSet(q)
    BY <1>2 DEF ToSet
  <2>1. k + 1 \in DOMAIN q /\ t[k] = q[k + 1]
    BY <1>1, <1>2
  <2>2. QED  BY <2>1 DEF ToSet
<1>5. q[1] \in ToSet(q)
  BY <1>1, <1>2 DEF ToSet
<1>6. ASSUME IsInjective(q) PROVE IsInjective(t) /\ q[1] \notin ToSet(t)
  <2>1. \A k, l \in 1 .. Len(q) : q[k] = q[l] => k = l
    BY <1>6, <1>2 DEF IsInjective
  <2>2. ASSUME NEW k \in 1 .. Len(q) - 1
        PROVE  k + 1 \in 1 .. Len(q) /\ t[k] = q[k + 1] /\ k + 1 # 1
    BY <1>1
  <2>3. q[1] \notin ToSet(t)
    BY <2>1, <2>2, <1>1, <1>2 DEF ToSet
  <2>4. ASSUME NEW k \in 1 .. Len(q) - 1, NEW l \in 1 .. Len(q) - 1, t[k] = t[l]
        PROVE  k = l
    <3>1. k + 1 = l + 1
      BY <2>1, <2>2, <2>4
    <3>2. QED  BY <3>1
  <2>5. QED  BY <2>3, <2>4, <1>2 DEF IsInjective
<1>7. QED  BY <1>1, <1>3, <1>4, <1>5, <1>6 DEF t

\* The recursive function behind Without exists.
LEMMA WithoutRecursion ==
  ASSUME NEW S, NEW q \in Seq(S), NEW X
  PROVE  \E f : /\ f = [k \in 0 .. Len(q) |->
                          IF k = 0 THEN <<>>
                          ELSE IF q[k] \in X THEN f[k - 1]
                          ELSE Append(f[k - 1], q[k])]
                /\ Without(q, X) = f[Len(q)]
<1> DEFINE n == Len(q)
           Step(k, r) == IF q[k] \in X THEN r ELSE Append(r, q[k])
           step == [k \in 1 .. n |-> [r \in Seq(S) |-> Step(k, r)]]
           Body(f) == [k \in 0 .. n |->
                         IF k = 0 THEN <<>>
                         ELSE IF q[k] \in X THEN f[k - 1]
                         ELSE Append(f[k - 1], q[k])]
<1>1. n \in Nat /\ <<>> \in Seq(S)
  OBVIOUS
<1>2. \A k \in 1 .. n : \A r \in Seq(S) : step[k][r] \in Seq(S)
  <2>1. ASSUME NEW k \in 1 .. n, NEW r \in Seq(S) PROVE Step(k, r) \in Seq(S)
    <3>1. q[k] \in S
      OBVIOUS
    <3>2. QED  BY <3>1
  <2>2. QED  BY <2>1
<1>3. PICK g : IsRecursion(g, n, Seq(S), <<>>, step)
  <2> HIDE DEF n, step
  <2>1. QED  BY <1>1, <1>2, RecursionExists
<1>3a. /\ g \in [0 .. n -> Seq(S)]
       /\ \A k \in 0 .. n : g[k] = IF k = 0 THEN <<>> ELSE step[k][g[k - 1]]
  BY <1>3 DEF IsRecursion
<1>4. g = Body(g)
  <2>1. ASSUME NEW k \in 0 .. n
        PROVE  g[k] = IF k = 0 THEN <<>>
                      ELSE IF q[k] \in X THEN g[k - 1]
                      ELSE Append(g[k - 1], q[k])
    <3>1. CASE k = 0
      BY <3>1, <1>3a
    <3>2. CASE k # 0
      <4>1. k \in 1 .. n /\ k - 1 \in 0 .. n
        BY <3>2
      <4>2. g[k - 1] \in Seq(S)
        BY <4>1, <1>3a
      <4>3. g[k] = step[k][g[k - 1]]
        BY <1>3a, <3>2
      <4>4. step[k][g[k - 1]] = Step(k, g[k - 1])
        BY <4>1, <4>2
      <4>5. QED  BY <4>3, <4>4, <3>2
    <3>3. QED  BY <3>1, <3>2
  <2>2. QED  BY <2>1, <1>3a
<1> DEFINE c == CHOOSE f : f = Body(f)
<1>5. c = Body(c)
  <2> HIDE DEF Body
  <2>1. QED  BY <1>4
<1>6. Without(q, X) = c[n]
  BY DEF Without
<1>7. QED  BY <1>5, <1>6

\* Without takes out the elements of X and nothing else.
LEMMA WithoutFacts ==
  ASSUME NEW S, NEW q \in Seq(S), NEW X
  PROVE  /\ Without(q, X) \in Seq(S)
         /\ ToSet(Without(q, X)) = ToSet(q) \ X
         /\ IsInjective(q) => IsInjective(Without(q, X))
<1> DEFINE n == Len(q)
           First(k) == {q[j] : j \in 1 .. k}
<1>1. PICK f : /\ f = [k \in 0 .. n |->
                         IF k = 0 THEN <<>>
                         ELSE IF q[k] \in X THEN f[k - 1]
                         ELSE Append(f[k - 1], q[k])]
               /\ Without(q, X) = f[n]
  BY WithoutRecursion
<1>2. n \in Nat /\ DOMAIN q = 1 .. n
  OBVIOUS
<1> DEFINE Right(k) == /\ f[k] \in Seq(S)
                       /\ ToSet(f[k]) = First(k) \ X
                       /\ IsInjective(q) => IsInjective(f[k])
           Good == {k \in 0 .. n : Right(k)}
<1>3. 0 \in Good
  <2>1. f[0] = <<>>
    BY <1>1, <1>2
  <2>2. Right(0)
    BY <2>1 DEF ToSet, IsInjective
  <2>3. QED  BY <2>2, <1>2
<1>4. ASSUME NEW k \in 0 .. n - 1, k \in Good PROVE k + 1 \in Good
  <2> DEFINE l == k + 1
  <2>1. l \in 1 .. n /\ l \in 0 .. n /\ l - 1 = k /\ l # 0
    BY <1>2
  <2>2. f[l] = IF q[l] \in X THEN f[k] ELSE Append(f[k], q[l])
    BY <1>1, <2>1
  <2>3. Right(k)
    BY <1>4
  <2>4. First(l) = First(k) \cup {q[l]}
    <3>1. \A j \in 1 .. l : j \in 1 .. k \/ j = l
      BY <2>1
    <3>2. \A j \in 1 .. k : j \in 1 .. l
      BY <2>1
    <3>3. l \in 1 .. l
      BY <2>1
    <3>4. QED  BY <3>1, <3>2, <3>3
  <2>5. q[l] \in S
    BY <2>1
  <2>6. CASE q[l] \in X
    <3>1. Right(l)
      BY <2>2, <2>3, <2>4, <2>6
    <3>2. QED  BY <3>1, <2>1
  <2>7. CASE q[l] \notin X
    <3>1. f[l] = Append(f[k], q[l])
      BY <2>2, <2>7
    <3>2. /\ f[l] \in Seq(S)
          /\ ToSet(f[l]) = ToSet(f[k]) \cup {q[l]}
          /\ IsInjective(f[k]) /\ q[l] \notin ToSet(f[k]) => IsInjective(f[l])
      <4>1. f[k] \in Seq(S)
        BY <2>3
      <4>2. QED  BY <3>1, <4>1, <2>5, AppendFacts
    <3>3. ASSUME IsInjective(q) PROVE q[l] \notin First(k)
      <4>1. \A j \in 1 .. k : j \in DOMAIN q /\ l \in DOMAIN q /\ j # l
        BY <2>1, <1>2
      <4>2. QED  BY <4>1, <3>3 DEF IsInjective
    <3>4. ToSet(f[l]) = First(l) \ X
      BY <3>2, <2>3, <2>4, <2>7
    <3>5. ASSUME IsInjective(q) PROVE IsInjective(f[l])
      BY <3>2, <3>3, <3>5, <2>3
    <3>6. QED  BY <3>2, <3>4, <3>5, <2>1
  <2>8. QED  BY <2>6, <2>7
<1>5. Right(n)
  <2>1. 0 .. n \subseteq Good
    <3> HIDE DEF Good, n
    <3>1. QED  BY <1>2, <1>3, <1>4, Induction
  <2>2. n \in Good
    <3> HIDE DEF Good
    <3>1. n \in 0 .. n
      BY <1>2
    <3>2. QED  BY <2>1, <3>1
  <2>3. QED
    <3> HIDE DEF Right
    <3>1. QED  BY <2>2
<1>6. First(n) = ToSet(q)
  BY <1>2 DEF ToSet
<1>7. QED  BY <1>1, <1>5, <1>6

\* f holds the queues that insertAll goes through.
IsInsertion(f, prio, q, w) ==
    \A k \in 0 .. Len(w) :
       f[k] = IF k = 0 THEN q ELSE insertProcQ(prio, f[k - 1], w[k])

\* The recursive function behind insertAll exists.
LEMMA insertAllRecursion ==
  ASSUME NEW S, NEW prio, NEW q \in Seq(S), NEW w \in Seq(S)
  PROVE  \E f : IsInsertion(f, prio, q, w) /\ insertAll(prio, q, w) = f[Len(w)]
<1> DEFINE n == Len(w)
           Step(k, r) == insertProcQ(prio, r, w[k])
           step == [k \in 1 .. n |-> [r \in Seq(S) |-> Step(k, r)]]
           Body(f) == [k \in 0 .. n |->
                         IF k = 0 THEN q ELSE insertProcQ(prio, f[k - 1], w[k])]
<1>1. n \in Nat
  OBVIOUS
<1>2. \A k \in 1 .. n : \A r \in Seq(S) : step[k][r] \in Seq(S)
  <2>1. ASSUME NEW k \in 1 .. n, NEW r \in Seq(S) PROVE Step(k, r) \in Seq(S)
    <3>1. w[k] \in S
      OBVIOUS
    <3>2. QED  BY <3>1, insertProcQFacts
  <2>2. QED  BY <2>1
<1>3. PICK g : IsRecursion(g, n, Seq(S), q, step)
  <2> HIDE DEF n, step
  <2>1. QED  BY <1>1, <1>2, RecursionExists
<1>4. /\ g \in [0 .. n -> Seq(S)]
      /\ \A k \in 0 .. n : g[k] = IF k = 0 THEN q ELSE step[k][g[k - 1]]
  BY <1>3 DEF IsRecursion
<1>5. g = Body(g)
  <2>1. ASSUME NEW k \in 0 .. n
        PROVE  g[k] = IF k = 0 THEN q ELSE insertProcQ(prio, g[k - 1], w[k])
    <3>1. CASE k = 0
      BY <3>1, <1>4
    <3>2. CASE k # 0
      <4>1. k \in 1 .. n /\ k - 1 \in 0 .. n
        BY <3>2
      <4>2. g[k - 1] \in Seq(S)
        BY <4>1, <1>4
      <4>3. g[k] = step[k][g[k - 1]]
        BY <1>4, <3>2
      <4>4. step[k][g[k - 1]] = Step(k, g[k - 1])
        BY <4>1, <4>2
      <4>5. QED  BY <4>3, <4>4, <3>2
    <3>3. QED  BY <3>1, <3>2
  <2>2. QED  BY <2>1, <1>4
<1> DEFINE c == CHOOSE f : f = Body(f)
<1>6. c = Body(c)
  <2> HIDE DEF Body
  <2>1. QED  BY <1>5
<1>7. insertAll(prio, q, w) = c[n]
  BY DEF insertAll
<1>8. IsInsertion(c, prio, q, w)
  <2> HIDE DEF c
  <2>1. QED  BY <1>6 DEF IsInsertion
<1>9. QED
  <2> HIDE DEF c
  <2>1. QED  BY <1>7, <1>8

\* insertAll adds the elements of w, each once, and nothing else.
LEMMA insertAllFacts ==
  ASSUME NEW S, NEW prio, NEW q \in Seq(S), NEW w \in Seq(S)
  PROVE  /\ insertAll(prio, q, w) \in Seq(S)
         /\ ToSet(insertAll(prio, q, w)) = ToSet(q) \cup ToSet(w)
         /\ IsInjective(q) /\ IsInjective(w) /\ ToSet(q) \cap ToSet(w) = {}
               => IsInjective(insertAll(prio, q, w))
<1> DEFINE n == Len(w)
           First(k) == {w[j] : j \in 1 .. k}
           Apart == IsInjective(q) /\ IsInjective(w) /\ ToSet(q) \cap ToSet(w) = {}
<1>1. PICK f : IsInsertion(f, prio, q, w) /\ insertAll(prio, q, w) = f[n]
  BY insertAllRecursion
<1>2. n \in Nat /\ DOMAIN w = 1 .. n
  OBVIOUS
<1> DEFINE Right(k) == /\ f[k] \in Seq(S)
                       /\ ToSet(f[k]) = ToSet(q) \cup First(k)
                       /\ Apart => IsInjective(f[k])
           Good == {k \in 0 .. n : Right(k)}
<1>3. 0 \in Good
  <2>1. f[0] = q
    BY <1>1, <1>2 DEF IsInsertion
  <2>2. First(0) = {}
    OBVIOUS
  <2>3. Right(0)
    BY <2>1, <2>2
  <2>4. QED  BY <2>3, <1>2
<1>4. ASSUME NEW k \in 0 .. n - 1, k \in Good PROVE k + 1 \in Good
  <2> DEFINE l == k + 1
  <2>1. l \in 1 .. n /\ l \in 0 .. n /\ l - 1 = k /\ l # 0
    BY <1>2
  <2>2. f[l] = insertProcQ(prio, f[k], w[l])
    BY <1>1, <2>1 DEF IsInsertion
  <2>3. Right(k)
    BY <1>4
  <2>4. First(l) = First(k) \cup {w[l]}
    <3>1. \A j \in 1 .. l : j \in 1 .. k \/ j = l
      BY <2>1
    <3>2. \A j \in 1 .. k : j \in 1 .. l
      BY <2>1
    <3>3. l \in 1 .. l
      BY <2>1
    <3>4. QED  BY <3>1, <3>2, <3>3
  <2>5. w[l] \in S
    BY <2>1
  <2>6. /\ f[l] \in Seq(S)
        /\ ToSet(f[l]) = ToSet(f[k]) \cup {w[l]}
        /\ IsInjective(f[k]) /\ w[l] \notin ToSet(f[k]) => IsInjective(f[l])
    <3>1. f[k] \in Seq(S)
      BY <2>3
    <3>2. ASSUME NEW r \in Seq(S), NEW e \in S
          PROVE  /\ insertProcQ(prio, r, e) \in Seq(S)
                 /\ ToSet(insertProcQ(prio, r, e)) = ToSet(r) \cup {e}
                 /\ IsInjective(r) /\ e \notin ToSet(r)
                       => IsInjective(insertProcQ(prio, r, e))
      BY insertProcQFacts
    <3>3. /\ insertProcQ(prio, f[k], w[l]) \in Seq(S)
          /\ ToSet(insertProcQ(prio, f[k], w[l])) = ToSet(f[k]) \cup {w[l]}
          /\ IsInjective(f[k]) /\ w[l] \notin ToSet(f[k])
                => IsInjective(insertProcQ(prio, f[k], w[l]))
      BY <3>1, <2>5, <3>2
    <3>4. QED  BY <2>2, <3>3
  <2>7. ASSUME Apart PROVE w[l] \notin ToSet(q) \cup First(k)
    <3>1. \A j \in 1 .. k : j \in DOMAIN w /\ l \in DOMAIN w /\ j # l
      BY <2>1, <1>2
    <3>2. w[l] \notin First(k)
      BY <3>1, <2>7 DEF IsInjective
    <3>3. w[l] \in ToSet(w)
      BY <2>1, <1>2 DEF ToSet
    <3>4. QED  BY <3>2, <3>3, <2>7
  <2>8. ToSet(f[l]) = ToSet(q) \cup First(l)
    BY <2>3, <2>4, <2>6
  <2>9. ASSUME Apart PROVE IsInjective(f[l])
    BY <2>3, <2>6, <2>7, <2>9
  <2>10. QED  BY <2>1, <2>6, <2>8, <2>9
<1>5. Right(n)
  <2>1. 0 .. n \subseteq Good
    <3> HIDE DEF Good, n
    <3>1. QED  BY <1>2, <1>3, <1>4, Induction
  <2>2. n \in Good
    <3> HIDE DEF Good
    <3>1. n \in 0 .. n
      BY <1>2
    <3>2. QED  BY <2>1, <3>1
  <2>3. QED
    <3> HIDE DEF Right
    <3>1. QED  BY <2>2
<1>6. First(n) = ToSet(w)
  BY <1>2 DEF ToSet
<1>7. QED  BY <1>1, <1>5, <1>6

-----------------------------------------------------------------------------
(* Order *)

\* Higher priorities are ahead.
Sorted(prio, q) == \A i, j \in DOMAIN q : i < j => prio[q[i]] >= prio[q[j]]

\* r is sorted, and among equals nobody who was in q is overtaken: neither by one
\* that was behind nor by one that was not there.
Turn(prio, q, r) ==
    /\ Sorted(prio, r)
    /\ \A a, b \in ToSet(r) :
          a # b /\ prio[a] = prio[b] /\ a \in ToSet(q)
             /\ (b \in ToSet(q) => Before(q, a, b))
          => Before(r, a, b)

\* Before, by positions.
LEMMA BeforeFacts ==
  ASSUME NEW S, NEW q \in Seq(S), NEW a, NEW b
  PROVE  Before(q, a, b) <=>
            \E i, j \in 1 .. Len(q) : i < j /\ q[i] = a /\ q[j] = b
<1>1. DOMAIN q = 1 .. Len(q) /\ Len(q) \in Nat
  OBVIOUS
<1>2. \A j \in 1 .. Len(q) : \A i \in 1 .. j - 1 : i \in 1 .. Len(q) /\ i < j
  BY <1>1
<1>3. \A i, j \in 1 .. Len(q) : i < j => i \in 1 .. j - 1
  BY <1>1
<1>4. QED  BY <1>1, <1>2, <1>3 DEF Before

LEMMA MemberFacts ==
  ASSUME NEW S, NEW q \in Seq(S), NEW a
  PROVE  a \in ToSet(q) <=> \E i \in 1 .. Len(q) : q[i] = a
BY DEF ToSet

\* A queue that does not change, in the order that it has.
LEMMA SameTurn ==
  ASSUME NEW prio, NEW q, Sorted(prio, q)
  PROVE  Turn(prio, q, q)
BY DEF Turn

\* The order depends on the priorities of those in the queue only.
LEMMA PrioTurn ==
  ASSUME NEW prio, NEW other, NEW q, NEW r, Turn(prio, q, r),
         \A p \in ToSet(r) : other[p] = prio[p]
  PROVE  Turn(other, q, r)
<1>1. \A i \in DOMAIN r : other[r[i]] = prio[r[i]]
  BY DEF ToSet
<1>2. Sorted(other, r)
  BY <1>1 DEF Turn, Sorted
<1>3. QED  BY <1>2 DEF Turn

\* A higher priority is ahead in a sorted queue.
LEMMA SortedBefore ==
  ASSUME NEW S, NEW prio \in [S -> Int], NEW q \in Seq(S), Sorted(prio, q),
         NEW a \in ToSet(q), NEW b \in ToSet(q), prio[a] > prio[b]
  PROVE  Before(q, a, b)
<1>1. PICK i \in 1 .. Len(q), j \in 1 .. Len(q) : q[i] = a /\ q[j] = b
  BY MemberFacts
<1>2. q[i] \in S /\ q[j] \in S /\ prio[a] \in Int /\ prio[b] \in Int
  BY <1>1
<1>3. ~(j < i) /\ i # j
  BY <1>1, <1>2 DEF Sorted
<1>4. i < j
  BY <1>3
<1>5. QED  BY <1>1, <1>4, BeforeFacts

\* The head of a sorted queue, and what stays behind.
LEMMA TailTurn ==
  ASSUME NEW S, NEW prio \in [S -> Int], NEW q, NEW r \in Seq(S),
         r # <<>>, IsInjective(r), Turn(prio, q, r)
  PROVE  /\ Turn(prio, q, Tail(r))
         /\ \A b \in ToSet(Tail(r)) : prio[b] <= prio[Head(r)]
<1> DEFINE t == Tail(r)
<1>1. /\ t \in Seq(S) /\ Len(t) = Len(r) - 1 /\ Len(r) \in Nat /\ Len(r) > 0
      /\ \A k \in 1 .. Len(t) : t[k] = r[k + 1] /\ k + 1 \in 1 .. Len(r)
      /\ Head(r) = r[1] /\ 1 \in 1 .. Len(r)
  OBVIOUS
<1> HIDE DEF t
<1>2. \A k \in 2 .. Len(r) : k - 1 \in 1 .. Len(t) /\ t[k - 1] = r[k]
  BY <1>1
<1>3. DOMAIN t = 1 .. Len(t) /\ DOMAIN r = 1 .. Len(r)
  BY <1>1
<1>4. Sorted(prio, t)
  <2>1. SUFFICES ASSUME NEW i \in 1 .. Len(t), NEW j \in 1 .. Len(t), i < j
                 PROVE  prio[t[i]] >= prio[t[j]]
    BY <1>3 DEF Sorted
  <2>2. /\ t[i] = r[i + 1] /\ t[j] = r[j + 1] /\ i + 1 < j + 1
        /\ i + 1 \in DOMAIN r /\ j + 1 \in DOMAIN r
    BY <1>1, <1>3, <2>1
  <2>3. prio[r[i + 1]] >= prio[r[j + 1]]
    BY <2>2 DEF Turn, Sorted
  <2>4. QED  BY <2>2, <2>3
<1>5. \A b \in ToSet(t) : prio[b] <= prio[Head(r)]
  <2> TAKE b \in ToSet(t)
  <2>1. PICK k \in 1 .. Len(t) : t[k] = b
    BY <1>1, MemberFacts
  <2>2. b = r[k + 1] /\ 1 < k + 1 /\ k + 1 \in 1 .. Len(r)
    BY <1>1, <2>1
  <2>3. prio[r[1]] >= prio[r[k + 1]]
    BY <1>1, <1>3, <2>2 DEF Turn, Sorted
  <2>4. prio[r[1]] \in Int /\ prio[r[k + 1]] \in Int
    BY <1>1, <2>2
  <2>5. QED  BY <1>1, <2>2, <2>3, <2>4
<1>6. ASSUME NEW a \in ToSet(t), NEW b \in ToSet(t), Before(r, a, b)
      PROVE  Before(t, a, b)
  <2>1. PICK i \in 1 .. Len(r), j \in 1 .. Len(r) : i < j /\ r[i] = a /\ r[j] = b
    BY <1>6, BeforeFacts
  <2>2. PICK k \in 1 .. Len(t) : t[k] = a
    BY <1>1, MemberFacts
  <2>3. i = k + 1
    <3>1. k + 1 \in DOMAIN r /\ r[k + 1] = a /\ i \in DOMAIN r /\ r[i] = a
      BY <1>1, <1>3, <2>1, <2>2
    <3>2. QED  BY <3>1 DEF IsInjective
  <2>4. j \in 2 .. Len(r) /\ k < j - 1
    BY <1>1, <2>1, <2>3
  <2>5. j - 1 \in 1 .. Len(t) /\ t[j - 1] = b
    BY <1>2, <2>1, <2>4
  <2>6. QED  BY <1>1, <2>2, <2>4, <2>5, BeforeFacts
<1>7. ToSet(t) \in SUBSET ToSet(r)
  BY HeadTailFacts DEF t
<1>8. Turn(prio, q, t)
  BY <1>4, <1>6, <1>7 DEF Turn
<1>9. QED  BY <1>5, <1>8 DEF t

\* Append leaves those who are there in front.
LEMMA AppendBefore ==
  ASSUME NEW S, NEW q \in Seq(S), NEW e \in S
  PROVE  /\ \A a, b : Before(q, a, b) => Before(Append(q, e), a, b)
         /\ \A a \in ToSet(q) : Before(Append(q, e), a, e)
<1> DEFINE r == Append(q, e)
<1>1. /\ r \in Seq(S) /\ Len(r) = Len(q) + 1 /\ Len(q) \in Nat
      /\ \A k \in 1 .. Len(q) : r[k] = q[k] /\ k \in 1 .. Len(r) /\ k < Len(r)
      /\ r[Len(r)] = e /\ Len(r) \in 1 .. Len(r)
  OBVIOUS
<1> HIDE DEF r
<1>2. ASSUME NEW a, NEW b, Before(q, a, b) PROVE Before(r, a, b)
  <2>1. PICK i \in 1 .. Len(q), j \in 1 .. Len(q) : i < j /\ q[i] = a /\ q[j] = b
    BY <1>2, BeforeFacts
  <2>2. /\ i \in 1 .. Len(r) /\ j \in 1 .. Len(r) /\ r[i] = a /\ r[j] = b
    BY <1>1, <2>1
  <2>3. QED  BY <1>1, <2>1, <2>2, BeforeFacts
<1>3. ASSUME NEW a \in ToSet(q) PROVE Before(r, a, e)
  <2>1. PICK i \in 1 .. Len(q) : q[i] = a
    BY <1>3, MemberFacts
  <2>2. i \in 1 .. Len(r) /\ i < Len(r) /\ r[i] = a
    BY <1>1, <2>1
  <2>3. QED  BY <1>1, <2>2, BeforeFacts
<1>4. QED  BY <1>2, <1>3 DEF r

\* Without keeps the order of those who stay.
LEMMA WithoutTurn ==
  ASSUME NEW S, NEW prio \in [S -> Int], NEW q \in Seq(S), Sorted(prio, q), NEW X
  PROVE  Turn(prio, q, Without(q, X))
<1> DEFINE n == Len(q)
<1>1. PICK f : /\ f = [k \in 0 .. n |->
                         IF k = 0 THEN <<>>
                         ELSE IF q[k] \in X THEN f[k - 1]
                         ELSE Append(f[k - 1], q[k])]
               /\ Without(q, X) = f[n]
  BY WithoutRecursion
<1>2. n \in Nat /\ DOMAIN q = 1 .. n
  OBVIOUS
<1> DEFINE Right(k) ==
             /\ f[k] \in Seq(S)
             /\ \A a \in ToSet(f[k]) : \E i \in 1 .. k : q[i] = a
             /\ \A i \in 1 .. k : q[i] \notin X => q[i] \in ToSet(f[k])
             /\ Sorted(prio, f[k])
             /\ \A i, j \in 1 .. k : i < j /\ q[i] \notin X /\ q[j] \notin X
                                     => Before(f[k], q[i], q[j])
           Good == {k \in 0 .. n : Right(k)}
<1>3. 0 \in Good
  <2>1. f[0] = <<>>
    BY <1>1, <1>2
  <2>2. <<>> \in Seq(S) /\ ToSet(<<>>) = {} /\ Sorted(prio, <<>>)
    BY DEF ToSet, Sorted
  <2>3. 1 .. 0 = {} /\ 0 \in 0 .. n
    BY <1>2
  <2>4. Right(0)
    BY <2>1, <2>2, <2>3
  <2>5. QED
    <3> HIDE DEF Right
    <3>1. QED  BY <2>3, <2>4
<1>4. ASSUME NEW k \in 0 .. n - 1, k \in Good PROVE k + 1 \in Good
  <2> DEFINE l == k + 1
  <2>1. l \in 1 .. n /\ l \in 0 .. n /\ l - 1 = k /\ l # 0
    BY <1>2
  <2>2. f[l] = IF q[l] \in X THEN f[k] ELSE Append(f[k], q[l])
    BY <1>1, <2>1
  <2>3. Right(k)
    BY <1>4
  <2>4. /\ \A i \in 1 .. l : i \in 1 .. k \/ i = l
        /\ \A i \in 1 .. k : i \in 1 .. l /\ i < l /\ i \in 1 .. n
        /\ l \in 1 .. l /\ q[l] \in S
    BY <1>2, <2>1
  <2>5. CASE q[l] \in X
    <3>1. \A i, j \in 1 .. l : i < j /\ q[i] \notin X /\ q[j] \notin X
                               => i \in 1 .. k /\ j \in 1 .. k
      BY <2>4, <2>5
    <3>2. Right(l)
      <4> HIDE DEF l
      <4>1. QED  BY <2>2, <2>3, <2>4, <2>5, <3>1
    <3>3. QED  BY <2>1, <3>2
  <2>6. CASE q[l] \notin X
    <3>1. f[l] = Append(f[k], q[l]) /\ f[k] \in Seq(S)
      BY <2>2, <2>3, <2>6
    <3>2. f[l] \in Seq(S) /\ ToSet(f[l]) = ToSet(f[k]) \cup {q[l]}
      BY <2>4, <3>1, AppendFacts
    <3>3. /\ \A a, b : Before(f[k], a, b) => Before(f[l], a, b)
          /\ \A a \in ToSet(f[k]) : Before(f[l], a, q[l])
      BY <2>4, <3>1, AppendBefore
    <3>4. Sorted(prio, f[l])
      <4>1. \A a \in ToSet(f[k]) : prio[a] >= prio[q[l]]
        BY <1>2, <2>1, <2>3, <2>4 DEF Sorted
      <4>2. /\ DOMAIN f[l] = 1 .. Len(f[k]) + 1 /\ DOMAIN f[k] = 1 .. Len(f[k])
            /\ Len(f[k]) \in Nat /\ f[l][Len(f[k]) + 1] = q[l]
            /\ \A i \in 1 .. Len(f[k]) : f[l][i] = f[k][i]
        BY <2>4, <3>1
      <4>3. \A i \in 1 .. Len(f[k]) : f[k][i] \in ToSet(f[k])
        BY <3>1, MemberFacts
      <4>4. \A i, j \in 1 .. Len(f[k]) : i < j => prio[f[k][i]] >= prio[f[k][j]]
        BY <2>3, <4>2 DEF Sorted
      <4>5. ASSUME NEW i \in DOMAIN f[l], NEW j \in DOMAIN f[l], i < j
            PROVE  prio[f[l][i]] >= prio[f[l][j]]
        <5>1. i \in 1 .. Len(f[k])
          BY <4>2, <4>5
        <5>2. CASE j \in 1 .. Len(f[k])
          BY <4>2, <4>4, <4>5, <5>1, <5>2
        <5>3. CASE j = Len(f[k]) + 1
          BY <4>1, <4>2, <4>3, <5>1, <5>3
        <5>4. QED  BY <4>2, <5>2, <5>3
      <4>6. QED  BY <4>5 DEF Sorted
    <3>5. ASSUME NEW i \in 1 .. l, NEW j \in 1 .. l, i < j,
                 q[i] \notin X, q[j] \notin X
          PROVE  Before(f[l], q[i], q[j])
      <4>1. i \in 1 .. k
        BY <2>1, <3>5
      <4>2. CASE j \in 1 .. k
        BY <2>3, <3>3, <3>5, <4>1, <4>2
      <4>3. CASE j = l
        BY <2>3, <3>3, <3>5, <4>1, <4>3
      <4>4. QED  BY <2>4, <4>2, <4>3
    <3>6. /\ \A a \in ToSet(f[l]) : \E i \in 1 .. l : q[i] = a
          /\ \A i \in 1 .. l : q[i] \notin X => q[i] \in ToSet(f[l])
      <4> HIDE DEF l
      <4>1. QED  BY <2>3, <2>4, <3>2
    <3>7. Right(l)
      BY <3>2, <3>4, <3>5, <3>6
    <3>8. QED  BY <2>1, <3>7
  <2>7. QED  BY <2>5, <2>6
<1>5. Right(n)
  <2>1. 0 .. n \subseteq Good
    <3> HIDE DEF Good, n
    <3>1. QED  BY <1>2, <1>3, <1>4, Induction
  <2>2. n \in Good
    <3> HIDE DEF Good
    <3>1. n \in 0 .. n
      BY <1>2
    <3>2. QED  BY <2>1, <3>1
  <2>3. QED
    <3> HIDE DEF Right
    <3>1. QED  BY <2>2
<1>5a. ToSet(f[n]) = ToSet(q) \ X
  <2>1. ToSet(Without(q, X)) = ToSet(q) \ X
    BY WithoutFacts
  <2>2. QED  BY <1>1, <2>1
<1>6. ASSUME NEW a \in ToSet(f[n]), NEW b \in ToSet(f[n]), Before(q, a, b)
      PROVE  Before(f[n], a, b)
  <2>1. PICK i \in 1 .. n, j \in 1 .. n : i < j /\ q[i] = a /\ q[j] = b
    BY <1>6, BeforeFacts
  <2>2. a \notin X /\ b \notin X
    BY <1>5a, <1>6
  <2>3. QED
    <3> HIDE DEF n
    <3>1. QED  BY <1>5, <2>1, <2>2
<1>7. \A a \in ToSet(f[n]) : a \in ToSet(q)
  BY <1>5a
<1>8. Sorted(prio, f[n])
  <2> HIDE DEF n
  <2>1. QED  BY <1>5
<1>9. QED  BY <1>1, <1>6, <1>7, <1>8 DEF Turn

\* The positions that insertProcQ walks past are the first ones.
LEMMA AheadFacts ==
  ASSUME NEW S, NEW prio, NEW q \in Seq(S), NEW p \in S
  PROVE  \E m \in 0 .. Len(q) : Ahead(prio, q, p) = 1 .. m /\ Cardinality(1 .. m) = m
<1> DEFINE A == Ahead(prio, q, p)
           n == Len(q)
           Out == (1 .. n) \ A
<1>1. n \in Nat /\ DOMAIN q = 1 .. n /\ A \in SUBSET (1 .. n)
  BY DEF Ahead
<1>2. \A i \in A : \A j \in 1 .. i : j \in A
  <2> TAKE i \in A
  <2> TAKE j \in 1 .. i
  <2>1. i \in 1 .. n /\ \A k \in 1 .. i : prio[q[k]] >= prio[p]
    BY <1>1 DEF Ahead
  <2>2. j \in 1 .. n /\ \A k \in 1 .. j : k \in 1 .. i
    BY <2>1
  <2>3. QED  BY <1>1, <2>1, <2>2 DEF Ahead
<1>3. \E m \in 0 .. n : A = 1 .. m
  <2>1. CASE Out = {}
    <3>1. n \in 0 .. n
      BY <1>1
    <3>2. A = 1 .. n
      <4> HIDE DEF A, n
      <4>1. QED  BY <1>1, <2>1
    <3>3. QED  BY <3>1, <3>2
  <2>2. CASE Out # {}
    <3>1. PICK l \in Out : \A k \in Out : l <= k
      <4>1. Out \in SUBSET Nat
        OBVIOUS
      <4>2. QED  BY <2>2, <4>1, LeastElement
    <3>2. l - 1 \in 0 .. n /\ l \in 1 .. n /\ l \notin A
      BY <1>1, <3>1
    <3>3. \A i \in 1 .. l - 1 : i \in A
      BY <1>1, <3>1, <3>2
    <3>4. \A i \in A : i \in 1 .. l - 1
      <4> TAKE i \in A
      <4>1. i \in 1 .. n /\ ~(l \in 1 .. i)
        BY <1>1, <1>2, <3>2
      <4>2. QED  BY <3>2, <4>1
    <3>5. A = 1 .. l - 1
      <4> HIDE DEF A
      <4>1. QED  BY <3>3, <3>4
    <3>6. QED  BY <3>2, <3>5
  <2>3. QED  BY <2>1, <2>2
<1>4. \A m \in Nat : Cardinality(1 .. m) = m
  <2> TAKE m \in Nat
  <2>1. Cardinality(1 .. m) = IF 1 > m THEN 0 ELSE m - 1 + 1
    BY FS_Interval
  <2>2. QED  BY <2>1
<1>5. QED  BY <1>1, <1>3, <1>4

\* insertProcQ stops at the place i when none before it has a lower priority and
\* the one that is there has.
LEMMA InsertedInOrder ==
  ASSUME NEW S, NEW prio \in [S -> Int], NEW q \in Seq(S), NEW p \in S,
         NEW i \in 1 .. Len(q) + 1,
         \A j \in 1 .. i - 1 : ~(prio[q[j]] < prio[p]),
         i <= Len(q) => prio[q[i]] < prio[p]
  PROVE  insertProcQ(prio, q, p) = InsertAt(q, i, p)
<1> DEFINE A == Ahead(prio, q, p)
<1>1. PICK m \in 0 .. Len(q) : A = 1 .. m /\ Cardinality(1 .. m) = m
  BY AheadFacts
<1>2. Len(q) \in Nat /\ DOMAIN q = 1 .. Len(q) /\ \A j \in 1 .. Len(q) : prio[q[j]] \in Int
  OBVIOUS
<1>3. \A k : k \in A <=> k \in 1 .. Len(q) /\ \A j \in 1 .. k : prio[q[j]] >= prio[p]
  BY <1>2 DEF Ahead
<1>4. ASSUME i <= m PROVE FALSE
  <2>1. i \in A /\ i \in 1 .. Len(q) /\ i \in 1 .. i
    BY <1>1, <1>2, <1>4
  <2>2. prio[q[i]] >= prio[p] /\ prio[q[i]] < prio[p]
    BY <1>3, <2>1
  <2>3. QED  BY <1>2, <2>1, <2>2
<1>5. ASSUME m + 1 < i PROVE FALSE
  <2>1. m + 1 \in 1 .. Len(q)
    BY <1>1, <1>2, <1>5
  <2>2. \A j \in 1 .. m + 1 : j \in 1 .. i - 1 /\ j \in 1 .. Len(q)
    BY <1>1, <1>2, <1>5, <2>1
  <2>3. \A j \in 1 .. m + 1 : prio[q[j]] >= prio[p]
    BY <1>2, <2>2
  <2>4. m + 1 \in A
    BY <1>3, <2>1, <2>3
  <2>5. QED  BY <1>1, <2>4
<1>6. i = m + 1
  BY <1>1, <1>2, <1>4, <1>5
<1>7. QED  BY <1>1, <1>6 DEF insertProcQ

\* insertProcQ puts its process behind its equals and those above, in front of
\* those below, and leaves the others in their order.
LEMMA InsertTurn ==
  ASSUME NEW S, NEW prio \in [S -> Int], NEW q, NEW r \in Seq(S), Turn(prio, q, r),
         NEW p \in S, p \notin ToSet(q)
  PROVE  Turn(prio, q, insertProcQ(prio, r, p))
<1> DEFINE n == Len(r)
           t == insertProcQ(prio, r, p)
<1>1. PICK m \in 0 .. n : Ahead(prio, r, p) = 1 .. m /\ Cardinality(1 .. m) = m
  BY AheadFacts
<1>2. n \in Nat /\ DOMAIN r = 1 .. n /\ m + 1 \in 1 .. n + 1
  OBVIOUS
<1>3. /\ t \in Seq(S) /\ Len(t) = n + 1
      /\ \A k \in 1 .. n + 1 :
            t[k] = IF k < m + 1 THEN r[k] ELSE IF k = m + 1 THEN p ELSE r[k - 1]
  <2>1. t = InsertAt(r, m + 1, p)
    BY <1>1 DEF insertProcQ
  <2>2. PICK i \in 1 .. Len(r) + 1 : i = m + 1
    BY <1>2
  <2>3. /\ InsertAt(r, i, p) \in Seq(S)
        /\ Len(InsertAt(r, i, p)) = Len(r) + 1
        /\ \A k \in 1 .. Len(r) + 1 :
              InsertAt(r, i, p)[k] =
                 IF k < i THEN r[k] ELSE IF k = i THEN p ELSE r[k - 1]
    BY InsertAtElements
  <2> HIDE DEF t
  <2>4. QED  BY <2>1, <2>2, <2>3
<1>4. \A i, j \in 1 .. n : i < j => prio[r[i]] >= prio[r[j]]
  BY <1>2 DEF Turn, Sorted
<1>5. \A i \in 1 .. n : prio[r[i]] \in Int /\ prio[p] \in Int
  BY <1>2
<1>6. \A i \in 1 .. m : i \in 1 .. n /\ prio[r[i]] >= prio[p]
  <2> TAKE i \in 1 .. m
  <2>1. i \in Ahead(prio, r, p) /\ i \in 1 .. i
    BY <1>1
  <2>2. QED  BY <2>1, <1>2 DEF Ahead
<1>7. \A i \in m + 1 .. n : prio[r[i]] < prio[p]
  <2> TAKE i \in m + 1 .. n
  <2>1. m + 1 \in 1 .. n /\ m + 1 \notin Ahead(prio, r, p)
    BY <1>1
  <2>2. PICK j \in 1 .. m + 1 : ~(prio[r[j]] >= prio[p])
    BY <1>2, <2>1 DEF Ahead
  <2>3. j = m + 1
    BY <1>6, <2>2
  <2>4. prio[r[m + 1]] < prio[p]
    BY <1>5, <2>1, <2>2, <2>3
  <2>5. i = m + 1 \/ prio[r[m + 1]] >= prio[r[i]]
    BY <1>4, <2>1
  <2>6. i \in 1 .. n
    BY <1>2
  <2>7. QED  BY <1>5, <2>1, <2>4, <2>5, <2>6
<1> HIDE DEF t
<1> DEFINE from(k) == IF k < m + 1 THEN k ELSE k - 1
           to(k) == IF k < m + 1 THEN k ELSE k + 1
<1>8. \A k \in 1 .. n + 1 : k # m + 1 => from(k) \in 1 .. n /\ t[k] = r[from(k)]
  BY <1>2, <1>3
<1>9. \A k \in 1 .. n : to(k) \in 1 .. n + 1 /\ t[to(k)] = r[k]
  BY <1>2, <1>3
<1>10. t[m + 1] = p
  BY <1>2, <1>3
<1>11. Sorted(prio, t)
  <2>1. SUFFICES ASSUME NEW i \in 1 .. n + 1, NEW j \in 1 .. n + 1, i < j
                 PROVE  prio[t[i]] >= prio[t[j]]
    BY <1>3 DEF Sorted
  <2>2. CASE i # m + 1 /\ j # m + 1
    <3>1. from(i) < from(j)
      BY <1>2, <2>1, <2>2
    <3>2. QED
      <4> HIDE DEF from
      <4>1. QED  BY <1>4, <1>8, <2>2, <3>1
  <2>3. CASE i = m + 1
    <3>1. j - 1 \in m + 1 .. n /\ j - 1 \in 1 .. n /\ t[j] = r[j - 1]
      BY <1>2, <1>3, <2>1, <2>3
    <3>2. QED  BY <1>5, <1>7, <1>10, <2>3, <3>1
  <2>4. CASE j = m + 1
    <3>1. i \in 1 .. m /\ t[i] = r[i]
      BY <1>2, <1>3, <2>1, <2>4
    <3>2. QED  BY <1>6, <1>10, <2>4, <3>1
  <2>5. QED  BY <2>2, <2>3, <2>4
<1>12. \A a, b : Before(r, a, b) => Before(t, a, b)
  <2> SUFFICES ASSUME NEW a, NEW b, Before(r, a, b) PROVE Before(t, a, b)
    OBVIOUS
  <2>1. PICK i \in 1 .. n, j \in 1 .. n : i < j /\ r[i] = a /\ r[j] = b
    BY BeforeFacts
  <2>2. to(i) < to(j)
    BY <1>2, <2>1
  <2>3. /\ to(i) \in 1 .. Len(t) /\ to(j) \in 1 .. Len(t)
        /\ t[to(i)] = a /\ t[to(j)] = b
    <3> HIDE DEF to
    <3>1. QED  BY <1>3, <1>9, <2>1
  <2>4. QED
    <3> HIDE DEF to
    <3>1. QED  BY <1>3, <2>2, <2>3, BeforeFacts
<1>13. \A a \in ToSet(r) : prio[a] = prio[p] => Before(t, a, p)
  <2> TAKE a \in ToSet(r)
  <2>1. PICK i \in 1 .. n : r[i] = a
    BY MemberFacts
  <2>2. ASSUME prio[a] = prio[p] PROVE i \in 1 .. m
    <3>1. i \notin m + 1 .. n
      BY <1>5, <1>7, <2>1, <2>2
    <3>2. QED  BY <1>2, <3>1
  <2>3. ASSUME i \in 1 .. m PROVE Before(t, a, p)
    <3>1. /\ i \in 1 .. Len(t) /\ m + 1 \in 1 .. Len(t) /\ i < m + 1
          /\ t[i] = a /\ t[m + 1] = p
      BY <1>2, <1>3, <2>1, <2>3
    <3>2. QED  BY <1>3, <3>1, BeforeFacts
  <2>4. QED  BY <2>2, <2>3
<1>14. ToSet(t) = ToSet(r) \cup {p}
  BY insertProcQFacts DEF t
<1>15. Turn(prio, q, t)
  BY <1>11, <1>12, <1>13, <1>14 DEF Turn
<1>16. QED  BY <1>15 DEF t

\* And so does insertAll, for any number of processes.
LEMMA InsertAllTurn ==
  ASSUME NEW S, NEW prio \in [S -> Int], NEW q \in Seq(S), Sorted(prio, q),
         NEW w \in Seq(S), ToSet(w) \cap ToSet(q) = {}
  PROVE  Turn(prio, q, insertAll(prio, q, w))
<1> DEFINE n == Len(w)
<1>1. PICK f : IsInsertion(f, prio, q, w) /\ insertAll(prio, q, w) = f[n]
  BY insertAllRecursion
<1>2. n \in Nat /\ DOMAIN w = 1 .. n
  OBVIOUS
<1> DEFINE Right(k) == f[k] \in Seq(S) /\ Turn(prio, q, f[k])
           Good == {k \in 0 .. n : Right(k)}
<1>3. 0 \in Good
  <2>1. f[0] = q
    BY <1>1, <1>2 DEF IsInsertion
  <2>2. QED  BY <1>2, <2>1, SameTurn
<1>4. ASSUME NEW k \in 0 .. n - 1, k \in Good PROVE k + 1 \in Good
  <2> DEFINE l == k + 1
  <2>1. l \in 1 .. n /\ l \in 0 .. n /\ l - 1 = k /\ l # 0
    BY <1>2
  <2>2. f[l] = insertProcQ(prio, f[k], w[l])
    BY <1>1, <2>1 DEF IsInsertion
  <2>3. Right(k)
    BY <1>4
  <2>4. w[l] \in S /\ w[l] \notin ToSet(q)
    <3>1. w[l] \in S /\ w[l] \in ToSet(w)
      BY <2>1, MemberFacts
    <3>2. QED  BY <3>1
  <2>5. Right(l)
    <3>1. f[k] \in Seq(S) /\ Turn(prio, q, f[k])
      BY <2>3
    <3>2. ASSUME NEW r \in Seq(S), Turn(prio, q, r), NEW e \in S, e \notin ToSet(q)
          PROVE  /\ insertProcQ(prio, r, e) \in Seq(S)
                 /\ Turn(prio, q, insertProcQ(prio, r, e))
      BY <3>2, insertProcQFacts, InsertTurn
    <3>3. /\ insertProcQ(prio, f[k], w[l]) \in Seq(S)
          /\ Turn(prio, q, insertProcQ(prio, f[k], w[l]))
      <4> HIDE DEF l
      <4>1. QED  BY <2>4, <3>1, <3>2
    <3>4. QED  BY <2>2, <3>3
  <2>6. QED  BY <2>1, <2>5
<1>5. Right(n)
  <2>1. 0 .. n \subseteq Good
    <3> HIDE DEF Good, n
    <3>1. QED  BY <1>2, <1>3, <1>4, Induction
  <2>2. n \in Good
    <3> HIDE DEF Good
    <3>1. n \in 0 .. n
      BY <1>2
    <3>2. QED  BY <2>1, <3>1
  <2>3. QED
    <3> HIDE DEF Right
    <3>1. QED  BY <2>2
<1>6. QED  BY <1>1, <1>5
=============================================================================
