------------------------------- MODULE Lists -------------------------------
(***************************************************************************)
(* headers/listx.h: circular doubly linked lists of list_heads.            *)
(*                                                                         *)
(* A heap h gives the fields next and prev of every list_head.  A function *)
(* of the header that assigns to fields returns the heap it leaves; the    *)
(* updates of an EXCEPT are done from left to right, as the assignments    *)
(* are, so that aliases (an empty list, a list of one) come out the same.  *)
(***************************************************************************)
EXTENDS Integers, SequencesExt

INIT_LIST_HEAD(h, list) == [h EXCEPT ![list] = [next |-> list, prev |-> list]]

\* __list_add
link(h, new, prev, next) ==
    [h EXCEPT ![next].prev = new,
              ![new].next = next,
              ![new].prev = prev,
              ![prev].next = new]

list_add(h, new, head) == link(h, new, head, h[head].next)

list_add_tail(h, new, head) == link(h, new, h[head].prev, head)

\* Mutant: a list that is linked in one direction only.
UnlinkForward(h, prev, next) == [h EXCEPT ![prev].next = next]

\* __list_del
unlink(h, prev, next) == [h EXCEPT ![next].prev = prev, ![prev].next = next]

list_del(h, entry) ==
    INIT_LIST_HEAD(unlink(h, h[entry].prev, h[entry].next), entry)

list_empty(h, head) == h[head].next = head

\* The list_heads that list_for_each visits, in order, up to the first that is
\* visited again: a list that does not come back to its head is cut there.
Members(h, head) ==
    LET visit[seen \in Seq(DOMAIN h)] ==
            LET pos == h[IF seen = <<>> THEN head ELSE Last(seen)].next
            IN  IF pos # head /\ pos \notin ToSet(seen) /\ pos \in DOMAIN h
                THEN visit[Append(seen, pos)]
                ELSE seen
    IN  visit[<<>>]

\* next and prev of the list_heads in R are inverse to each other and do not
\* leave R: R is a union of circular lists.
Rings(h, R) ==
    \A c \in R :
        /\ h[c].next \in R /\ h[h[c].next].prev = c
        /\ h[c].prev \in R /\ h[h[c].prev].next = c
=============================================================================
