---------------------------- MODULE MCSwapPool -----------------------------
(* Instances of SwapPool for TLC. *)
EXTENDS SwapPool, TLC

\* A data page and the stack page.
MCPage == {0, 31}

\* The stack page only.
MCStack == {31}

MCSemaphore == {swapPoolSemaphore}

Symmetry == Permutations(Asid)
=============================================================================
