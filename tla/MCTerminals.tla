---------------------------- MODULE MCTerminals ----------------------------
(* Instances of Terminals for TLC. *)
EXTENDS Terminals, TLC

MCPage == {0}
MCSemaphore == {swapPoolSemaphore, readTermsemaphore, writeTermsemaphore}

Symmetry == Permutations(Asid)
=============================================================================
