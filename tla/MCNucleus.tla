----------------------------- MODULE MCNucleus -----------------------------
(* Nucleus with small sets of model values. *)
EXTENDS Nucleus, TLC

\* PCBs are told apart by nothing but their contents, and the user semaphores
\* by nothing at all.
Symmetry == Permutations(Pcb) \cup Permutations(UserSem)
=============================================================================
