----------------------------- MODULE MCSupport -----------------------------
(* Instances of Support for TLC. *)
EXTENDS Support, TLC

MCPage == {31}
MCProcess == Asid \cup {Test}
MCSemaphore == {swapPoolSemaphore, masterSemaphore, shellSemaphore}
=============================================================================
