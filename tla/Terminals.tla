----------------------------- MODULE Terminals -----------------------------
(***************************************************************************)
(* Terminal 0, which the user processes share: the system calls that write *)
(* and read lines (Syscall4 and Syscall5 of phase3/sysSupport.c), character*)
(* by character with a DOIO each, the two subdevices, and the part of      *)
(* interruptHandler (phase2/interrupts.c) that acknowledges them.          *)
(*                                                                         *)
(* The handlers read and write the buffer of their caller, which may be    *)
(* paged out at any moment: between two characters the pager runs, with    *)
(* the terminal's semaphore held.  A buffer is in one page; NULL stands    *)
(* for an address outside of those that checkAddress and Syscall4 accept.  *)
(***************************************************************************)
EXTENDS SwapPool

CONSTANTS
    readTermsemaphore,
    writeTermsemaphore,
    MaxLen,             \* bound: the longest line that is written or read
    TransmitErrors      \* whether the transmitter may report an error

ASSUME TerminalAssumption ==
    /\ {readTermsemaphore, writeTermsemaphore} \subseteq Semaphore
    /\ Cardinality({readTermsemaphore, writeTermsemaphore, swapPoolSemaphore}) = 3
    /\ MaxLen \in Nat
    /\ TransmitErrors \in BOOLEAN

WRITETERMINAL == 4
READTERMINAL == 5

\* A call in progress.
Calls == [num : {WRITETERMINAL, READTERMINAL}, page : Page \cup {NULL}, len : Nat, done : Nat]

ASSUME CallAssumption == NULL \notin Calls

VARIABLES
    call,      \* the call of each process: number, page of the buffer, length
               \* and characters done; NULL if there is none
    reg_a0,    \* the a0 that LDST gives back to the process
    retVal,    \* status word that the last DOIO has returned
    transm,    \* status of the transmitter: "ready", "busy", "done", "error"
    recv       \* status of the receiver, which may also be "newline"

termVars == <<call, reg_a0, retVal, transm, recv>>
all == <<vars, termVars>>

Dev == INSTANCE Devices

MemoryUnchanged == UNCHANGED <<pagerVars, poolVars, mmuVars, dataVars>>

SemOf(a) == IF call[a].num = WRITETERMINAL THEN writeTermsemaphore ELSE readTermsemaphore

\* The call of a ends with a0 = val.
Done(a, val) ==
    /\ Go(a, "user")
    /\ call' = [call EXCEPT ![a] = NULL]
    /\ reg_a0' = [reg_a0 EXCEPT ![a] = val]
    /\ Sem!V(SemOf(a))

\* One more character: a goes on at where.
OneMore(a, where) ==
    /\ Go(a, where)
    /\ call' = [call EXCEPT ![a].done = @ + 1]
    /\ reg_a0' = [reg_a0 EXCEPT ![a] = @ + 1]
    /\ UNCHANGED semVars

\* P on the semaphore of the call c, whose number is in a0 when it is made.
Call(a, c, s, val) ==
    /\ at[a] = "user"
    /\ Go(a, "wait")
    /\ call' = [call EXCEPT ![a] = c]
    /\ reg_a0' = [reg_a0 EXCEPT ![a] = val]
    /\ Sem!P(a, s)
    /\ MemoryUnchanged
    /\ UNCHANGED <<retVal, transm, recv>>

-----------------------------------------------------------------------------
(* Syscall4 *)

\* Mutant: no mutual exclusion of writers.
WriteUnlocked(a, p, n) ==
    /\ n > 0
    /\ at[a] = "user"
    /\ Go(a, "wait")
    /\ call' = [call EXCEPT ![a] =
                  [num |-> WRITETERMINAL, page |-> p, len |-> n, done |-> 0]]
    /\ reg_a0' = [reg_a0 EXCEPT ![a] = WRITETERMINAL]
    /\ MemoryUnchanged
    /\ UNCHANGED <<semVars, retVal, transm, recv>>

WriteTerminal(a, p, n) ==
    /\ n > 0
    /\ Call(a, [num |-> WRITETERMINAL, page |-> p, len |-> n, done |-> 0],
            writeTermsemaphore, WRITETERMINAL)

\* An empty line needs no semaphore.
WriteNothing(a) ==
    /\ at[a] = "user"
    /\ reg_a0' = [reg_a0 EXCEPT ![a] = 0]
    /\ MemoryUnchanged
    /\ UNCHANGED <<at, semVars, call, retVal, transm, recv>>

\* After the P: a buffer outside of the process ends a write with -1.
Begin(a) ==
    /\ at[a] = "wait" /\ ~Sem!Waits(a)
    /\ \/ /\ call[a].num = WRITETERMINAL /\ call[a].page = NULL
          /\ Done(a, -1)
       \/ /\ call[a].page # NULL
          /\ Go(a, IF call[a].num = WRITETERMINAL THEN "send" ELSE "receive")
          /\ UNCHANGED <<semVars, call, reg_a0>>
    /\ MemoryUnchanged
    /\ UNCHANGED <<retVal, transm, recv>>

\* The character is fetched through the TLB, and DOIO blocks.
Send(a) ==
    /\ at[a] = "send"
    /\ call[a].done < call[a].len
    /\ tlb[<<a, call[a].page>>] \in Frame
    /\ Go(a, "transmit")
    /\ transm' = "busy"
    /\ MemoryUnchanged
    /\ UNCHANGED <<semVars, call, reg_a0, retVal, recv>>

\* What the handler makes of the status.  For a buffer in the stack it compares
\* the whole word with -1, so no error of the device is noticed.
Sent(a) ==
    /\ at[a] = "sent"
    /\ IF retVal[a] = "done" \/ call[a].page = 31
       THEN OneMore(a, "send")
       ELSE Done(a, -4)
    /\ MemoryUnchanged
    /\ UNCHANGED <<retVal, transm, recv>>

EndWrite(a) ==
    /\ at[a] = "send"
    /\ call[a].done = call[a].len
    /\ Done(a, reg_a0[a])
    /\ MemoryUnchanged
    /\ UNCHANGED <<retVal, transm, recv>>

-----------------------------------------------------------------------------
(* Syscall5 *)

ReadTerminal(a, p) ==
    IF p # NULL
    THEN Call(a, [num |-> READTERMINAL, page |-> p, len |-> MaxLen, done |-> 0],
              readTermsemaphore, 0)
    ELSE /\ at[a] = "user"
         /\ Go(a, "quit")
         /\ reg_a0' = [reg_a0 EXCEPT ![a] = 0]
         /\ MemoryUnchanged
         /\ UNCHANGED <<semVars, call, retVal, transm, recv>>

Receive(a) ==
    /\ at[a] = "receive"
    /\ Go(a, "receiving")
    /\ recv' = "busy"
    /\ MemoryUnchanged
    /\ UNCHANGED <<semVars, call, reg_a0, retVal, transm>>

\* The line has filled the buffer up to the last address of the process: V, and
\* the process is terminated.
OffTheEnd(a) ==
    /\ at[a] = "receive"
    /\ call[a].done > 0
    /\ Go(a, "quit")
    /\ call' = [call EXCEPT ![a] = NULL]
    /\ Sem!V(readTermsemaphore)
    /\ MemoryUnchanged
    /\ UNCHANGED <<reg_a0, retVal, transm, recv>>

ReceiveFails(a) ==
    /\ at[a] = "store"
    /\ retVal[a] \notin {"done", "newline"}
    /\ Done(a, -4)
    /\ MemoryUnchanged
    /\ UNCHANGED <<retVal, transm, recv>>

\* The character is stored through the TLB.
StoreChar(a) ==
    LET k == <<a, call[a].page>>
    IN  /\ at[a] = "store"
        /\ retVal[a] \in {"done", "newline"}
        /\ tlb[k] \in Frame
        /\ IF retVal[a] = "newline" THEN Done(a, reg_a0[a] + 1) ELSE OneMore(a, "receive")
        /\ frames' = [j \in Key |-> IF j = k THEN {tlb[k]} ELSE frames[j] \ {tlb[k]}]
        /\ flash' = flash \ {k}
        /\ UNCHANGED <<pagerVars, poolVars, mmuVars, retVal, transm, recv>>

-----------------------------------------------------------------------------
(* The device, and its interrupts *)

\* The bound MaxLen: a line that is as long as that ends with a newline.
Complete ==
    /\ \/ /\ transm = "busy"
          /\ transm' \in {"done"} \cup (IF TransmitErrors THEN {"error"} ELSE {})
          /\ UNCHANGED recv
       \/ /\ recv = "busy"
          /\ recv' \in {"newline", "error"} \cup
                (IF \E a \in Asid : at[a] = "receiving" /\ call[a].done + 1 < MaxLen
                 THEN {"done"} ELSE {})
          /\ UNCHANGED transm
    /\ MemoryUnchanged
    /\ UNCHANGED <<at, semVars, call, reg_a0, retVal>>

Pending == transm \in {"done", "error"} \/ recv \in {"done", "newline", "error"}

\* In a DOIO on the command register of the transmitter, or of the receiver.
InTransm(a) == at[a] = "transmit"
InRecv(a) == at[a] = "receiving"

\* The element of device_sem that a process is blocked on.
BlockedOn(a) ==
    IF InTransm(a) THEN Dev!DoIO(Dev!transm_command)
    ELSE IF InRecv(a) THEN Dev!DoIO(Dev!recv_command)
    ELSE Dev!PANIC

\* The processes blocked on semaddr go on after their DOIO, with the status.
Wake(semaddr, status) ==
    /\ at' = [p \in Process |->
                IF BlockedOn(p) # semaddr THEN at[p]
                ELSE IF InTransm(p) THEN "sent" ELSE "store"]
    /\ retVal' = [a \in Asid |-> IF BlockedOn(a) = semaddr THEN status ELSE retVal[a]]

\* Mutant: the receiver is looked at first.
RecvFirst == transm = "done" /\ recv = "ready"

\* Whether interruptHandler serves the transmitter: a status other than success
\* does not count.
ServesTransm == transm = "done"

\* Terminal 0 is pending on the line of terminals.  If its transmitter is not to be
\* served, the receiver is, unless it is ready: then the handler panics.
TerminalInterrupt ==
    LET intline == Dev!intline(21)
        devNo == Dev!FirstDevice({0})
    IN
    /\ Pending
    /\ IF ServesTransm
       THEN /\ transm' = "ready"
            /\ Wake(Dev!semaddr(intline, devNo, Dev!TRANCOMMAND), transm)
            /\ UNCHANGED recv
       ELSE /\ recv' = "ready"
            /\ IF recv # "ready"
               THEN Wake(Dev!semaddr(intline, devNo, Dev!RECVCOMMAND), recv)
               ELSE at' = [p \in Process |-> "panic"] /\ UNCHANGED retVal
            /\ UNCHANGED transm
    /\ MemoryUnchanged
    /\ UNCHANGED <<semVars, call, reg_a0>>

-----------------------------------------------------------------------------
TermInit ==
    /\ Init
    /\ call = [a \in Asid |-> NULL]
    /\ reg_a0 = [a \in Asid |-> 0]
    /\ retVal = [a \in Asid |-> "done"]
    /\ transm = "ready"
    /\ recv = "ready"

TermNext ==
    \/ \E a \in Asid :
          \/ UNCHANGED termVars /\ (Code(a) \/ pager(a) \/ Terminate(a) \/ Quit(a) \/ Restart(a))
          \/ \E p \in Page \cup {NULL} :
                ReadTerminal(a, p) \/ \E n \in 0 .. MaxLen : WriteTerminal(a, p, n)
          \/ WriteNothing(a)
          \/ Begin(a)
          \/ Send(a) \/ Sent(a) \/ EndWrite(a)
          \/ Receive(a) \/ OffTheEnd(a) \/ ReceiveFails(a) \/ StoreChar(a)
    \/ Complete
    \/ TerminalInterrupt

TermSpec == TermInit /\ [][TermNext]_all

-----------------------------------------------------------------------------
(* Correctness *)

\* Processes that hold the semaphore of a call, in the pager or out of it.
Owners(num) ==
    {a \in Asid : /\ call[a] # NULL
                  /\ call[a].num = num
                  /\ ~(at[a] = "wait" /\ Sem!Waits(a))}

\* One process at a time writes and one reads, and their semaphores know, also
\* while the pager serves them and after every way out of the two calls.
TerminalExclusive ==
    /\ Cardinality(Owners(WRITETERMINAL)) + count[writeTermsemaphore] = 1
    /\ Cardinality(Owners(READTERMINAL)) + count[readTermsemaphore] = 1

\* A subdevice works for the one process that waits for it: no command is given
\* to a busy device, no completion finds nobody, no process waits for a device
\* that does nothing.  (It is what DoIO of the nucleus relies on.)
OneDriver ==
    /\ Cardinality({a \in Asid : at[a] = "transmit"}) = IF transm = "ready" THEN 0 ELSE 1
    /\ Cardinality({a \in Asid : at[a] = "receiving"}) = IF recv = "ready" THEN 0 ELSE 1

\* A DOIO returns when the device has completed the command, with its status.
TrueStatus == \A a \in Asid : at[a] \in {"sent", "store"} => retVal[a] # "busy"

\* An error of the transmitter ends the write ("se syscall termina con risultato
\* != da character trasmitted(5) ritorna -1 in a0"), not the system.
NoPanic == \A p \in Process : at[p] # "panic"

\* "ritorna la lunghezza del contenuto": a write of n characters that comes to
\* its end returns n.
WriteReturnsLength ==
    [][\A a \in Asid :
         at[a] = "send" /\ at'[a] = "user" => reg_a0'[a] = call[a].len]_all
=============================================================================
