------------------------------ MODULE Devices ------------------------------
(***************************************************************************)
(* How devices are found: the addresses of their registers, the semaphores *)
(* of device_sem and the interrupt lines.  DoIO goes from the address of a *)
(* command register to a semaphore, interruptHandler from an interrupt to  *)
(* a semaphore and an address, the drivers of the support level from a     *)
(* device to an address.                                                   *)
(***************************************************************************)
EXTENDS Integers

DEVPERINT == 8
DEVREGSIZE == 16
DEVREGLEN == 4
START_DEVREG == 268435540   \* 0x10000054, also DEVREGBASE

\* Registers of a device, in words.
COMMAND == 1
RECVCOMMAND == 1
TRANCOMMAND == 3

SEMDEVLEN == 49
PSEUDO_CLOCK_SEM_INDEX == SEMDEVLEN - 1

Line == 3 .. 7                 \* interrupt lines of devices
DevNo == 0 .. DEVPERINT - 1

\* The machine panics.
PANIC == -1

-----------------------------------------------------------------------------
\* Mutant: one semaphore for the two subdevices of a terminal.
OneForBoth(IntlineNo, devNo, inneroffset) ==
    IF IntlineNo \in Line THEN devNo + 8 * (IntlineNo - 3) ELSE PANIC

\* The element of device_sem for a device, or for one of the two of a terminal.
sem_index_from_dev(IntlineNo, devNo, inneroffset) ==
    IF IntlineNo \in 3 .. 6 THEN devNo + 8 * (IntlineNo - 3)
    ELSE IF IntlineNo = 7 /\ inneroffset = 4 THEN devNo + 32
    ELSE IF IntlineNo = 7 /\ inneroffset = 12 THEN devNo + 40
    ELSE PANIC

\* The semaphore on which DoIO blocks a process that names this register.  The
\* subtraction is one of 32 bits: below START_DEVREG it gives a line past 7
\* there, and one before 3 here; both panic.
DoIO(commandreg) ==
    LET offset == commandreg - START_DEVREG
        inneroffset == offset % DEVREGSIZE
        devoffset == offset - inneroffset
        IntlineNo == 3 + devoffset \div (DEVREGSIZE * DEVPERINT)
        devNo == (devoffset % (DEVREGSIZE * DEVPERINT)) \div DEVREGSIZE
    IN  IF inneroffset \in {4, 12} /\ IntlineNo \in Line
        THEN sem_index_from_dev(IntlineNo, devNo, inneroffset)
        ELSE PANIC

-----------------------------------------------------------------------------
(* The interrupt handler *)

\* cause_code to intline: 7 and 3 are the timers, 17 to 21 the devices.
intline(cause_code) ==
    IF cause_code = 7 THEN 1
    ELSE IF cause_code = 3 THEN 2
    ELSE IF cause_code \in 17 .. 21 THEN cause_code - 14
    ELSE PANIC

\* The device that is served; bitmap is the set of those of the line with an
\* interrupt pending.
FirstDevice(bitmap) ==
    IF bitmap = {} THEN PANIC
    ELSE CHOOSE devNo \in bitmap : \A d \in bitmap : devNo <= d

devaddrb(line, devNo) ==
    START_DEVREG + (line - 3) * (DEVPERINT * DEVREGSIZE) + devNo * DEVREGSIZE

\* The command register that gets the ACK, and the semaphore of the V.
CommandAddr(line, devNo, register) == devaddrb(line, devNo) + register * DEVREGLEN
semaddr(line, devNo, register) == sem_index_from_dev(line, devNo, register * DEVREGLEN)

-----------------------------------------------------------------------------
(* The drivers of the support level *)

\* rwToMem: each process has the flash device of its ASID.
FlashCommand(asid) == START_DEVREG + (4 - 3) * 128 + (asid - 1) * 16 + 4

\* Syscall4 and Syscall5: the registers of terminal 0.
transm_command == CommandAddr(7, 0, TRANCOMMAND)
recv_command == CommandAddr(7, 0, RECVCOMMAND)

-----------------------------------------------------------------------------
(* Correctness *)

\* Registers that a command can be given to: one for each device, two for a
\* terminal.
Register(line) == IF line = 7 THEN {RECVCOMMAND, TRANCOMMAND} ELSE {COMMAND}

\* The V of the interrupt of a device is on the semaphore of the P of DOIO, which
\* computes it from an address; and this semaphore is not the clock's.
SameSemaphore ==
    \A line \in Line, devNo \in DevNo : \A register \in Register(line) :
        /\ DoIO(CommandAddr(line, devNo, register)) = semaddr(line, devNo, register)
        /\ semaddr(line, devNo, register) \in 0 .. PSEUDO_CLOCK_SEM_INDEX - 1

\* Whatever address a process gives to DOIO, the nucleus panics or blocks it on an
\* element of device_sem that is not the clock's.
AnyAddress ==
    \A commandreg \in Nat : DoIO(commandreg) \in {PANIC} \cup 0 .. PSEUDO_CLOCK_SEM_INDEX - 1

\* No two devices have a semaphore in common.
OwnSemaphore ==
    \A l1, l2 \in Line, d1, d2 \in DevNo : \A r1 \in Register(l1), r2 \in Register(l2) :
        semaddr(l1, d1, r1) = semaddr(l2, d2, r2) => l1 = l2 /\ d1 = d2 /\ r1 = r2

\* Each process waits for its own flash device, on the semaphore of line 4 that
\* the interrupt of that device releases.
OwnFlash ==
    \A asid \in 1 .. 8 : DoIO(FlashCommand(asid)) = semaddr(4, asid - 1, COMMAND)
=============================================================================
