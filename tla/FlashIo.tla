------------------------------ MODULE FlashIo -------------------------------
(***************************************************************************)
(* The flash memory between the console and the processor (flash_io,       *)
(* fpga/flash_io.sv).  The processor reads a long word as two words, and   *)
(* loses the memory to the console at any clock of that.                   *)
(***************************************************************************)
EXTENDS CpuRdx

VARIABLES
    request,        \* what the processor asks for, mcu_ce and its address
    mcu_ack,
    delay, state,
    mcu_a1,         \* 1: the second word
    mcu_dati        \* what it is given

arbiterVars == <<mcu_ack, delay, state, mcu_a1, mcu_dati>>
vars == <<oe, addr, held, cpu_oe_st, addr0, addr1, cpu_ack, cpu_delay, cpu_dati_st, pins,
          age, mem, request, mcu_ack, delay, state, mcu_a1, mcu_dati>>

Idle == [op |-> "none", addr |-> 0]
Patch == Words + 1          \* what the processor writes
mcu_ce == request.op # "none"

Init ==
    /\ InitRdx
    /\ mem = [a \in Address |-> a]
    /\ request = Idle
    /\ mcu_ack = FALSE /\ delay = 0 /\ state = 0 /\ mcu_a1 = 0
    /\ mcu_dati = <<Garbage, Garbage>>

\* what is at the pins of the memory; its write enables are not connected
Pins ==
    IF cpu_master THEN [NoPins EXCEPT !.addr = addr, !.oe = oe]
    ELSE [NoPins EXCEPT !.addr = 2 * request.addr + mcu_a1, !.oe = request.op = "read" /\ ~mcu_ack]
-----------------------------------------------------------------------------
(***************************************************************************)
(* The arbiter, by what it does in a clock.                                *)
(***************************************************************************)
NoAccess ==
    /\ ~mcu_ce
    /\ mcu_ack' = FALSE /\ delay' = 0 /\ state' = 0 /\ mcu_a1' = 0
    /\ UNCHANGED mcu_dati

\* Variant for the checks: the whole access begins again.
Interrupted_Anew ==
    /\ mcu_ce /\ cpu_master /\ state # 0 /\ ~mcu_ack
    /\ delay' = 0 /\ state' = 0 /\ mcu_a1' = 0
    /\ UNCHANGED <<mcu_ack, mcu_dati>>

\* the word has to be waited for again
Interrupted ==
    /\ mcu_ce /\ cpu_master /\ state # 0 /\ ~mcu_ack
    /\ delay' = MemTime - 1
    /\ UNCHANGED <<mcu_ack, state, mcu_a1, mcu_dati>>

Waiting ==
    /\ mcu_ce /\ ~(cpu_master /\ state # 0 /\ ~mcu_ack) /\ delay > 0
    /\ delay' = delay - 1
    /\ UNCHANGED <<mcu_ack, state, mcu_a1, mcu_dati>>

Step(s) == mcu_ce /\ ~(cpu_master /\ s # 0 /\ ~mcu_ack) /\ delay = 0 /\ state = s

FirstWord ==
    /\ Step(0)
    /\ delay' = MemTime - 1 /\ mcu_a1' = 0 /\ state' = 1
    /\ UNCHANGED <<mcu_ack, mcu_dati>>

SecondWord ==
    /\ Step(1)
    /\ delay' = MemTime - 1 /\ mcu_a1' = 1 /\ state' = 2
    /\ mcu_dati' = [mcu_dati EXCEPT ![1] = Answer(Pins)]
    /\ UNCHANGED mcu_ack

Done ==
    /\ Step(2)
    /\ mcu_dati' = [mcu_dati EXCEPT ![2] = Answer(Pins)]
    /\ mcu_ack' = TRUE /\ state' = 3
    /\ UNCHANGED <<delay, mcu_a1>>

Over == Step(3) /\ UNCHANGED arbiterVars

Arbiter == NoAccess \/ Interrupted \/ Waiting \/ FirstWord \/ SecondWord \/ Done \/ Over

(***************************************************************************)
(* The processor's bus: an access ends with the clock after mcu_ack.       *)
(***************************************************************************)
Processor ==
    \/ mcu_ack /\ request' = Idle
    \/ ~mcu_ack /\ mcu_ce /\ UNCHANGED request
    \/ ~mcu_ack /\ ~mcu_ce
       /\ \E op \in {"none", "read", "write"}, a \in 0 .. Words \div 2 - 1 :
              request' = [op |-> op, addr |-> a]

Bus == BusStays \/ ReadBegins \/ AddressSettles \/ AddressChanges \/ ReadEnds

Clock == Arbiter /\ RdxClock(Answer(Pins)) /\ MemoryClock(Pins) /\ Processor /\ Bus

Spec == Init /\ [][Clock]_vars /\ WF_vars(Clock)
-----------------------------------------------------------------------------
TypeOK ==
    /\ RdxTypeOK
    /\ request.op \in {"none", "read", "write"} /\ request.addr \in Address
    /\ mcu_ack \in BOOLEAN /\ delay \in 0 .. MemTime - 1 /\ state \in 0 .. 3 /\ mcu_a1 \in {0, 1}
    /\ mcu_ack <=> state = 3

\* Whenever the console took the memory away, and as often, the processor is
\* given the two words it asked for, each by a memory that had its time.
McuReads ==
    mcu_ack /\ request.op = "read" =>
        mcu_dati = <<mem[2 * request.addr], mem[2 * request.addr + 1]>>

\* The console is given its word MemTime + 3 clocks after its read begins,
\* whatever the processor does, and keeps it until the end of the read,
\* though the processor has the memory again meanwhile.
CpuReads == oe /\ held >= MemTime + 3 => CpuData(Answer(Pins)) = mem[addr]

\* A console that reads all the time does not keep the processor from it.
McuServed == mcu_ce ~> mcu_ack

=============================================================================
