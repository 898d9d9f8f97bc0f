------------------------------- MODULE CpuRdx -------------------------------
(***************************************************************************)
(* How the console reads a memory it shares with the processor (cpu_rdx of *)
(* fpga/flash_io.sv, used by flash_io and sdram_io), clock by clock, with  *)
(* the console's bus and the memory, which are external: the bus is not in *)
(* step with the clock, the memory needs MemTime clocks without a change   *)
(* at its pins to answer or to take a word.                                *)
(***************************************************************************)
EXTENDS Naturals

CONSTANTS
    MemTime,    \* MEM_TIME, in clocks
    Words,      \* words of the memory, an even number
    CpuAddress, \* the addresses the console reads
    Hold,       \* clocks the console holds an address at least,
    Gap         \* and is away between two reads

ASSUME BusAssumption ==
    /\ MemTime \in Nat \ {0} /\ Words \in Nat \ {0}
    /\ Hold \in Nat /\ Hold >= 2 * MemTime + 3
    /\ CpuAddress \subseteq 0 .. Words - 1
    /\ Gap \in Nat \ {0}

VARIABLES
    oe, addr,       \* the console's bus: it reads, and where
    held,           \* clocks since one of them changed, up to Hold
    cpu_oe_st,      \* oe in the clocks before, the latest first
    addr0, addr1,   \* cpu_addr[0] and [1]
    cpu_ack,        \* what was read is in cpu_dati_st
    cpu_delay,      \* delay of cpu_rdx
    cpu_dati_st,
    pins,           \* what the memory saw in the clock before,
    age,            \* and for how many clocks, up to MemTime
    mem             \* the words of the memory

busVars == <<oe, addr, held>>
rdxVars == <<cpu_oe_st, addr0, addr1, cpu_ack, cpu_delay, cpu_dati_st>>
memoryVars == <<pins, age, mem>>

Address == 0 .. Words - 1
Garbage == Words            \* what a memory gives that had no time to answer
NoPins == [addr |-> 0, oe |-> FALSE, we |-> FALSE, data |-> Garbage]

InitRdx ==
    /\ oe = FALSE /\ addr = 0 /\ held = Hold
    /\ cpu_oe_st = <<FALSE, FALSE, FALSE>>
    /\ addr0 = 0 /\ addr1 = 0
    /\ cpu_ack = FALSE /\ cpu_delay = 0 /\ cpu_dati_st = Garbage
    /\ pins = NoPins /\ age = MemTime
-----------------------------------------------------------------------------
(***************************************************************************)
(* The memory, by what is at its pins.                                     *)
(***************************************************************************)
Age(now) == IF now = pins THEN (IF age < MemTime THEN age + 1 ELSE age) ELSE 1

Answer(now) == IF now.oe /\ Age(now) >= MemTime THEN mem[now.addr] ELSE Garbage

\* a word is undefined from the beginning of a write until it had its time
MemoryClock(now) ==
    /\ pins' = now
    /\ age' = Age(now)
    /\ mem' = IF now.we
              THEN [mem EXCEPT ![now.addr] = IF Age(now) >= MemTime THEN now.data ELSE Garbage]
              ELSE mem
-----------------------------------------------------------------------------
(***************************************************************************)
(* cpu_rdx.                                                                *)
(***************************************************************************)
cpu_master == cpu_oe_st[1] /\ ~cpu_ack

\* what the console is given in this clock
CpuData(answer) == IF cpu_ack THEN cpu_dati_st ELSE answer

RdxClock(answer) ==
    /\ cpu_oe_st' = <<oe, cpu_oe_st[1], cpu_oe_st[2]>>
    /\ addr0' = addr /\ addr1' = addr0
    /\ cpu_dati_st' = (IF cpu_ack THEN cpu_dati_st ELSE answer)
    /\ IF ~cpu_oe_st[1] \/ addr1 # addr0
       THEN cpu_ack' = FALSE /\ cpu_delay' = MemTime
       ELSE IF cpu_delay > 0 THEN cpu_delay' = cpu_delay - 1 /\ UNCHANGED cpu_ack
                             ELSE cpu_ack' = TRUE /\ UNCHANGED cpu_delay
-----------------------------------------------------------------------------
(***************************************************************************)
(* The console's bus in the next clock.                                    *)
(***************************************************************************)
BusStays == held' = (IF held < Hold THEN held + 1 ELSE held) /\ UNCHANGED <<oe, addr>>

ReadBegins == ~oe /\ held >= Gap /\ oe' = TRUE /\ addr' \in CpuAddress /\ held' = 1

\* the address of this read, a clock late
AddressSettles ==
    /\ oe /\ held = 1
    /\ addr' \in CpuAddress \ {addr}
    /\ held' = 2 /\ UNCHANGED oe

\* the next read without an end of this one
AddressChanges ==
    /\ oe /\ held = Hold
    /\ addr' \in CpuAddress \ {addr}
    /\ held' = 1 /\ UNCHANGED oe

ReadEnds == oe /\ held = Hold /\ oe' = FALSE /\ held' = 1 /\ UNCHANGED addr

RdxTypeOK ==
    /\ oe \in BOOLEAN /\ addr \in Address /\ held \in 1 .. Hold
    /\ cpu_oe_st \in BOOLEAN \X BOOLEAN \X BOOLEAN
    /\ addr0 \in Address /\ addr1 \in Address
    /\ cpu_ack \in BOOLEAN /\ cpu_delay \in 0 .. MemTime
    /\ age \in 1 .. MemTime
=============================================================================
