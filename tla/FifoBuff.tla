------------------------------ MODULE FifoBuff ------------------------------
(***************************************************************************)
(* The queue from the cartridge to the firmware (fifo and fifo_buff of     *)
(* fpga/mdp/fifo.sv), clock by clock.  A byte goes into the memory while   *)
(* its write lasts and counts two clocks after that; a read counts two     *)
(* clocks after its end as well.  The firmware reads the status, which is  *)
(* held while it does, and then a byte.                                    *)
(***************************************************************************)
EXTENDS Naturals

CONSTANTS
    Size,       \* bytes the pointers tell apart, 2048
    WriteLasts, \* clocks of a write, at most
    WriteGap,   \* clocks between two writes, at least
    ReadGap     \* clocks between two accesses of the firmware, at least

FifoAssumption ==
    /\ Size \in Nat /\ Size > 1
    /\ WriteLasts \in Nat \ {0} /\ WriteGap \in Nat /\ WriteGap >= 2
    /\ ReadGap \in Nat /\ ReadGap >= 3

VARIABLES
    we_addr, oe_addr,
    we_st, oe_st,   \* the strobes of the two clocks before, the later first
    ram, dato,      \* the memory, and what it gives
    fifo_status,    \* the queue was empty when the status was last latched
    we, we_for,     \* the write strobe, and since when it is as it is
    access,         \* what the firmware reads: nothing, the status or a byte
    access_for,     \* and since when it does
    seen,           \* the firmware saw a byte in the queue
    put, taken,     \* history: bytes written and read, modulo Tags
    last            \* history: the last byte read

vars == <<we_addr, oe_addr, we_st, oe_st, ram, dato, fifo_status, we, we_for, access,
          access_for, seen, put, taken, last>>

Tags == 2 * Size            \* bound: bytes are told apart by their number
Longest == WriteLasts + WriteGap + ReadGap  \* bound on the clocks counted

Init ==
    /\ we_addr = 0 /\ oe_addr = 0
    /\ we_st = <<FALSE, FALSE>> /\ oe_st = <<FALSE, FALSE>>
    /\ ram = [a \in 0 .. Size - 1 |-> Tags] /\ dato = Tags
    /\ fifo_status = TRUE
    /\ we = FALSE /\ we_for = WriteGap /\ access = "none" /\ access_for = ReadGap
    /\ seen = FALSE /\ put = 0 /\ taken = 0 /\ last = Tags
-----------------------------------------------------------------------------
fifo_empty == we_addr = oe_addr

\* the read strobe
oe == access = "byte"

\* Variant for the checks: the read counts at its beginning.
oe_end_AtStart == oe_st = <<TRUE, FALSE>>

oe_end == oe_st = <<FALSE, TRUE>>

we_end == we_st = <<FALSE, TRUE>>

\* the status is latched until it is read
Status == fifo_status' = IF access = "status" THEN fifo_status ELSE fifo_empty

Advance(addr) == (addr + 1) % Size

Buffer ==
    /\ oe_st' = <<oe /\ ~fifo_empty, oe_st[1]>>
    /\ we_st' = <<we, we_st[1]>>
    /\ oe_addr' = IF oe_end THEN Advance(oe_addr) ELSE oe_addr
    /\ we_addr' = IF we_end THEN Advance(we_addr) ELSE we_addr
    /\ ram' = IF we THEN [ram EXCEPT ![we_addr] = put] ELSE ram
    /\ dato' = ram[oe_addr]
-----------------------------------------------------------------------------
Longer(n) == IF n < Longest THEN n + 1 ELSE n

(***************************************************************************)
(* The cartridge, outside the repository, by the strobe of its bus; a byte *)
(* of it is only written while there is room.                              *)
(***************************************************************************)
WriteStays == UNCHANGED <<we, put>> /\ we_for' = Longer(we_for) /\ (we => we_for < WriteLasts)
WriteBegins ==
    /\ ~we /\ we_for >= WriteGap
    /\ (put - taken + Tags) % Tags < Size - 1
    /\ we' = TRUE /\ we_for' = 1 /\ UNCHANGED put
WriteEnds == we /\ we' = FALSE /\ we_for' = 1 /\ put' = (put + 1) % Tags

Cartridge == WriteStays \/ WriteBegins \/ WriteEnds

(***************************************************************************)
(* ed_fifo_rd: the status until it says that there is a byte, then the     *)
(* byte.  An access takes one or two clocks here: the queue sees its first *)
(* clock and the one after its last, and what lies between makes no        *)
(* difference to it.                                                       *)
(***************************************************************************)
AccessBegins(what) ==
    /\ access = "none" /\ access_for >= ReadGap
    /\ access' = what /\ access_for' = 1
    /\ UNCHANGED <<seen, taken, last>>

AccessStays ==
    /\ access # "none" => access_for < 2
    /\ access_for' = Longer(access_for)
    /\ UNCHANGED <<access, seen, taken, last>>

StatusRead ==
    /\ access = "status"
    /\ access' = "none" /\ access_for' = 1
    /\ seen' = ~fifo_status
    /\ UNCHANGED <<taken, last>>

ByteRead ==
    /\ access = "byte"
    /\ access' = "none" /\ access_for' = 1
    /\ last' = dato /\ taken' = (taken + 1) % Tags
    /\ seen' = FALSE

Firmware ==
    \/ ~seen /\ AccessBegins("status")
    \/ seen /\ AccessBegins("byte")
    \/ AccessStays \/ StatusRead \/ ByteRead

Clock == Status /\ Buffer /\ Cartridge /\ Firmware

Spec == Init /\ [][Clock]_vars
-----------------------------------------------------------------------------
TypeOK ==
    /\ we_addr \in 0 .. Size - 1 /\ oe_addr \in 0 .. Size - 1
    /\ ram \in [0 .. Size - 1 -> 0 .. Tags] /\ dato \in 0 .. Tags
    /\ access \in {"none", "status", "byte"}
    /\ seen => access # "status"

\* Bytes are read in the order they were written, each once, and none before
\* it is there: whatever the clock a write begins, lasts and ends.
ReadInOrder ==
    /\ last # Tags => last = (taken + Tags - 1) % Tags
    /\ seen => ~fifo_empty

\* A byte the queue counts is in the memory, and between two accesses the
\* queue counts those that were written and not read, save one that ended in
\* the last two clocks.
Counts ==
    LET counted == (we_addr - oe_addr + Size) % Size
        there == (put - taken + Tags) % Tags
        late == IF oe_st[1] \/ oe_st[2] THEN 1 ELSE 0
        early == IF ~we /\ (we_st[1] \/ we_st[2]) THEN 1 ELSE 0
    IN  access # "byte" => counted + early = there + late
=============================================================================
