------------------------------ MODULE McuWram ------------------------------
(***************************************************************************)
(* The processor's own memory (mcu_wram of fpga/mcu_core.sv), clock by     *)
(* clock: a long word is two words of a memory without a clock, which      *)
(* takes what is at its pins while the write strobe is there.  A bank of   *)
(* it is the program, which is only read.                                  *)
(***************************************************************************)
EXTENDS Naturals

CONSTANTS
    Longs,      \* long words of a bank
    Delays      \* values of SRM_DELAY the memory may be built with

WramAssumption == Longs \in Nat \ {0} /\ Delays \subseteq {0, 1}

VARIABLES
    SRM_DELAY,      \* clocks more than one for the first word, a parameter
    request,        \* the processor's access: operation, bank, long word, words selected
    ack, state, idle, delay,
    addr1,          \* addr[1]: which of the two words is at the pins
    dati_lo, dati_hi,
    before,         \* the write strobe and the word at the pins in the clock before
    mem,            \* the words of the memory
    old,            \* history: the memory at the start of the access
    result          \* history: what the last access gave the processor

vars == <<SRM_DELAY, request, ack, state, idle, delay, addr1, dati_lo, dati_hi, before, mem, old, result>>

Banks == {"rom", "ram"}
Halves == {0, 1}
Cells == Banks \X (0 .. Longs - 1) \X Halves
Undefined == 2      \* what is read where nothing is given
Values == {0, 1}    \* bound: a word is written with another one than it was

Requests == [op : {"read", "write"}, bank : Banks, long : 0 .. Longs - 1, sel : SUBSET Halves]
None == [op |-> "none", bank |-> "rom", long |-> 0, sel |-> {}]

Init ==
    /\ SRM_DELAY \in Delays
    /\ request = None
    /\ ack = FALSE /\ state = 0 /\ idle = FALSE /\ delay = SRM_DELAY /\ addr1 = 0
    /\ dati_lo = Undefined /\ dati_hi = Undefined
    /\ mem = [w \in Cells |-> 0] /\ old = mem
    /\ before = [we |-> FALSE, word |-> <<"rom", 0, 0>>]
    /\ result = <<Undefined, Undefined>>
-----------------------------------------------------------------------------
wram_ce == request # None
word == <<request.bank, request.long, addr1>>
oe == ~idle /\ wram_ce /\ request.op = "read"

we == ~idle /\ wram_ce /\ request.op = "write" /\ request.bank = "ram" /\ addr1 \in request.sel

wram_dato == IF oe THEN mem[word] ELSE Undefined
mcu_dati == <<dati_lo, IF idle THEN dati_hi ELSE wram_dato>>

\* the processor writes the other value
Memory ==
    /\ mem' = IF we THEN [mem EXCEPT ![word] = 1 - old[word]] ELSE mem
    /\ before' = [we |-> we, word |-> word]

NoAccess ==
    /\ ~wram_ce
    /\ state' = 0 /\ idle' = FALSE /\ ack' = FALSE /\ addr1' = 0 /\ delay' = SRM_DELAY
    /\ UNCHANGED <<dati_lo, dati_hi>>

Delay ==
    /\ wram_ce /\ delay > 0
    /\ delay' = 0
    /\ UNCHANGED <<ack, state, idle, addr1, dati_lo, dati_hi>>

Step(op, s) == wram_ce /\ delay = 0 /\ request.op = op /\ state = s /\ state' = s + 1 /\ UNCHANGED delay

ReadStep ==
    \/ /\ Step("read", 0)
       /\ dati_lo' = wram_dato /\ addr1' = 1 /\ ack' = TRUE
       /\ UNCHANGED <<idle, dati_hi>>
    \/ /\ Step("read", 1)
       /\ dati_hi' = wram_dato /\ idle' = TRUE
       /\ UNCHANGED <<ack, addr1, dati_lo>>

\* Variant for the checks: the word changes under the strobe.
WriteStep_UnderStrobe ==
    /\ \/ Step("write", 0) /\ addr1' = 1 /\ UNCHANGED <<idle, ack>>
       \/ Step("write", 1) /\ ack' = TRUE /\ UNCHANGED <<addr1, idle>>
       \/ Step("write", 2) /\ idle' = TRUE /\ UNCHANGED <<ack, addr1>>
    /\ UNCHANGED <<dati_lo, dati_hi>>

WriteStep ==
    /\ \/ Step("write", 0) /\ idle' = TRUE /\ UNCHANGED <<ack, addr1>>
       \/ Step("write", 1) /\ addr1' = 1 /\ UNCHANGED <<ack, idle>>
       \/ Step("write", 2) /\ idle' = FALSE /\ ack' = TRUE /\ UNCHANGED addr1
       \/ Step("write", 3) /\ idle' = TRUE /\ UNCHANGED <<ack, addr1>>
    /\ UNCHANGED <<dati_lo, dati_hi>>

(***************************************************************************)
(* The processor's bus (vendored): an access ends with the clock after the *)
(* acknowledgement, and there is one without an access before the next.    *)
(***************************************************************************)
Processor ==
    \/ ~wram_ce /\ UNCHANGED <<request, old, result>>
    \/ ~wram_ce /\ request' \in Requests /\ old' = mem /\ UNCHANGED result
    \/ wram_ce /\ ~ack /\ UNCHANGED <<request, old, result>>
    \/ wram_ce /\ ack /\ request' = None /\ result' = mcu_dati /\ UNCHANGED old

Clock ==
    (NoAccess \/ Delay \/ ReadStep \/ WriteStep) /\ Memory /\ Processor /\ UNCHANGED SRM_DELAY

Spec == Init /\ [][Clock]_vars
-----------------------------------------------------------------------------
TypeOK ==
    /\ request \in Requests \cup {None}
    /\ state \in 0 .. 4 /\ addr1 \in Halves /\ {ack, idle} \subseteq BOOLEAN
    /\ mem \in [Cells -> Values]
    /\ ack => state > 0

Whole(r) == <<old[<<r.bank, r.long, 0>>], old[<<r.bank, r.long, 1>>]>>

\* A read gives the two words of the long word that is asked for, though the
\* second one is passed on in the clock in which it comes; and it changes
\* nothing.
ReadWhole ==
    [][request.op = "read" /\ request' = None => result' = Whole(request) /\ mem' = old]_vars

\* When a write is acknowledged, the selected words are written, each with
\* its own half, no other word is, and of the program none.
WriteWhole ==
    [][request.op = "write" /\ request' = None =>
           mem' = [w \in Cells |->
                      IF w[1] = "ram" /\ w[1] = request.bank /\ w[2] = request.long /\ w[3] \in request.sel
                      THEN 1 - old[w] ELSE old[w]]]_vars

\* The word at the pins does not change under the write strobe: there is a
\* clock without the strobe between one word and the next, because a memory
\* without a clock would write both.
StrobeApart == we /\ before.we => before.word = word
=============================================================================
