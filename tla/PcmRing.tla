------------------------------ MODULE PcmRing -------------------------------
(***************************************************************************)
(* The audio ring of the MD+ drive (mdp_pcm_buff and the registers of      *)
(* mdp_pi_regs that rule it, fpga/mdp/mdp.sv).  The drive writes blocks    *)
(* when it is told that there is room; the clock of the sound (dac_clocker *)
(* of fpga/var.sv) reads a sample byte by byte and hands it over at the    *)
(* end of its period.                                                      *)
(***************************************************************************)
EXTENDS Naturals, Sequences

CONSTANTS
    Ring,       \* bytes in the ring, 8192
    Block,      \* bytes of a block of the drive, 2352
    Ahead,      \* blocks the drive writes before it starts the sound
    Quarter,    \* clocks of the sound in which one byte is read, 128
    Burst       \* bytes the drive can write in that time

RingAssumption ==
    /\ Ring \in Nat /\ Ring % 4 = 0
    /\ Block \in Nat /\ Block % 4 = 0 /\ Block > 4 * Burst
    /\ Ahead \in Nat \ {0} /\ Burst \in Nat /\ (Ahead + 1) * Block < Ring
    /\ Quarter \in Nat /\ Quarter > 2

VARIABLES
    ring,       \* the bytes in the ring
    wr_addr,    \* where the next byte goes
    rd_addr,    \* the sample that is read, and
    part,       \* the byte of it: bits 12..2 and 1..0 of rd_addr
    empty,      \* there is no sample to read
    play, addr_rst,
    phase,      \* clocks since the period of the sample began
    latch,      \* pcm_l_int and pcm_r_int, by bytes
    pcm,        \* the sample handed over
    left,       \* bytes of the block the drive has to write yet
    ahead,      \* blocks written before the start
    sent,       \* number of the next byte, modulo Tags
    burst       \* bytes written in this quarter

clockVars == <<phase, latch, pcm, rd_addr, part, empty>>
driveVars == <<left, ahead, sent, burst>>
vars == <<ring, wr_addr, rd_addr, part, empty, play, addr_rst, phase, latch, pcm, left,
          ahead, sent, burst>>

Tags == 2 * Ring            \* bound: bytes are told apart by their number
Old == Tags                 \* a byte of before the last start
Byte == 0 .. Tags
Samples == Ring \div 4
Phases == 4 * Quarter

Init ==
    /\ ring = [a \in 0 .. Ring - 1 |-> Old]
    /\ wr_addr = 0 /\ rd_addr = 0 /\ part = 0
    /\ empty = TRUE /\ play = FALSE /\ addr_rst = TRUE
    /\ phase = 0 /\ latch = [k \in 0 .. 3 |-> Old] /\ pcm = << >>
    /\ left = 0 /\ ahead = 0 /\ sent = 0 /\ burst = 0
-----------------------------------------------------------------------------
(***************************************************************************)
(* What the drive is told.                                                 *)
(***************************************************************************)
wr_sample == wr_addr \div 4

pcm_delta == (4 * rd_addr + part + Ring - wr_addr) % Ring

\* Variant for the checks: the empty ring is not told from the full one.
can_wr_ByDistance == pcm_delta > Block

can_wr == pcm_delta > Block \/ empty
-----------------------------------------------------------------------------
(***************************************************************************)
(* The drive, outside the repository, and the registers it writes.  A byte *)
(* takes the link more than two clocks of the logic, so that wr_addr is    *)
(* reset before the next one and can_wr has settled when it is read.       *)
(***************************************************************************)
Settled == addr_rst => wr_addr = 0

WritePcm ==
    /\ left > 0 /\ burst < Burst /\ Settled
    /\ ring' = [ring EXCEPT ![wr_addr] = sent]
    /\ wr_addr' = (wr_addr + 1) % Ring
    /\ addr_rst' = FALSE
    /\ left' = left - 1 /\ burst' = burst + 1 /\ sent' = (sent + 1) % Tags
    /\ UNCHANGED <<clockVars, play, ahead>>

\* without sound can_wr always says yes, and the drive has to count itself
BlockAhead ==
    /\ left = 0 /\ ~play /\ ahead < Ahead
    /\ ahead' = ahead + 1 /\ left' = Block
    /\ UNCHANGED <<clockVars, ring, wr_addr, play, addr_rst, sent, burst>>

NextBlock ==
    /\ left = 0 /\ play /\ can_wr
    /\ left' = Block
    /\ UNCHANGED <<clockVars, ring, wr_addr, play, addr_rst, ahead, sent, burst>>

Start ==
    /\ left = 0 /\ ~play /\ Settled
    /\ play' = TRUE /\ addr_rst' = FALSE
    /\ UNCHANGED <<clockVars, ring, wr_addr, driveVars>>

\* What was sent until now is marked as old.
Forget ==
    /\ ring' = [a \in 0 .. Ring - 1 |-> Old]
    /\ latch' = [k \in 0 .. 3 |-> Old]
    /\ sent' = 0 /\ ahead' = 0

Stop ==
    /\ left = 0 /\ play
    /\ play' = FALSE /\ addr_rst' = TRUE
    /\ rd_addr' = 0 /\ part' = 0 /\ empty' = TRUE
    /\ Forget
    /\ UNCHANGED <<wr_addr, phase, pcm, left, burst>>

AddrReset ==
    /\ addr_rst
    /\ wr_addr' = 0
    /\ UNCHANGED <<clockVars, ring, play, addr_rst, driveVars>>
-----------------------------------------------------------------------------
(***************************************************************************)
(* The clock of the sound.                                                 *)
(***************************************************************************)
next_sample == phase = Phases - 1

Clock ==
    /\ phase' = (phase + 1) % Phases
    /\ burst' = IF phase' % Quarter = 0 THEN 0 ELSE burst
    /\ UNCHANGED <<ring, wr_addr, play, addr_rst, left, ahead, sent>>

ClockSilent ==
    /\ ~play
    /\ Clock
    /\ UNCHANGED <<latch, pcm, rd_addr, part, empty>>

\* the drive is at the sample that would be read
ClockEmpty ==
    /\ play /\ rd_addr = wr_sample
    /\ Clock
    /\ empty' = TRUE
    /\ UNCHANGED <<latch, pcm, rd_addr, part>>

\* reading begins with a period
ClockFilled ==
    /\ play /\ rd_addr # wr_sample /\ empty /\ next_sample
    /\ Clock
    /\ empty' = FALSE
    /\ UNCHANGED <<latch, pcm, rd_addr, part>>

\* Variant for the checks: a sample is handed over although reading it did
\* not begin with its period.
ClockRead_Empty ==
    /\ play /\ rd_addr # wr_sample
    /\ Clock
    /\ IF next_sample
       THEN pcm' = <<latch[0], latch[1], latch[2], latch[3]>> /\ rd_addr' = (rd_addr + 1) % Samples
       ELSE UNCHANGED <<pcm, rd_addr>>
    /\ part' = IF phase % Quarter = 0 THEN phase \div Quarter ELSE part
    /\ latch' = [latch EXCEPT ![part] = ring[4 * rd_addr + part]]
    /\ UNCHANGED empty

ClockRead ==
    /\ play /\ rd_addr # wr_sample /\ ~(empty /\ next_sample)
    /\ Clock
    /\ IF next_sample
       THEN pcm' = <<latch[0], latch[1], latch[2], latch[3]>> /\ rd_addr' = (rd_addr + 1) % Samples
       ELSE UNCHANGED <<pcm, rd_addr>>
    /\ part' = IF phase % Quarter = 0 THEN phase \div Quarter ELSE part
    /\ latch' = [latch EXCEPT ![part] = ring[4 * rd_addr + part]]
    /\ UNCHANGED empty
-----------------------------------------------------------------------------
Sound == ClockSilent \/ ClockEmpty \/ ClockFilled \/ ClockRead
Drive == WritePcm \/ NextBlock

Next == Sound \/ Drive \/ AddrReset \/ BlockAhead \/ Start \/ Stop

(***************************************************************************)
(* The clock runs; the drive goes on with a block and, while there is      *)
(* sound, begins the next one when it is told to.                          *)
(***************************************************************************)
Spec == Init /\ [][Next]_vars /\ WF_vars(Sound) /\ WF_vars(Drive) /\ WF_vars(AddrReset)
-----------------------------------------------------------------------------
TypeOK ==
    /\ ring \in [0 .. Ring - 1 -> Byte] /\ latch \in [0 .. 3 -> Byte]
    /\ wr_addr \in 0 .. Ring - 1 /\ rd_addr \in 0 .. Samples - 1 /\ part \in 0 .. 3
    /\ empty \in BOOLEAN /\ play \in BOOLEAN /\ addr_rst \in BOOLEAN
    /\ play => ~addr_rst
    /\ phase \in 0 .. Phases - 1
    /\ left \in 0 .. Block /\ ahead \in 0 .. Ahead
    /\ sent \in 0 .. Tags - 1 /\ burst \in 0 .. Burst

\* what is in the ring, from the sample that is read to the drive
unread ==
    IF addr_rst THEN << >>
    ELSE [k \in 1 .. (Ring + wr_addr - 4 * rd_addr) % Ring |-> ring[(4 * rd_addr + k - 1) % Ring]]

\* The ring keeps what it promises: no sample is lost to a block written
\* over it or by a full ring taken for an empty one, none is repeated, and
\* none is handed over before its four bytes are there.
Stream == INSTANCE SampleStream WITH
              Byte <- 0 .. Tags - 1, Capacity <- Ring - 1, queue <- unread, sample <- pcm

RefinesStream == Stream!Spec

\* A block that was begun fits into the ring; when it fills it to the last
\* byte the reader is in the middle of a sample, because the distance counts
\* the bytes that were read of it, and has to get to the next one meanwhile.
BlockFits ==
    left > 0 =>
        \/ Len(unread) + left < Ring
        \/ play /\ ~empty /\ Len(unread) + left = Ring

\* While there is sound, sample after sample is handed over.
SoundGoesOn ==
    /\ play ~> (~play \/ (pcm # << >> /\ pcm[1] = 0))
    /\ play ~> (~play \/ (pcm # << >> /\ pcm[1] = Ring))
=============================================================================
