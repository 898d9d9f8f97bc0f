------------------------------ MODULE SfxChan ------------------------------
(***************************************************************************)
(* The buffer of one channel of the sound effects (sfx_chan of             *)
(* fpga/audio_sfx.sv), clock by clock: the firmware looks whether it is    *)
(* full and writes a sample, the channel's clock takes one, and a pitch    *)
(* leaves out one of pitch + 1 of its periods.  SfxPlayer takes the two as *)
(* single steps; this is what makes them so.                               *)
(***************************************************************************)
EXTENDS Naturals

CONSTANTS
    Size,       \* samples in the buffer, 2^FIFO_SIZE
    Pitches,    \* values of pitch: 0, 1 and 31
    Period,     \* clocks between two periods of the channel, at least
    LookGap     \* clocks between a write and the next look, at least

SfxChanAssumption ==
    /\ Size \in Nat \ {0} /\ Pitches \subseteq Nat /\ 0 \in Pitches
    /\ Period \in Nat /\ Period >= 2 /\ LookGap \in Nat /\ LookGap >= 2

VARIABLES
    addr_rd, addr_wr,   \* with one bit more than an address of the buffer
    pcm_we, pcm_we_st,  \* the write strobe, now and a clock before
    ram, mem_dato,      \* the buffer, and what it gives
    pcm,                \* the sample that is heard
    pitch, pitch_ctr,
    since, rest,        \* clocks since the last period, and since the last write
    room,               \* the firmware saw that there is room
    put, taken,         \* history: samples written and taken, modulo Tags
    steps               \* history: periods since one was left out, at this pitch

vars == <<addr_rd, addr_wr, pcm_we, pcm_we_st, ram, mem_dato, pcm, pitch, pitch_ctr, since,
          rest, room, put, taken, steps>>

Tags == 2 * Size            \* bound: samples are told apart by their number
Unknown == 32               \* no period was left out at this pitch yet

Init ==
    /\ addr_rd = 0 /\ addr_wr = 0
    /\ pcm_we = FALSE /\ pcm_we_st = FALSE
    /\ ram = [a \in 0 .. Size - 1 |-> Tags] /\ mem_dato = Tags /\ pcm = Tags
    /\ pitch = 0 /\ pitch_ctr = 0
    /\ since = 1 /\ rest = LookGap /\ room = FALSE
    /\ put = 0 /\ taken = 0 /\ steps = Unknown
-----------------------------------------------------------------------------
fifo_empty == addr_rd = addr_wr

\* samples in the buffer
held == (addr_wr - addr_rd + 2 * Size) % (2 * Size)

fifo_full == addr_rd % Size = addr_wr % Size /\ addr_rd # addr_wr

Advance(addr) == (addr + 1) % (2 * Size)

Counted == pcm_we_st /\ ~pcm_we

Reads(next_sample) == ~fifo_empty /\ next_sample /\ pitch_ctr # 1

Buffer(next_sample) ==
    /\ pcm_we_st' = pcm_we
    /\ IF Reads(next_sample)
       THEN addr_rd' = Advance(addr_rd) /\ pcm' = mem_dato /\ taken' = (taken + 1) % Tags
       ELSE UNCHANGED <<addr_rd, pcm, taken>>
    /\ addr_wr' = IF Counted /\ ~fifo_full THEN Advance(addr_wr) ELSE addr_wr
    /\ ram' = IF pcm_we THEN [ram EXCEPT ![addr_wr % Size] = put] ELSE ram
    /\ mem_dato' = ram[addr_rd % Size]

\* Variant for the checks: the counter ends one step late.
NextCount_OneMore == IF pitch_ctr > pitch THEN 0 ELSE pitch_ctr + 1

NextCount == IF pitch_ctr >= pitch THEN 0 ELSE pitch_ctr + 1

\* the pitch may be set in any clock
Pitch(next_sample) ==
    /\ pitch_ctr' = IF next_sample THEN NextCount ELSE pitch_ctr
    /\ \/ /\ pitch' \in Pitches \ {pitch} /\ steps' = Unknown
       \/ /\ UNCHANGED pitch
          /\ steps' = IF ~next_sample THEN steps
                      ELSE IF pitch_ctr = 1 THEN 0
                      ELSE IF steps < Unknown THEN steps + 1 ELSE steps

\* the channel's clock, at least Period clocks after it was there: the rate is
\* not changed (srate) while a sample is being read
Rate(next_sample) ==
    /\ next_sample => since >= Period
    /\ since' = IF next_sample THEN 1 ELSE IF since < Period THEN since + 1 ELSE since
-----------------------------------------------------------------------------
(***************************************************************************)
(* sfx_player_update, of this channel: a look, and a write if there was    *)
(* room.  A write takes one clock.                                         *)
(***************************************************************************)
Stays == rest' = (IF rest < LookGap THEN rest + 1 ELSE rest) /\ UNCHANGED <<room, pcm_we, put>>

Look == ~room /\ ~pcm_we /\ rest >= LookGap /\ room' = ~fifo_full /\ UNCHANGED <<rest, pcm_we, put>>

Write == room /\ pcm_we' = TRUE /\ room' = FALSE /\ UNCHANGED <<rest, put>>

Written == pcm_we /\ pcm_we' = FALSE /\ put' = (put + 1) % Tags /\ rest' = 1 /\ UNCHANGED room

Firmware == (~pcm_we /\ Stays) \/ Look \/ Write \/ Written

Clock ==
    \E next_sample \in BOOLEAN :
        Rate(next_sample) /\ Buffer(next_sample) /\ Pitch(next_sample) /\ Firmware

Spec == Init /\ [][Clock]_vars
-----------------------------------------------------------------------------
TypeOK ==
    /\ addr_rd \in 0 .. 2 * Size - 1 /\ addr_wr \in 0 .. 2 * Size - 1 /\ held <= Size
    /\ ram \in [0 .. Size - 1 -> 0 .. Tags]
    /\ pitch_ctr \in Nat
    /\ room => ~pcm_we

\* Whatever clock a sample is written in and one is taken in, the channel
\* hands the samples over in the order they were written, each once, none that
\* is written over before, and none before it is in the buffer.
TakenInOrder ==
    /\ pcm # Tags => pcm = (taken + Tags - 1) % Tags
    /\ \A k \in 0 .. held - 1 : ram[(addr_rd + k) % Size] = (taken + k) % Tags

\* The firmware never writes into a full buffer, though it only looked before:
\* meanwhile the room can but grow.
NeverOverwrites == room \/ pcm_we => held < Size

\* As long as the pitch stays, exactly one of pitch + 1 periods is left out.
SkipsOneOf ==
    [][since' = 1 /\ steps # Unknown => (pitch_ctr = 1 <=> pitch > 0 /\ steps = pitch)]_vars
=============================================================================
