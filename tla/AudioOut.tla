------------------------------ MODULE AudioOut ------------------------------
(***************************************************************************)
(* The way of a sound from the eight channels to the converter, clock by   *)
(* clock: the sum of the channels for one side and then for the other      *)
(* (mix_bank and mix_mono of fpga/audio_sfx.sv), the stages of the volume  *)
(* (audio_mix_mono of fpga/paprium.sv) and the bits (dac_i2s of            *)
(* fpga/audio_out.sv).  Of a sum the model keeps what it is made of: the   *)
(* channels in it, the side they were panned for, and the sample each was  *)
(* at.  A channel of the full rate goes on to its next sample with the     *)
(* output; one of another rate has a clock of its own, which falls         *)
(* anyhow, in the middle of a pass too.  A channel that is empty or leaves *)
(* out a period goes on here all the same, to the sample it had.           *)
(***************************************************************************)
EXTENDS Naturals, Sequences

CONSTANTS
    Chans,      \* channels, 8
    Slow,       \* those whose srate is, or may become, one of 1 to 5
    MaxSteps,   \* bound on the samples of such a channel
    Bits,       \* bits of a sample, 16
    PerBit,     \* ticks of the sound clock per bit, 16
    MinTick     \* clocks from a tick of the sound clock to the next, or one more

Phases == 2 * Bits * PerBit
MixTime == 2 * (4 * Chans + 3) + 2      \* clocks to mix both sides

AudioAssumption ==
    /\ Chans \in Nat \ {0} /\ Bits \in Nat \ {0} /\ PerBit \in Nat \ {0}
    /\ MinTick \in Nat \ {0} /\ Phases * MinTick >= MixTime
    /\ Slow \subseteq 0 .. Chans - 1 /\ MaxSteps \in Nat

VARIABLES
    phase, since,                   \* of the sound clock; clocks since its last tick
    mix_req, mix_next, mix_side,    \* mix_bank
    state, val, acc, ack, snd,      \* mix_mono
    sfx,                            \* the sound of each side, snd_l and snd_r of mix_bank
    sfx_v, sum, out,                \* the stages of audio_mix, of each side
    snd_st, snd_bit,                \* dac_i2s
    frame,                          \* history: the sample the channels of the full rate
                                    \* are at, modulo Tags
    steps,                          \* history: the sample each of the others is at
    word, heard                     \* the bits the converter has, and its last two samples

clockVars == <<phase, since>>
bankVars == <<mix_req, mix_next, mix_side, sfx>>
monoVars == <<state, val, acc, ack, snd>>
stageVars == <<sfx_v, sum, out>>
vars == <<clockVars, bankVars, monoVars, stageVars, snd_st, snd_bit, frame, steps,
          word, heard>>

Tags == 8           \* bound: periods are told apart by their number
Sides == {0, 1}     \* left and right
Both(value) == [side \in Sides |-> value]
Silence == << >>
WordOf(sample) == [k \in 1 .. Bits |-> <<sample, Bits - k>>]

Init ==
    /\ phase = 0 /\ since = 1
    /\ mix_req = FALSE /\ mix_next = FALSE /\ mix_side = 0
    /\ state = 0 /\ val = Silence /\ acc = Silence /\ ack = FALSE /\ snd = Silence
    /\ sfx = Both(Silence)
    /\ sfx_v = Both(Silence) /\ sum = Both(Silence) /\ out = Both(Silence)
    /\ snd_st = Both(Silence) /\ snd_bit = <<Silence, 0>>
    /\ frame = 0 /\ steps = [chan \in Slow |-> 0]
    /\ word = << >> /\ heard = Both(WordOf(Silence))
-----------------------------------------------------------------------------
\* dac_clocker: a tick comes after MinTick clocks or one more
Phase(tick) ==
    /\ IF tick THEN since >= MinTick ELSE since <= MinTick
    /\ since' = IF tick THEN 1 ELSE since + 1
    /\ phase' = IF tick THEN (phase + 1) % Phases ELSE phase

next_sample(tick) == tick /\ phase = Phases - 1

\* aclk_bank and next_sample of sfx_chan: a channel of the full rate goes on to
\* its next sample with the output, another one in any clock
Channels(tick) ==
    /\ frame' = IF next_sample(tick) THEN (frame + 1) % Tags ELSE frame
    /\ \E ticked \in SUBSET {chan \in Slow : steps[chan] < MaxSteps} :
           steps' = [chan \in Slow |-> IF chan \in ticked THEN steps[chan] + 1 ELSE steps[chan]]

\* pcm of a channel
Pcm(chan) == IF chan \in Slow THEN steps[chan] ELSE frame

Begin == mix_req' = TRUE /\ mix_next' = TRUE /\ mix_side' = 0 /\ UNCHANGED sfx

Take ==
    /\ sfx' = [sfx EXCEPT ![mix_side] = snd]
    /\ IF mix_side = 0 THEN mix_next' = TRUE /\ mix_side' = 1 /\ UNCHANGED mix_req
       ELSE mix_req' = FALSE /\ UNCHANGED <<mix_next, mix_side>>

\* Variant for the checks: an ack is taken in the clock it is being cleared.
MixBank_StaleAck(tick) ==
    IF next_sample(tick) THEN Begin
    ELSE IF mix_req /\ ack THEN Take
    ELSE mix_next' = FALSE /\ UNCHANGED <<mix_req, mix_side, sfx>>

\* mix_bank: a pass for the left side, then one for the right
MixBank(tick) ==
    IF next_sample(tick) THEN Begin
    ELSE IF mix_next THEN mix_next' = FALSE /\ UNCHANGED <<mix_req, mix_side, sfx>>
    ELSE IF mix_req /\ ack THEN Take
    ELSE UNCHANGED bankVars

Clear == state' = 0 /\ acc' = Silence /\ ack' = FALSE /\ UNCHANGED <<val, snd>>

\* mix_mono: four clocks a channel, for its sample, its volume, the side and
\* the sum, and one for the limits
AddChannel ==
    LET chan == state \div 4
    IN  /\ state' = state + 1
        /\ val' = CASE state % 4 = 0 -> <<chan, Pcm(chan)>>
                    [] state % 4 = 2 -> <<chan, mix_side, val[2]>>
                    [] OTHER -> val
        /\ acc' = IF state % 4 = 3 THEN Append(acc, val) ELSE acc
        /\ UNCHANGED <<ack, snd>>

MixMono ==
    IF mix_next THEN Clear
    ELSE IF ack THEN UNCHANGED monoVars
    ELSE IF state < 4 * Chans THEN AddChannel
    ELSE snd' = acc /\ ack' = TRUE /\ state' = state + 1 /\ UNCHANGED <<val, acc>>

\* audio_mix_mono: three stages, of one sample each, the same on both sides
AudioMix(tick) ==
    IF next_sample(tick) THEN sfx_v' = sfx /\ sum' = sfx_v /\ out' = sum
    ELSE UNCHANGED stageVars

lrck == IF phase < Phases \div 2 THEN 0 ELSE 1
bit_ctr == (phase \div PerBit) % Bits
next_bit(tick) == tick /\ phase % PerBit = PerBit - 1

BitOf(sample) == <<sample, Bits - 1 - bit_ctr>>

\* dac_i2s
Serial(tick) ==
    /\ snd_bit' = IF next_bit(tick) THEN BitOf(snd_st[lrck]) ELSE snd_bit
    /\ snd_st' = IF next_sample(tick) THEN out ELSE snd_st

(***************************************************************************)
(* The converter, outside the repository: a sample begins one bit after    *)
(* lrck changes, the highest bit first, so that the last bit of a side     *)
(* comes with the first of the other.                                      *)
(***************************************************************************)
Converter(tick) ==
    IF ~next_bit(tick) THEN UNCHANGED <<word, heard>>
    ELSE IF bit_ctr = 0
    THEN /\ word' = << >>
         /\ heard' = IF Len(word) = Bits - 1
                     THEN [heard EXCEPT ![1 - lrck] = Append(word, snd_bit)] ELSE heard
    ELSE word' = Append(word, snd_bit) /\ UNCHANGED heard

Clock ==
    \E tick \in BOOLEAN :
        /\ Phase(tick) /\ Channels(tick)
        /\ MixBank(tick) /\ MixMono
        /\ AudioMix(tick) /\ Serial(tick) /\ Converter(tick)

Spec == Init /\ [][Clock]_vars
-----------------------------------------------------------------------------
TypeOK ==
    /\ phase \in 0 .. Phases - 1 /\ since \in 1 .. MinTick + 1
    /\ {mix_req, mix_next, ack} \subseteq BOOLEAN /\ mix_side \in Sides
    /\ state \in 0 .. 4 * Chans + 1 /\ Len(acc) <= Chans
    /\ frame \in 0 .. Tags - 1 /\ steps \in [Slow -> 0 .. MaxSteps] /\ Len(word) < Bits

\* A sum of every channel once, as panned for the side, those of the full rate
\* at sample f.
IsMix(sample, side, f) ==
    /\ sample = [c \in 1 .. Chans |-> <<c - 1, side, sample[c][3]>>]
    /\ \A c \in 1 .. Chans : c - 1 \notin Slow => sample[c][3] = f

\* Of no channel with a rate of its own an earlier sample than before.
NotBefore(earlier, later) == \A chan \in Slow : earlier[chan + 1][3] <= later[chan + 1][3]

\* The right sample completes a pair, one bit into the next frame.
pairThere == lrck = 0 /\ phase >= PerBit

Spoken(side) == heard[side] # WordOf(Silence)

\* The sum whose bits were heard.
Sum(side) == heard[side][1][1]
Heard(side, f) == heard[side] = WordOf(Sum(side)) /\ IsMix(Sum(side), side, f)

\* What the converter gets as left and right are the sums of all channels, each
\* once and panned for its own side, and every bit of a word is of one sum and
\* at its place: no pass is cut short, taken for the other side, or replaced in
\* mid-word.  Both are over the same samples of the channels of the full rate;
\* another channel may have gone on in between, but not the right side ahead of
\* its left one.
Paired ==
    pairThere =>
        \/ \A side \in Sides : ~Spoken(side)
        \/ /\ \E f \in 0 .. Tags - 1 : \A side \in Sides : Heard(side, f)
           /\ NotBefore(Sum(0), Sum(1))

\* the clock in which a left sample is completed
LeftComes == phase' # phase /\ phase' = Phases \div 2 + PerBit

\* Once there is sound, no sample of a channel of the full rate is left out or
\* repeated, and no other channel goes back to an earlier one.
InOrder ==
    [][LeftComes /\ Spoken(0) =>
           /\ \E f \in 0 .. Tags - 1 : Heard(0, f) /\ Heard(0, (f + 1) % Tags)'
           /\ NotBefore(Sum(1), Sum(0)')]_vars
=============================================================================
