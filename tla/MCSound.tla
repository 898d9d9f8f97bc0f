------------------------------- MODULE MCSound -------------------------------
(***************************************************************************)
(* The way of the sound through the FPGA, part by part: the divider that   *)
(* gives every rate (ClkDvp), the ring of the music (PcmRing), the buffer  *)
(* of a channel of the effects (SfxChan), and mixing and output            *)
(* (AudioOut).  Each part takes the clock and the samples it is given at   *)
(* any time, so that TLC goes through them one after the other: in a       *)
(* behaviour the part that "which" names is at work.                       *)
(***************************************************************************)
EXTENDS ClkDvp

CONSTANTS
    Ring, Block, Ahead, Quarter, Burst,
    Size, Pitches, Period, LookGap,
    Chans, Slow, MaxSteps, Bits, PerBit, MinTick

VARIABLES
    which,
    ring, wr_addr, rd_addr, part, empty, play, addr_rst, phase, latch, pcm, left,
    ahead, sent, burst,
    addr_rd, addr_wr, pcm_we, pcm_we_st, ram, mem_dato, chan_pcm, pitch, pitch_ctr,
    since, rest, room, put, taken, steps,
    out_phase, out_since, mix_req, mix_next, mix_side, state, val, acc, ack, snd, sfx,
    sfx_v, sum, out, snd_st, snd_bit, frame, chan_steps,
    word, heard

Music == INSTANCE PcmRing
Channel == INSTANCE SfxChan WITH pcm <- chan_pcm
Output == INSTANCE AudioOut WITH
    phase <- out_phase, since <- out_since, steps <- chan_steps

ASSUME PartsAssumption ==
    Music!RingAssumption /\ Channel!SfxChanAssumption /\ Output!AudioAssumption

musicVars ==
    <<ring, wr_addr, rd_addr, part, empty, play, addr_rst, phase, latch, pcm, left,
      ahead, sent, burst>>
channelVars ==
    <<addr_rd, addr_wr, pcm_we, pcm_we_st, ram, mem_dato, chan_pcm, pitch, pitch_ctr,
      since, rest, room, put, taken, steps>>
outputVars ==
    <<out_phase, out_since, mix_req, mix_next, mix_side, state, val, acc, ack, snd, sfx,
      sfx_v, sum, out, snd_st, snd_bit, frame, chan_steps,
      word, heard>>
allVars == <<which, vars, musicVars, channelVars, outputVars>>

\* the ratio of the divider is no choice for the others
SoundInit ==
    /\ which \in {"divider", "music", "channel", "output"}
    /\ Init /\ Music!Init /\ Channel!Init /\ Output!Init
    /\ which # "divider" => ratio = CLK_INC

DividerClock ==
    which = "divider" /\ Clock /\ UNCHANGED <<which, musicVars, channelVars, outputVars>>
MusicStep ==
    which = "music" /\ Music!Next /\ UNCHANGED <<which, vars, channelVars, outputVars>>
ChannelClock ==
    which = "channel" /\ Channel!Clock /\ UNCHANGED <<which, vars, musicVars, outputVars>>
OutputClock ==
    which = "output" /\ Output!Clock /\ UNCHANGED <<which, vars, musicVars, channelVars>>

SoundNext == DividerClock \/ MusicStep \/ ChannelClock \/ OutputClock

SoundSpec ==
    /\ SoundInit /\ [][SoundNext]_allVars
    /\ WF_musicVars(which = "music" /\ Music!Sound)
    /\ WF_musicVars(which = "music" /\ Music!Drive)
    /\ WF_musicVars(which = "music" /\ Music!AddrReset)
-----------------------------------------------------------------------------
\* The ring of the music never begins a block that does not fit.
RingFits == Music!TypeOK /\ Music!BlockFits

\* The ring hands over the samples in order, none lost, repeated or torn.
MusicInOrder == []RingFits /\ Music!RefinesStream

\* While there is music, sample after sample is handed over.
MusicGoesOn == Music!SoundGoesOn

\* A channel hands over its samples in order, none is written over before,
\* and its pitch leaves out the periods it should.
EffectsInOrder ==
    /\ [](Channel!TypeOK /\ Channel!TakenInOrder /\ Channel!NeverOverwrites)
    /\ Channel!SkipsOneOf

\* What the converter receives as a pair is the sum of all channels for each
\* side, over the same samples of the channels of the full rate, period after
\* period; a channel of another rate never goes back from one side to the next.
PairsInOrder == [](Output!TypeOK /\ Output!Paired) /\ Output!InOrder
=============================================================================
