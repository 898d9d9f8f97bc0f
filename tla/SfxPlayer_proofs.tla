-------------------------- MODULE SfxPlayer_proofs ---------------------------
(***************************************************************************)
(* Proofs of SfxPlayer, for any number of channels, any sounds and buffers *)
(* of any size: no sample is lost, a channel is where its sound is, and no *)
(* sound is cut while an allowed channel is free.                          *)
(***************************************************************************)
EXTENDS SfxPlayer, TLAPS

\* What the firmware is at belongs to a sound, and the room it saw is there.
Playing ==
    /\ \A c \in Chan : sfx_chan[c].size # 0 => sfx_chan[c].sound \in Sound
    /\ pc = "seek" => play.sound \in Sound
    /\ pc = "write" => i \in Chan /\ sfx_chan[i].size # 0

\* A channel found free stays free, and those passed by were not.
Seeking ==
    pc = "seek" =>
        /\ \A c \in was_free : ~Busy(c)
        /\ \A c \in Chan : c < i /\ c \in play.cmask => c \notin was_free

IInv == Inv /\ Playing /\ Seeking

Channel == [age : 0 .. TickMod - 1, sound : Sound \cup {NoSound}, ptr : Nat,
            step : {0, 1}, size : Nat, looped : BOOLEAN]

\* A channel by itself.
InStep(ch) == ch.size # 0 /\ ~Uneven(ch.sound) => Position(ch) + ch.size = SizeOf[ch.sound]
Sounding(ch) == ch.size # 0 => ch.sound \in Sound /\ ch.size <= SizeOf[ch.sound]
-----------------------------------------------------------------------------
(***************************************************************************)
(* A channel.                                                              *)
(***************************************************************************)
\* A sample moves a channel on by one place, or to the start of its sound.
LEMMA SampleTaken ==
    ASSUME NEW ch \in Channel, ch.size # 0, InStep(ch), Sounding(ch)
    PROVE  /\ Counted(Stepped(ch)) \in Channel
           /\ InStep(Counted(Stepped(ch))) /\ Sounding(Counted(Stepped(ch)))
<1> DEFINE st == Stepped(ch)
           new == Counted(st)
<1>1. /\ ch.sound \in Sound /\ SizeOf[ch.sound] \in Nat \ {0}
      /\ ch.ptr \in Nat /\ ch.step \in {0, 1} /\ ch.size \in Nat
      /\ ch.size <= SizeOf[ch.sound] /\ ch.looped \in BOOLEAN
  BY SfxAssumption DEF Channel, Sounding
<1>2. /\ st \in Channel /\ st.sound = ch.sound /\ st.size = ch.size /\ st.looped = ch.looped
      /\ ch.sound \in Halves =>
            st.step = 1 - ch.step /\ st.ptr = ch.ptr + ch.step
      /\ ch.sound \notin Halves => st.ptr = ch.ptr + 1
  <2>1. CASE ch.sound \in Halves /\ ch.step = 0
    BY <1>1, <2>1 DEF Stepped, Channel
  <2>2. CASE ch.sound \in Halves /\ ch.step = 1
    <3>1. st = [ch EXCEPT !.step = 0, !.ptr = ch.ptr + 1]
      BY <2>2 DEF Stepped
    <3>2. ch.ptr + 1 \in Nat /\ 0 \in {0, 1} /\ 1 - ch.step = 0 /\ ch.ptr + ch.step = ch.ptr + 1
      BY <1>1, <2>2
    <3> HIDE DEF st
    <3> QED
      BY <2>2, <3>1, <3>2 DEF Channel
  <2>3. CASE ch.sound \notin Halves
    <3>1. st = [ch EXCEPT !.step = ch.step, !.ptr = ch.ptr + 1]
      BY <2>3 DEF Stepped
    <3>2. ch.ptr + 1 \in Nat /\ ch.step \in {0, 1}
      BY <1>1
    <3> HIDE DEF st
    <3> QED
      BY <2>3, <3>1, <3>2 DEF Channel
  <2> QED
    BY <1>1, <2>1, <2>2, <2>3
<1>3. Position(st) = Position(ch) + 1 /\ Position(ch) \in Nat
  BY <1>1, <1>2 DEF Position
<1> HIDE DEF st
<1>4. CASE st.size = 1 /\ st.looped
  <2>1. /\ new \in Channel /\ new.sound = ch.sound /\ new.ptr = 0 /\ new.step = st.step
        /\ new.size = SizeOf[ch.sound]
    BY <1>1, <1>2, <1>4 DEF Counted, Channel
  <2>2. Sounding(new)
    BY <1>1, <2>1 DEF Sounding
  <2>3. InStep(new)
    <3> SUFFICES ASSUME ~Uneven(ch.sound) PROVE Position(new) = 0
      BY <1>1, <2>1 DEF InStep
    <3>1. CASE ch.sound \notin Halves
      BY <2>1, <3>1 DEF Position
    <3>2. CASE ch.sound \in Halves
      <4>1. 2 * ch.ptr + ch.step + 1 = SizeOf[ch.sound]
        BY <1>1, <1>2, <1>4, <3>2 DEF InStep, Position
      <4>2. SizeOf[ch.sound] % 2 # 1
        BY <3>2 DEF Uneven
      <4>3. ch.step = 1
        <5> SUFFICES ASSUME ch.step = 0 PROVE FALSE
          BY <1>1
        <5>1. SizeOf[ch.sound] = 2 * ch.ptr + 1
          BY <1>1, <4>1
        <5>2. (2 * ch.ptr + 1) % 2 = 1
          BY <1>1, SMT
        <5> QED
          BY <4>2, <5>1, <5>2
      <4>4. new.step = 0
        BY <1>2, <2>1, <3>2, <4>3
      <4> QED
        BY <2>1, <3>2, <4>4 DEF Position
    <3> QED
      BY <3>1, <3>2
  <2> QED
    BY <2>1, <2>2, <2>3 DEF st
<1>5. CASE ~(st.size = 1 /\ st.looped)
  <2>1. /\ new \in Channel /\ new.sound = ch.sound /\ new.ptr = st.ptr /\ new.step = st.step
        /\ new.size = ch.size - 1
    BY <1>1, <1>2, <1>5 DEF Counted, Channel
  <2>2. Sounding(new)
    BY <1>1, <2>1 DEF Sounding
  <2>3. Position(new) = Position(ch) + 1
    BY <1>2, <1>3, <2>1 DEF Position
  <2>4. InStep(new)
    BY <1>1, <1>3, <2>1, <2>3 DEF InStep
  <2> QED
    BY <2>1, <2>2, <2>4 DEF st
<1> QED
  BY <1>4, <1>5

\* A channel with another size and mark.
LEMMA Stopped ==
    ASSUME NEW ch \in Channel, NEW n \in Nat, NEW b \in BOOLEAN
    PROVE  /\ [ch EXCEPT !.size = n, !.looped = b] \in Channel
           /\ [ch EXCEPT !.size = n, !.looped = b].size = n
BY DEF Channel

\* The invariant, channel by channel.
LEMMA ChannelWise ==
    ASSUME IInv, NEW c \in Chan
    PROVE  sfx_chan[c] \in Channel /\ InStep(sfx_chan[c]) /\ Sounding(sfx_chan[c])
BY DEF IInv, Inv, TypeOK, InPlace, Playing, Channel, InStep, Sounding

\* And back: what the channels of the next state have to be.
LEMMA FromChannels ==
    ASSUME sfx_chan' \in [Chan -> Channel],
           \A c \in Chan : InStep(sfx_chan'[c]) /\ Sounding(sfx_chan'[c])
    PROVE  /\ InPlace'
           /\ \A c \in Chan : sfx_chan'[c].size # 0 => sfx_chan'[c].size <= SizeOf[sfx_chan'[c].sound]
           /\ \A c \in Chan : sfx_chan'[c].size # 0 => sfx_chan'[c].sound \in Sound
BY DEF InPlace, Channel, InStep, Sounding, Position, Uneven
-----------------------------------------------------------------------------
(***************************************************************************)
(* The invariant.                                                          *)
(***************************************************************************)
LEMMA InitInvariant == Init => IInv
<1> SUFFICES ASSUME Init PROVE IInv
  OBVIOUS
<1>1. NChan \in Nat /\ NChan > 0 /\ TickMod \in Nat /\ TickMod > 0 /\ FifoSize \in Nat
      /\ MaxCommands \in Nat
  BY SfxAssumption
<1>2. 0 \in Chan /\ 0 \in 0 .. TickMod - 1
  BY <1>1 DEF Chan
<1>3. sfx_chan \in [Chan -> Channel] /\ \A c \in Chan : sfx_chan[c].size = 0
  BY <1>2 DEF Init, Channel
<1>4. \A c \in Chan : fifo[c] \in Seq(Sound \X Nat) /\ Len(fifo[c]) <= FifoSize
  BY <1>1 DEF Init
<1>5. TypeOK
  <2>1. play \in [sound : Sound \cup {NoSound}, cmask : SUBSET Chan]
    BY DEF Init
  <2>2. /\ tick_ctr \in 0 .. TickMod - 1 /\ oldest_age \in 0 .. TickMod - 1
        /\ i \in 0 .. NChan /\ commands \in 0 .. MaxCommands
    BY <1>1, <1>2 DEF Init
  <2>3. chan_idx \in Chan /\ taken \in Chan /\ stole \in BOOLEAN /\ was_free \subseteq Chan
    BY <1>2 DEF Init
  <2>4. pc \in {"command", "seek", "update", "write"}
    BY DEF Init
  <2>5. \A c \in Chan : sfx_chan[c].size # 0 => sfx_chan[c].size <= SizeOf[sfx_chan[c].sound]
    BY <1>3
  <2> QED
    BY <1>3, <1>4, <2>1, <2>2, <2>3, <2>4, <2>5 DEF TypeOK, Channel
<1>6. RoomForSample /\ InPlace /\ Playing /\ Seeking
  BY <1>3 DEF Init, RoomForSample, InPlace, Playing, Seeking
<1> QED
  BY <1>5, <1>6 DEF IInv, Inv

\* Steps that leave the channels and their buffers alone.
LEMMA Untouched ==
    ASSUME IInv, UNCHANGED <<sfx_chan, fifo>>
    PROVE  /\ InPlace' /\ sfx_chan' \in [Chan -> Channel]
           /\ \A c \in Chan : sfx_chan'[c].size # 0 =>
                  sfx_chan'[c].size <= SizeOf[sfx_chan'[c].sound] /\ sfx_chan'[c].sound \in Sound
           /\ \A c \in Chan : fifo'[c] \in Seq(Sound \X Nat) /\ Len(fifo'[c]) <= FifoSize
           /\ \A c \in Chan : Busy(c)' = Busy(c) /\ Full(c)' = Full(c)
BY DEF IInv, Inv, TypeOK, InPlace, Playing, Channel, Position, Uneven, Busy, Full

\* Steps that change channels, each to one that is in step.
LEMMA ChannelsStep ==
    ASSUME IInv, sfx_chan' \in [Chan -> Channel], UNCHANGED fifo,
           \A c \in Chan : InStep(sfx_chan'[c]) /\ Sounding(sfx_chan'[c]),
           pc' = "update", i' \in 0 .. NChan, chan_idx' \in Chan,
           play' = play, UNCHANGED <<tick_ctr, was_free>>,
           oldest_age' \in 0 .. TickMod - 1, commands' \in 0 .. MaxCommands,
           taken' \in Chan, stole' \in BOOLEAN
    PROVE  IInv'
<1>1. InPlace' /\ TypeOK'
  BY FromChannels DEF IInv, Inv, TypeOK, Channel
<1>2. RoomForSample' /\ Playing' /\ Seeking'
  BY FromChannels DEF RoomForSample, Playing, Seeking
<1> QED
  BY <1>1, <1>2 DEF IInv, Inv

LEMMA NextRound ==
    ASSUME IInv, NewCommand
    PROVE  commands' \in 0 .. MaxCommands /\ i' = 0 /\ 0 \in 0 .. NChan /\ 0 \in Chan
BY SfxAssumption DEF IInv, Inv, TypeOK, NewCommand, Chan

LEMMA CommandStep ==
    ASSUME IInv, Game PROVE IInv'
<1>1. ASSUME NEW s \in Sound, NEW allowed \in SUBSET Chan, CmdPlay(s, allowed) PROVE IInv'
  <2>1. commands' \in 0 .. MaxCommands /\ i' = 0 /\ 0 \in 0 .. NChan /\ 0 \in Chan
    BY <1>1, NextRound DEF CmdPlay
  <2>2. 0 \in 0 .. TickMod - 1
    BY SfxAssumption
  <2>3. TypeOK'
    BY <1>1, <2>1, <2>2, Untouched DEF CmdPlay, IInv, Inv, TypeOK
  <2>4. Playing' /\ InPlace' /\ RoomForSample'
    BY <1>1, Untouched DEF CmdPlay, Playing, RoomForSample
  <2>5. Seeking'
    <3>1. \A c \in was_free' : ~Busy(c)'
      BY <1>1, Untouched DEF CmdPlay
    <3>2. \A c \in Chan : ~(c < i')
      BY <2>1, SfxAssumption DEF Chan
    <3> QED
      BY <3>1, <3>2 DEF Seeking
  <2> QED
    BY <2>3, <2>4, <2>5 DEF IInv, Inv
<1>2. ASSUME NEW which \in SUBSET Chan, CmdLoop(which) PROVE IInv'
  <2>1. ASSUME NEW c \in Chan
        PROVE  sfx_chan'[c] \in Channel /\ InStep(sfx_chan'[c]) /\ Sounding(sfx_chan'[c])
    <3>1. sfx_chan'[c] = [sfx_chan[c] EXCEPT !.looped = sfx_chan[c].looped \/ c \in which]
      BY <1>2 DEF CmdLoop
    <3>2. sfx_chan[c] \in Channel /\ InStep(sfx_chan[c]) /\ Sounding(sfx_chan[c])
      BY ChannelWise
    <3> QED
      BY <3>1, <3>2 DEF Channel, InStep, Sounding, Position
  <2>2. sfx_chan' \in [Chan -> Channel]
    BY <1>2, <2>1 DEF CmdLoop
  <2>3. commands' \in 0 .. MaxCommands /\ i' \in 0 .. NChan
    BY <1>2, NextRound DEF CmdLoop
  <2> QED
    BY <1>2, <2>1, <2>2, <2>3, ChannelsStep DEF CmdLoop, history, IInv, Inv, TypeOK
<1>3. ASSUME NEW which \in SUBSET Chan, NEW at_once \in BOOLEAN, CmdStop(which, at_once)
      PROVE  IInv'
  <2>1. ASSUME NEW c \in Chan
        PROVE  sfx_chan'[c] \in Channel /\ InStep(sfx_chan'[c]) /\ Sounding(sfx_chan'[c])
    <3>1. sfx_chan[c] \in Channel /\ InStep(sfx_chan[c]) /\ Sounding(sfx_chan[c])
      BY ChannelWise
    <3>2. CASE c \in which /\ at_once
      <4>1. sfx_chan'[c] = [sfx_chan[c] EXCEPT !.size = 0, !.looped = FALSE]
        BY <1>3, <3>2 DEF CmdStop
      <4>2. sfx_chan'[c] \in Channel /\ sfx_chan'[c].size = 0
        <5>1. 0 \in Nat /\ FALSE \in BOOLEAN
          OBVIOUS
        <5>2. /\ [sfx_chan[c] EXCEPT !.size = 0, !.looped = FALSE] \in Channel
              /\ [sfx_chan[c] EXCEPT !.size = 0, !.looped = FALSE].size = 0
          BY <3>1, <5>1, Stopped
        <5> QED
          BY <4>1, <5>2
      <4> QED
        BY <4>2 DEF InStep, Sounding
    <3>3. CASE c \in which /\ ~at_once
      <4>1. sfx_chan'[c] = [sfx_chan[c] EXCEPT !.size = sfx_chan[c].size, !.looped = FALSE]
        BY <1>3, <3>3 DEF CmdStop
      <4> QED
        BY <3>1, <4>1 DEF Channel, InStep, Sounding, Position
    <3>4. CASE c \notin which
      BY <1>3, <3>1, <3>4 DEF CmdStop
    <3> QED
      BY <3>2, <3>3, <3>4
  <2>2. sfx_chan' \in [Chan -> Channel]
    BY <1>3, <2>1 DEF CmdStop
  <2>3. commands' \in 0 .. MaxCommands /\ i' \in 0 .. NChan
    BY <1>3, NextRound DEF CmdStop
  <2> QED
    BY <1>3, <2>1, <2>2, <2>3, ChannelsStep DEF CmdStop, history, IInv, Inv, TypeOK
<1> QED
  BY <1>1, <1>2, <1>3 DEF Game
\* What the loops do to their own counters, with the channels as they are.
LEMMA LoopStep ==
    ASSUME IInv, UNCHANGED <<sfx_chan, fifo, play, commands, history>>,
           pc' \in {"command", "seek", "update", "write"}, i' \in 0 .. NChan,
           chan_idx' \in Chan, oldest_age' \in 0 .. TickMod - 1, tick_ctr' \in 0 .. TickMod - 1,
           pc' = "seek" => pc = "seek",
           pc' = "write" => i' \in Chan /\ sfx_chan[i'].size # 0 /\ ~Full(i'),
           pc' = "seek" => \A c \in Chan : c < i' /\ c \in play.cmask => c \notin was_free
    PROVE  IInv'
<1>1. TypeOK' /\ InPlace'
  BY Untouched DEF IInv, Inv, TypeOK, history, Channel
<1>2. RoomForSample' /\ Playing'
  BY DEF IInv, Playing, RoomForSample, Full
<1>3. Seeking'
  <2> SUFFICES ASSUME pc' = "seek"
               PROVE  /\ \A c \in was_free : ~Busy(c)'
                      /\ \A c \in Chan : c < i' /\ c \in play.cmask => c \notin was_free
    BY DEF Seeking, history
  <2>1. \A c \in was_free : c \in Chan /\ ~Busy(c)
    BY DEF IInv, Inv, TypeOK, Seeking
  <2> QED
    BY <2>1, Untouched
<1> QED
  BY <1>1, <1>2, <1>3 DEF IInv, Inv

LEMMA SeekStep ==
    ASSUME IInv, SeekPass \/ SeekBusy PROVE IInv'
<1>1. /\ pc = "seek" /\ pc' = "seek" /\ i < NChan /\ i' = i + 1
      /\ i \in play.cmask => Busy(i)
      /\ UNCHANGED <<sfx_chan, fifo, play, commands, history, tick_ctr>>
  BY DEF SeekPass, SeekBusy
<1>2. i \in Chan /\ NChan \in Nat /\ i' \in 0 .. NChan
  BY <1>1, SfxAssumption DEF IInv, Inv, TypeOK, Chan
<1>3. chan_idx' \in Chan /\ oldest_age' \in 0 .. TickMod - 1
  <2>1. sfx_chan[i].age \in 0 .. TickMod - 1
    BY <1>2, ChannelWise DEF Channel
  <2> QED
    BY <1>2, <2>1 DEF SeekPass, SeekBusy, IInv, Inv, TypeOK
<1>4. ASSUME NEW c \in Chan, c < i', c \in play.cmask PROVE c \notin was_free
  <2>1. CASE c = i
    BY <1>1, <1>4, <2>1 DEF IInv, Seeking
  <2>2. CASE c # i
    <3>1. c < i
      BY <1>1, <1>2, <1>4, <2>2 DEF Chan
    <3> QED
      BY <1>1, <1>4, <3>1 DEF IInv, Seeking
  <2> QED
    BY <2>1, <2>2
<1>5. tick_ctr' \in 0 .. TickMod - 1
  BY <1>1 DEF IInv, Inv, TypeOK
<1> QED
  BY <1>1, <1>2, <1>3, <1>4, <1>5, LoopStep

\* A channel that is taken begins its sound at the start.
LEMMA TakeStep ==
    ASSUME IInv, pc = "seek", NEW c \in Chan, Take(c), chan_idx' \in Chan
    PROVE  IInv'
<1>1. play.sound \in Sound /\ SizeOf[play.sound] \in Nat \ {0} /\ tick_ctr \in 0 .. TickMod - 1
  BY SfxAssumption DEF IInv, Inv, TypeOK, Playing
<1>2. Started(c) \in Channel
  BY <1>1 DEF Started, Channel
<1>3. InStep(Started(c)) /\ Sounding(Started(c))
  BY <1>1 DEF Started, InStep, Sounding, Position
<1>4. sfx_chan \in [Chan -> Channel] /\ sfx_chan' = [sfx_chan EXCEPT ![c] = Started(c)]
  BY DEF Take, IInv, Inv, TypeOK, Channel
<1> HIDE DEF Channel
<1>5. sfx_chan' \in [Chan -> Channel]
  BY <1>2, <1>4
<1>6. ASSUME NEW d \in Chan PROVE InStep(sfx_chan'[d]) /\ Sounding(sfx_chan'[d])
  <2>1. CASE d = c
    BY <1>3, <1>4, <2>1
  <2>2. CASE d # c
    BY <1>4, <2>2, ChannelWise
  <2> QED
    BY <2>1, <2>2
<1>7. i' \in 0 .. NChan
  BY SfxAssumption DEF Take
<1>8. stole' \in BOOLEAN
  BY DEF Take, Busy
<1> QED
  BY <1>5, <1>6, <1>7, <1>8, ChannelsStep DEF Take, IInv, Inv, TypeOK

LEMMA FoundStep ==
    ASSUME IInv, SeekFree \/ SeekEnd PROVE IInv'
<1>1. CASE SeekFree
  <2>1. i \in Chan
    BY <1>1, SfxAssumption DEF SeekFree, IInv, Inv, TypeOK, Chan
  <2> QED
    BY <1>1, <2>1, TakeStep DEF SeekFree
<1>2. CASE SeekEnd
  <2>1. chan_idx \in Chan
    BY DEF IInv, Inv, TypeOK
  <2> QED
    BY <1>2, <2>1, TakeStep DEF SeekEnd
<1> QED
  BY <1>1, <1>2

LEMMA RoundStep ==
    ASSUME IInv, NoCommand \/ UpdateSkip \/ UpdateRead \/ EndRound PROVE IInv'
<1>1. /\ NChan \in Nat /\ NChan > 0 /\ TickMod \in Nat /\ TickMod > 0 /\ i \in 0 .. NChan
      /\ tick_ctr \in 0 .. TickMod - 1 /\ chan_idx \in Chan /\ oldest_age \in 0 .. TickMod - 1
  BY SfxAssumption DEF IInv, Inv, TypeOK
<1>2. CASE NoCommand
  BY <1>1, <1>2, LoopStep DEF NoCommand
<1>3. CASE UpdateSkip
  <2>1. i + 1 \in 0 .. NChan
    BY <1>1, <1>3 DEF UpdateSkip
  <2> QED
    BY <1>1, <1>3, <2>1, LoopStep DEF UpdateSkip
<1>4. CASE UpdateRead
  <2>1. i \in Chan
    BY <1>1, <1>4 DEF UpdateRead, Chan
  <2> QED
    BY <1>1, <1>4, <2>1, LoopStep DEF UpdateRead
<1>5. CASE EndRound
  <2>1. (tick_ctr + 1) % TickMod \in 0 .. TickMod - 1
    BY <1>1, SMT
  <2> QED
    BY <1>1, <1>5, <2>1, LoopStep DEF EndRound
<1> QED
  BY <1>2, <1>3, <1>4, <1>5
\* A sample written to a buffer that has room.
LEMMA WriteStep ==
    ASSUME IInv, WriteSample PROVE IInv'
<1>1. i \in Chan /\ sfx_chan[i].size # 0 /\ ~Full(i) /\ pc' = "update" /\ i' = i + 1
  BY DEF WriteSample, IInv, Inv, RoomForSample, Playing
<1>2. sfx_chan[i] \in Channel /\ InStep(sfx_chan[i]) /\ Sounding(sfx_chan[i])
  BY <1>1, ChannelWise
<1> DEFINE new == Counted(Stepped(sfx_chan[i]))
<1>3. new \in Channel /\ InStep(new) /\ Sounding(new)
  BY <1>1, <1>2, SampleTaken
<1>4. sfx_chan \in [Chan -> Channel] /\ sfx_chan' = [sfx_chan EXCEPT ![i] = new]
  BY DEF WriteSample, IInv, Inv, TypeOK, Channel
<1> HIDE DEF new
<1>5. sfx_chan' \in [Chan -> Channel]
  BY <1>3, <1>4
<1>6. ASSUME NEW d \in Chan PROVE InStep(sfx_chan'[d]) /\ Sounding(sfx_chan'[d])
  <2>1. CASE d = i
    BY <1>3, <1>4, <2>1
  <2>2. CASE d # i
    BY <1>4, <2>2, ChannelWise
  <2> QED
    BY <2>1, <2>2
<1>7. <<sfx_chan[i].sound, Position(sfx_chan[i])>> \in Sound \X Nat
  <2>1. sfx_chan[i].sound \in Sound /\ sfx_chan[i].ptr \in Nat /\ sfx_chan[i].step \in Nat
    BY <1>1, <1>2 DEF Sounding, Channel
  <2>2. Position(sfx_chan[i]) \in Nat
    BY <2>1 DEF Position
  <2> QED
    BY <2>1, <2>2
<1>8. \A c \in Chan : fifo'[c] \in Seq(Sound \X Nat) /\ Len(fifo'[c]) <= FifoSize
  <2> SUFFICES ASSUME NEW c \in Chan
               PROVE  fifo'[c] \in Seq(Sound \X Nat) /\ Len(fifo'[c]) <= FifoSize
    OBVIOUS
  <2>1. fifo[c] \in Seq(Sound \X Nat) /\ Len(fifo[c]) <= FifoSize /\ FifoSize \in Nat
    BY SfxAssumption DEF IInv, Inv, TypeOK
  <2>2. fifo' = [fifo EXCEPT ![i] = Append(@, <<sfx_chan[i].sound, Position(sfx_chan[i])>>)]
    BY <1>1 DEF WriteSample
  <2>3. CASE c = i /\ c \in DOMAIN fifo
    <3>1. fifo'[c] = Append(fifo[c], <<sfx_chan[i].sound, Position(sfx_chan[i])>>)
      BY <2>2, <2>3
    <3>2. Len(fifo[c]) # FifoSize
      BY <1>1, <2>3 DEF Full
    <3> QED
      BY <1>7, <2>1, <3>1, <3>2
  <2>4. CASE ~(c = i /\ c \in DOMAIN fifo)
    BY <2>1, <2>2, <2>4
  <2> QED
    BY <2>3, <2>4
<1>9. i' \in 0 .. NChan
  BY <1>1, SfxAssumption DEF Chan
<1>10. TypeOK' /\ InPlace'
  BY <1>1, <1>5, <1>6, <1>8, <1>9, FromChannels DEF WriteSample, history, IInv, Inv, TypeOK, Channel
<1>11. RoomForSample' /\ Playing' /\ Seeking'
  BY <1>1, <1>5, <1>6, FromChannels DEF RoomForSample, Playing, Seeking
<1> QED
  BY <1>10, <1>11 DEF IInv, Inv

\* A sample played: room stays room and free stays free.
LEMMA PlayedStep ==
    ASSUME IInv, NEW c \in Chan, NextSample(c) PROVE IInv'
<1>1. /\ fifo[c] # << >> /\ fifo' = [fifo EXCEPT ![c] = Tail(fifo[c])]
      /\ UNCHANGED <<sfx_chan, tick_ctr, pc, i, play, chan_idx, oldest_age, commands, history>>
  BY DEF NextSample
<1>2. ASSUME NEW d \in Chan
      PROVE  /\ fifo'[d] \in Seq(Sound \X Nat) /\ Len(fifo'[d]) <= Len(fifo[d])
             /\ Len(fifo'[d]) <= FifoSize
             /\ ~Full(d) => ~Full(d)'
             /\ ~Busy(d) => ~Busy(d)'
  <2>1. fifo[d] \in Seq(Sound \X Nat) /\ Len(fifo[d]) <= FifoSize /\ FifoSize \in Nat
    BY SfxAssumption DEF IInv, Inv, TypeOK
  <2>2. CASE d = c /\ d \in DOMAIN fifo
    <3>1. fifo'[d] = Tail(fifo[d]) /\ fifo[d] # << >>
      BY <1>1, <2>2
    <3>2. fifo'[d] \in Seq(Sound \X Nat) /\ Len(fifo'[d]) = Len(fifo[d]) - 1 /\ Len(fifo[d]) \in Nat
      BY <2>1, <3>1
    <3>3. ~Full(d)'
      BY <2>1, <3>2 DEF Full
    <3>4. Busy(d)
      BY <3>1 DEF Busy
    <3> QED
      BY <2>1, <3>2, <3>3, <3>4
  <2>3. CASE ~(d = c /\ d \in DOMAIN fifo)
    <3>1. fifo'[d] = fifo[d]
      BY <1>1, <2>3
    <3> QED
      BY <1>1, <2>1, <3>1 DEF Full, Busy
  <2> QED
    BY <2>2, <2>3
<1>3. TypeOK'
  BY <1>1, <1>2 DEF history, IInv, Inv, TypeOK
<1>4. InPlace' /\ Playing'
  BY <1>1 DEF IInv, Inv, InPlace, Position, Uneven, Playing
<1>5. RoomForSample'
  <2> SUFFICES ASSUME pc' = "write" PROVE ~Full(i)'
    BY DEF RoomForSample
  <2>1. i \in Chan /\ ~Full(i) /\ i' = i
    BY <1>1 DEF IInv, Inv, RoomForSample, Playing
  <2>2. Full(i)' <=> Len(fifo'[i]) = FifoSize
    BY <2>1 DEF Full
  <2> QED
    BY <1>2, <2>1, <2>2 DEF Full
<1>6. Seeking'
  <2>1. \A d \in was_free : d \in Chan
    BY DEF IInv, Inv, TypeOK
  <2> QED
    BY <1>1, <1>2, <2>1 DEF history, IInv, Seeking
<1> QED
  BY <1>3, <1>4, <1>5, <1>6 DEF IInv, Inv

LEMMA StepInvariant == IInv /\ [Next]_vars => IInv'
<1> SUFFICES ASSUME IInv, [Next]_vars PROVE IInv'
  OBVIOUS
<1>1. CASE Game
  BY <1>1, CommandStep
<1>2. CASE Firmware
  BY <1>2, SeekStep, FoundStep, RoundStep, WriteStep DEF Firmware
<1>3. CASE \E c \in Chan : NextSample(c)
  BY <1>3, PlayedStep
<1>4. CASE UNCHANGED vars
  BY <1>4 DEF vars, IInv, Inv, TypeOK, RoomForSample, InPlace, Playing, Seeking, Full, Busy,
              Position, Uneven
<1> QED
  BY <1>1, <1>2, <1>3, <1>4 DEF Next
-----------------------------------------------------------------------------
\* For any channels, sounds and buffers: each channel is in place, what the
\* firmware is at belongs to a sound, and free channels stay free.
THEOREM PlayerInvariant == Spec => []IInv
<1>1. Init => IInv
  BY InitInvariant
<1>2. IInv /\ [Next]_vars => IInv'
  BY StepInvariant
<1> QED
  BY <1>1, <1>2, PTL DEF Spec

\* Over any number of loops, stops and takeovers (sfx_play, sfx_loop,
\* sfx_stop) and whenever the buffers drain, sfx_player_update loses no
\* sample and every channel is where its sound is.
THEOREM ChannelsInPlace == Spec => []Inv
<1>1. IInv => Inv
  BY DEF IInv
<1> QED
  BY <1>1, PlayerInvariant, PTL

\* sfx_play never cuts a sound while one of the channels it may use is free,
\* although channels become free behind its loop.
THEOREM NoSoundCutNeedlessly == Spec => NoNeedlessSteal
<1>1. ASSUME IInv, [Next]_vars, pc = "seek", pc' = "update", stole'
      PROVE  was_free \cap play.cmask = {}
  <2>1. SeekFree \/ SeekEnd
    BY <1>1 DEF Next, Game, Firmware, CmdPlay, CmdLoop, CmdStop, NewCommand, NoCommand,
                SeekPass, SeekBusy, UpdateSkip, UpdateRead, WriteSample, EndRound, NextSample, vars
  <2>2. CASE SeekFree
    BY <1>1, <2>2 DEF SeekFree, Take
  <2>3. CASE SeekEnd
    <3>1. i = NChan /\ was_free \subseteq Chan
      BY <1>1, <2>3 DEF SeekEnd, IInv, Inv, TypeOK
    <3>2. \A c \in Chan : c < i
      BY <3>1, SfxAssumption DEF Chan
    <3> QED
      BY <1>1, <3>1, <3>2 DEF IInv, Seeking
  <2> QED
    BY <2>1, <2>2, <2>3
<1>2. IInv /\ [Next]_vars =>
          [pc = "seek" /\ pc' = "update" /\ stole' => was_free \cap play.cmask = {}]_vars
  BY <1>1
<1> QED
  BY <1>2, PlayerInvariant, PTL DEF Spec, NoNeedlessSteal
=============================================================================
