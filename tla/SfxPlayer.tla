----------------------------- MODULE SfxPlayer ------------------------------
(***************************************************************************)
(* The sound effects: the channels the firmware plays (mcu/sfx.c) and the  *)
(* sample buffer each has in the FPGA (sfx_chan of fpga/audio_sfx.sv).     *)
(* Between two commands the firmware gives each channel whose buffer has   *)
(* room one more sample; the hardware takes samples out at any time, also  *)
(* while the firmware looks for a channel.                                 *)
(*                                                                         *)
(* A sample is the place it was read from: a byte of the sound or, when    *)
(* the sound has two samples to the byte, half a byte.  Volume, panning    *)
(* and rate only go to the registers of the hardware and are left out, as  *)
(* is decay, which is never read.                                          *)
(***************************************************************************)
EXTENDS Naturals, Sequences, FiniteSets

CONSTANTS
    NChan,      \* SFX_CHAN_NUM, 8 in the code
    Sound,      \* the sounds of the game
    SizeOf,     \* samples of each
    Halves,     \* those with two samples to the byte (step_num 2)
    FifoSize,   \* samples a buffer holds, 256 in the code
    TickMod,    \* 2^32: tick_ctr is a u32
    MaxCommands \* bound on the commands of the game

Chan == 0 .. NChan - 1

ASSUME SfxAssumption ==
    /\ NChan \in Nat \ {0} /\ FifoSize \in Nat \ {0} /\ TickMod \in Nat \ {0}
    /\ SizeOf \in [Sound -> Nat \ {0}]
    /\ Halves \subseteq Sound
    /\ MaxCommands \in Nat

VARIABLES
    sfx_chan,   \* age, sound (ptr_base, size_base, step_num), ptr, step, size, looped
    fifo,       \* the buffers
    tick_ctr,
    pc,         \* what the firmware is at
    i,          \* the channel its loop is at
    play,       \* the sound asked for and the channels allowed (cmask)
    chan_idx,   \* the channel sfx_play has come to so far
    oldest_age, \* the age it was chosen for
    commands,   \* commands given so far
    taken,      \* history: the channel the last sound was given
    stole,      \* history: it was not free
    was_free    \* history: the channels that were free when sfx_play was called

history == <<taken, stole, was_free>>
vars == <<sfx_chan, fifo, tick_ctr, pc, i, play, chan_idx, oldest_age, commands,
          taken, stole, was_free>>

NoSound == "none"

Full(c) == Len(fifo[c]) = FifoSize
Busy(c) == sfx_chan[c].size # 0 \/ fifo[c] # << >>

Init ==
    /\ sfx_chan = [c \in Chan |-> [age |-> 0, sound |-> NoSound, ptr |-> 0, step |-> 0,
                                   size |-> 0, looped |-> FALSE]]
    /\ fifo = [c \in Chan |-> << >>]
    /\ tick_ctr = 0
    /\ pc = "command"
    /\ i = 0
    /\ play = [sound |-> NoSound, cmask |-> {}]
    /\ chan_idx = 0 /\ oldest_age = 0
    /\ commands = 0
    /\ taken = 0 /\ stole = FALSE /\ was_free = {}
-----------------------------------------------------------------------------
(***************************************************************************)
(* ppm_cmd_handler: at most one command in each round.                     *)
(***************************************************************************)
NewCommand ==
    /\ pc = "command"
    /\ commands < MaxCommands
    /\ commands' = commands + 1
    /\ i' = 0

NoCommand ==
    /\ pc = "command"
    /\ pc' = "update"
    /\ i' = 0
    /\ UNCHANGED <<sfx_chan, fifo, tick_ctr, play, chan_idx, oldest_age, commands, history>>

\* command D1, sfx_play
CmdPlay(s, allowed) ==
    /\ NewCommand
    /\ play' = [sound |-> s, cmask |-> allowed]
    /\ chan_idx' = 0 /\ oldest_age' = 0
    /\ was_free' = {c \in Chan : ~Busy(c)}
    /\ pc' = "seek"
    /\ UNCHANGED <<sfx_chan, fifo, tick_ctr, taken, stole>>

\* command D3, sfx_loop
CmdLoop(which) ==
    /\ NewCommand
    /\ sfx_chan' = [c \in Chan |-> [sfx_chan[c] EXCEPT !.looped = @ \/ c \in which]]
    /\ pc' = "update"
    /\ UNCHANGED <<fifo, tick_ctr, play, chan_idx, oldest_age, history>>

\* commands D2 and D5, sfx_stop; flags 0 ends the sound at once
CmdStop(which, at_once) ==
    /\ NewCommand
    /\ sfx_chan' = [c \in Chan |->
            IF c \in which
            THEN [sfx_chan[c] EXCEPT !.size = IF at_once THEN 0 ELSE @, !.looped = FALSE]
            ELSE sfx_chan[c]]
    /\ pc' = "update"
    /\ UNCHANGED <<fifo, tick_ctr, play, chan_idx, oldest_age, history>>

(***************************************************************************)
(* sfx_play: the first allowed channel that is free; the loop looks at one *)
(* channel after the other while their buffers drain.                      *)
(***************************************************************************)
SeekPass ==
    /\ pc = "seek" /\ i < NChan
    /\ i \notin play.cmask
    /\ i' = i + 1
    /\ UNCHANGED <<sfx_chan, fifo, tick_ctr, pc, play, chan_idx, oldest_age, commands, history>>

SeekBusy ==
    /\ pc = "seek" /\ i < NChan
    /\ i \in play.cmask /\ Busy(i)
    /\ IF sfx_chan[i].age < oldest_age
       THEN chan_idx' = i /\ oldest_age' = sfx_chan[i].age
       ELSE UNCHANGED <<chan_idx, oldest_age>>
    /\ i' = i + 1
    /\ UNCHANGED <<sfx_chan, fifo, tick_ctr, pc, play, commands, history>>

\* Variant for the checks: the halves of a byte go on where they were.
Started_InStep(c) ==
    [age |-> tick_ctr, sound |-> play.sound, ptr |-> 0, step |-> sfx_chan[c].step,
     size |-> SizeOf[play.sound], looped |-> FALSE]

Started(c) ==
    [age |-> tick_ctr, sound |-> play.sound, ptr |-> 0, step |-> 0,
     size |-> SizeOf[play.sound], looped |-> FALSE]

Take(c) ==
    /\ sfx_chan' = [sfx_chan EXCEPT ![c] = Started(c)]
    /\ taken' = c
    /\ stole' = Busy(c)
    /\ pc' = "update"
    /\ i' = 0
    /\ UNCHANGED <<fifo, tick_ctr, play, oldest_age, commands, was_free>>

SeekFree ==
    /\ pc = "seek" /\ i < NChan
    /\ i \in play.cmask /\ ~Busy(i)
    /\ chan_idx' = i
    /\ Take(i)

\* Variant for the checks: the last channel is not looked at.
SeekEnd_OneShort ==
    /\ pc = "seek" /\ i >= NChan - 1
    /\ UNCHANGED chan_idx
    /\ Take(chan_idx)

SeekEnd ==
    /\ pc = "seek" /\ i = NChan
    /\ UNCHANGED chan_idx
    /\ Take(chan_idx)
-----------------------------------------------------------------------------
(***************************************************************************)
(* sfx_player_update: one sample for each channel that has room.           *)
(***************************************************************************)
UpdateSkip ==
    /\ pc = "update" /\ i < NChan
    /\ sfx_chan[i].size = 0 \/ Full(i)
    /\ i' = i + 1
    /\ UNCHANGED <<sfx_chan, fifo, tick_ctr, pc, play, chan_idx, oldest_age, commands, history>>

UpdateRead ==
    /\ pc = "update" /\ i < NChan
    /\ sfx_chan[i].size # 0 /\ ~Full(i)
    /\ pc' = "write"
    /\ UNCHANGED <<sfx_chan, fifo, tick_ctr, i, play, chan_idx, oldest_age, commands, history>>

\* where the next sample is, in samples from the start of the sound
Position(ch) == IF ch.sound \in Halves THEN 2 * ch.ptr + ch.step ELSE ch.ptr

\* ptr and step after a sample
Stepped(ch) ==
    IF ch.sound \in Halves /\ ch.step = 0
    THEN [ch EXCEPT !.step = 1]
    ELSE [ch EXCEPT !.step = IF ch.sound \in Halves THEN 0 ELSE @, !.ptr = @ + 1]

\* Variant for the checks: every sound is played again.
Counted_Forever(ch) ==
    IF ch.size = 1
    THEN [ch EXCEPT !.ptr = 0, !.size = SizeOf[ch.sound]]
    ELSE [ch EXCEPT !.size = @ - 1]

\* size after a sample; a looped sound starts over, but for its step
Counted(ch) ==
    IF ch.size = 1 /\ ch.looped
    THEN [ch EXCEPT !.ptr = 0, !.size = SizeOf[ch.sound]]
    ELSE [ch EXCEPT !.size = @ - 1]

\* the buffer takes the sample unless it is full
WriteSample ==
    /\ pc = "write"
    /\ fifo' = IF Full(i) THEN fifo
               ELSE [fifo EXCEPT ![i] = Append(@, <<sfx_chan[i].sound, Position(sfx_chan[i])>>)]
    /\ sfx_chan' = [sfx_chan EXCEPT ![i] = Counted(Stepped(@))]
    /\ pc' = "update"
    /\ i' = i + 1
    /\ UNCHANGED <<tick_ctr, play, chan_idx, oldest_age, commands, history>>

EndRound ==
    /\ pc = "update" /\ i = NChan
    /\ pc' = "command"
    /\ tick_ctr' = (tick_ctr + 1) % TickMod
    /\ UNCHANGED <<sfx_chan, fifo, i, play, chan_idx, oldest_age, commands, history>>

\* the hardware: the next sample of a channel is played
NextSample(c) ==
    /\ fifo[c] # << >>
    /\ fifo' = [fifo EXCEPT ![c] = Tail(@)]
    /\ UNCHANGED <<sfx_chan, tick_ctr, pc, i, play, chan_idx, oldest_age, commands, history>>

Game ==
    \/ \E s \in Sound, allowed \in SUBSET Chan : CmdPlay(s, allowed)
    \/ \E which \in SUBSET Chan : CmdLoop(which) \/ \E at_once \in BOOLEAN : CmdStop(which, at_once)

Firmware ==
    \/ NoCommand
    \/ SeekPass \/ SeekBusy \/ SeekFree \/ SeekEnd
    \/ UpdateSkip \/ UpdateRead \/ WriteSample \/ EndRound

Next == Game \/ Firmware \/ \E c \in Chan : NextSample(c)

(***************************************************************************)
(* The firmware's loop never blocks and the sample clock never stops;      *)
(* nothing is assumed of the game.                                         *)
(***************************************************************************)
Spec ==
    /\ Init /\ [][Next]_vars
    /\ WF_vars(Firmware) /\ \A c \in Chan : WF_vars(NextSample(c))
-----------------------------------------------------------------------------
TypeOK ==
    /\ sfx_chan \in [Chan -> [age : 0 .. TickMod - 1, sound : Sound \cup {NoSound}, ptr : Nat,
                              step : {0, 1}, size : Nat, looped : BOOLEAN]]
    /\ \A c \in Chan : sfx_chan[c].size # 0 => sfx_chan[c].size <= SizeOf[sfx_chan[c].sound]
    /\ \A c \in Chan : fifo[c] \in Seq(Sound \X Nat) /\ Len(fifo[c]) <= FifoSize
    /\ tick_ctr \in 0 .. TickMod - 1
    /\ pc \in {"command", "seek", "update", "write"}
    /\ i \in 0 .. NChan
    /\ play \in [sound : Sound \cup {NoSound}, cmask : SUBSET Chan]
    /\ chan_idx \in Chan /\ oldest_age \in 0 .. TickMod - 1
    /\ commands \in 0 .. MaxCommands
    /\ taken \in Chan /\ stole \in BOOLEAN /\ was_free \subseteq Chan

\* No sample is lost: the room the firmware saw is still there when it
\* writes, whatever the hardware did in between.
RoomForSample == pc = "write" => ~Full(i)

\* A channel is where its sound is, over any number of loops, takeovers and
\* stops: what is left is what has not been read.  Not so for a looped sound
\* of an odd number of half bytes, whose second round begins in mid-byte.
Uneven(s) == s \in Halves /\ SizeOf[s] % 2 = 1
InPlace ==
    \A c \in Chan : LET ch == sfx_chan[c] IN
        ch.size # 0 /\ ~Uneven(ch.sound) => Position(ch) + ch.size = SizeOf[ch.sound]

\* Each channel is in place and no sample is lost, at every step.
Inv == TypeOK /\ RoomForSample /\ InPlace

\* A sound that still plays is never cut for a new one while an allowed
\* channel is free.
NoNeedlessSteal ==
    [][pc = "seek" /\ pc' = "update" /\ stole' => was_free \cap play.cmask = {}]_vars

\* When the game gives no more commands, every sound that does not loop
\* comes to its end and its channel is free again.
SoundsEnd == <>[](\A c \in Chan : ~sfx_chan[c].looped => ~Busy(c))

\* "oldest chan will be used in case if no free channels": with channels
\* allowed and none of them free, the one whose sound began first is taken.
OldestTaken ==
    [][pc = "seek" /\ pc' = "update" /\ play.cmask # {} /\ (\A c \in play.cmask : Busy(c)) =>
        /\ taken' \in play.cmask
        /\ \A c \in play.cmask : sfx_chan[taken'].age <= sfx_chan[c].age]_vars
=============================================================================
