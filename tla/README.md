# Verification of the Paprium mapper

This directory holds TLA+ models of the mapper for the Mega-Everdrive PRO that
runs the game *Paprium*: the firmware of its soft processor (`src/mcu`) and the
logic of the FPGA around it (`src/fpga`). TLC checks the models on small
instances; TLAPS proves the most important properties for every size.

    tlc -workers 2 -config Frame.cfg MCFrame.tla      # one run
    tlapm Frame_proofs.tla                            # one set of proofs

The runs are listed in section 4 and, with the lines of code each definition
stands for, in `PROJECT.json`.

## 1. The system

Four machines work at the same time.

* The **game**, on the console's 68000. It is not in the repository. It talks
  to the mapper through 8 KB of shared RAM and reads graphics through a port
  into the SDRAM.
* The **firmware**, on a NEORV32 processor in the FPGA. `main` runs
  `ppm_start`: a reset sequence, then for ever one command of the game, one
  sample for each sound channel, one look at the reset latch.
* The **FPGA logic**: memories with their arbiters, control registers, sample
  buffers, the audio path, the MD+ drive registers.
* The **Everdrive's own microcontroller**, external: file access and CD audio.

| Component | State | Operations | Talks to |
|---|---|---|---|
| Command mailbox (`paprium.c`) | `reg_cmd`, two busy flags, the firmware's copies of the command and the answer | reset sequence, `ppm_cmd_handler` | the game, by shared memory |
| VRAM block cache (`mame.c`) | `block_num`, `usage`, `age` of each slot, budget, staging area, DMA queue | `ppm_vram_find_block`, `ppm_vram_load_block`, reset, budget, start and end of frame | frame building; the game, which runs the queue |
| Frame building (`mame.c`) | object table (shared), handles, draw list, sprite table | commands 81, EC, AE, AD, AF; `ppm_obj_render` | block cache, the game |
| DMA command encoding (`mame.c`) | the words of the queue | block command, table command | the video chip, through the game |
| Unpacker and data set-up (`mame.c`) | the graphics memory | `ppm_unpack_scal`, `ppm_setup_data` | flash and graphics memory |
| Scaling (`mame.c`) | a picture of 128 columns, `scaling_buff` | `ppm_stamp_rescale` | the game |
| Command handlers (`paprium.c`) | the graphics memory and its port, `bgm_unpack_addr`, volumes | `ppm_cmd_handler`, `ppm_setup_data` | the game, the drive |
| Backup memory commands (`paprium.c`) | four areas of the memory with the battery | commands DF and E0 | the game |
| Control register and reset line (`fpgio.sv`, `paprium.c`) | four bits of `ctrl`, the latch among them | assignments to bit fields, the latch | the console's reset line and its button |
| Sound effects player (`sfx.c`) | eight channels | play, loop, stop, update | the channels' buffers |
| Channel of the effects (`audio_sfx.sv`) | 256 samples, pitch counter | write, look, take a sample | player, mixer |
| Mixers and output (`audio_sfx.sv`, `paprium.sv`, `audio_out.sv`) | accumulator, stages of the volume, shift register | mix one side and the other, serialise | the converter |
| Clock dividers (`var.sv`) | a counter each | divide | every part of the sound |
| MD+ commands (`mdp.c`, `mdp.sv`) | command register, its one-deep buffer | play, stop, volume | the drive |
| MD+ audio ring (`mdp.sv`) | 8 KB of music | write, read, start, stop | the drive, the output |
| Everdrive link (`everdrive.c`, `fifo.sv`) | two byte queues | flush, path, mount, status | the cartridge's microcontroller |
| SPI slave (`pi.sv`) | place in a transfer, the access | header, read, write | the microcontroller; queues and drive registers |
| Flash and graphics memory ports (`flash_io.sv`, `sdram_io.sv`) | access state machines, the console's pointer | accesses of two words | both processors |
| The processor's own memory (`mcu_core.sv`) | access state machine | accesses of two words | the firmware |
| Messages (`neorv32_uart.c`, `neorv32_uart.vhd`) | a character each way | set-up, `printf`, `scan` | a terminal |
| Long counters (`neorv32_mtime.c`, `neorv32_cpu.c` and the hardware) | two words and a carry; the compare register | read, set, wait, compare | the firmware |
| Not modelled | | | backup memory port, volume ramp, pins, the core of the processor (section 6) |

What is hard in it:

* *Shared memory without locks.* The command word is read twice, the object
  table and the DMA queue change hands by convention only.
* *A cache filled in two steps.* A slot is said to hold a block when the block
  has only been unpacked and queued; the game copies it later, in order,
  through a port that moves on by itself. Decisions of one frame depend on
  whether the copies of the last one took place.
* *Refusals.* Bandwidth and slots run out in the middle of a picture; the
  object then falls back on a picture decided frames ago.
* *Bit fields in a register that changes by itself.* Each assignment is a load
  and a store, with the hardware's own change in between.
* *Buffers that drain while they are looked at*, and channels that are taken
  over while they play.
* *Values of two words that change by themselves*, read and set a word at a
  time: the counters of the processor.
* *Places agreed on without a check*: blocks, the files of the set-up, music and
  the game's own data lie in one memory, at addresses worked out far apart.

What makes each part correct is stated in section 4, next to the runs.
`PROJECT.json` lists the hazards one by one, at the line where they bite.

## 2. Modules

    CommandChannel <--refines-- CmdMailbox <-- CmdMailbox_proofs
    VramCache <-- MCVramCache
        ^
        |
      Frame  (EXTENDS VramCache) <-- Frame_proofs  (of both)
        ^ <-- MCFrame
    ResetCtrl                         (what ReleaseGame of CmdMailbox stands for)
    SfxPlayer <-- MCSfxPlayer, SfxPlayer_proofs
    MdpCommand <-- MCRegisters --> ResetCtrl
                       ^ <-- MCRegisters_proofs
    VdpDma (what a slot of VramCache is)
        ^ <-- MCData --> Unpack, Eeprom, Rescale, CmdHandlers
              ^ <-- MCData_proofs
    CpuRdx <-- SdramIo <-- MCMemories --> FlashIo (EXTENDS CpuRdx), McuWram
                               ^ <-- MCMemories_proofs
    EdLink <-- MCLinks --> FifoBuff, SpiPi, Console, LineInput, LongCounter
                  ^ <-- MCLinks_proofs
    LongCounter <-- TimeCompare
    ClkDvp <-- MCSound --> PcmRing, SfxChan, AudioOut
                ^ <-- MCSound_proofs   +--refines--> SampleStream

`A <-- B` means that B extends A, `-->` that it instantiates. The five modules
`MCRegisters`, `MCData`, `MCMemories`, `MCLinks` and `MCSound` put parts of one
subsystem side by side that share no state. Their behaviours differ in the part
that is at work (`which`), so that TLC explores the sum of the parts and not
their product; nothing is lost by it, because no part reads or writes what
another one has, and what one part is given by another is, in its own module,
any input the other may give.

**CommandChannel** is what the mailbox promises: a place for one word, executed
once, with the argument it was sent with, and an answer after that.

**CmdMailbox** has one action for each access of the firmware to the shared
RAM (`PollIdle`, `PollCommand`, `SetStatus1`, `SetBusy`, `Fetch`, `Dispatch`,
`ClearStatus1`, `ClearBusy`, `Reply`), for the steps of the start-up and for
the end of a round; the game acts between any two of them. A handler is the
step `Dispatch`, where it reads its argument; what else it does is in the
module of the part it drives. `Op` and `Arg` stand for the two bytes of the
word. The game is given the discipline the register supports: it writes after
it has read 0. `ReleaseGame` is all of `ppm_md_rst(0)` in one step, which
ResetCtrl takes apart.

**VramCache** has the slots of the cache, the budget, the bandwidth counters
with their width, the queue, and the game that runs it. `usage` is only tested
for zero and is a set. Addresses in the staging area count blocks.
`LoadHit`, `LoadMiss` and `LoadRefused` are the outcomes of
`ppm_vram_load_block`; `FrameEndBegin` and `FrameEndFinish` are the two halves
of `ppm_obj_frame_end`, between which blocks are asked for; `GameDma` is one
command run by the game, and a read of the port in the same step.

**Frame** extends it with the objects. `RenderSet`, `RenderAdvance`,
`RenderSwitch`, `RenderEnded` and `RenderInvalid` are the ways through the
first part of `ppm_obj_render`; `LoadSprite` asks for the blocks one by one;
`EmitPicture`, `EmitPrevious` and `GiveUp` are the ways through its end. An
animation is a type and a number together, the handle knows the number only,
as in the code. Positions and clipping become a choice of the sprites that are
visible. The order of the game's commands (describe, AE, AD, AF, run the queue,
show) is part of the model.

**VdpDma** refines "a slot" to addresses: it has the words of the commands,
bit by bit, decoded as the video chip decodes them, and the video memory as 128
pages of 512 bytes, with the sprite table among them.

**ResetCtrl** is clock by clock. The processor has one access at a time with
`LoopGap` to `MaxGap` clocks between; an assignment to a bit field is `Load`
and, later, `Store`. `Line` is the reset line with its slow rise and the user's
button.

**SfxPlayer** has the channels of the firmware and their buffers. A sample is
the place it was read from. `SeekPass`, `SeekBusy`, `SeekFree` and `SeekEnd`
are the turns of the loop of `sfx_play`, `UpdateSkip`, `UpdateRead` and
`WriteSample` those of `sfx_player_update`, and `NextSample` is the hardware
that takes a sample out at any point of either.

**MdpCommand** has the command register between the firmware and the drive,
with its buffer. `Mount`, `Waited`, `LookAtTime` and `GiveUp` are the start-up of
`mdp.c` with its 100 ms, `Write` a command of the firmware, `ReadStatus`,
`ReadHigh`, `ReadLow`, `Execute` and `Ack` the drive, and `AckWhileWriting` the
clock in which a write and an acknowledgement meet.

**PcmRing** has the ring of the music: `WritePcm` and `NextBlock` are the drive,
which looks at `can_wr` once for each block; `ClockRead`, `ClockFilled`,
`ClockEmpty` and `ClockSilent` are the clock of the sound. It refines
**SampleStream**, a queue of bytes that gives samples.

**CpuRdx** is the console's side of a shared memory, clock by clock, with the
console's bus and a memory that answers after `MemTime` clocks without a change
at its pins. **FlashIo** and **SdramIo** extend it with the processor's side; an
action is what the arbiter does in a clock (`Interrupted`, `Waiting`,
`FirstWord`, ...) and `Clock` is all of the port. **McuWram** is the processor's
own memory in the same style, with the strobe of a memory without a clock.

**EdLink** has what the firmware and the microcontroller say to each other at
the start, byte by byte and without frames, over two queues: the overlay and the
mark of the drive that `mdp_init` begins with (`Unlock`, `Ident`), the flush, the
path, the mount and the status. **FifoBuff** is the
queue itself, clock by clock; **SpiPi** the serial slave, with `Bit` for a clock
of the line and `Clock` for one of the system, which fall anyhow.

**ClkDvp** is the divider, with the clocks and ticks so far as history.
**SfxChan** is the buffer of a channel with its pitch, which SfxPlayer takes as
single steps. **AudioOut** follows a sample from the channels to the bits at the
converter: of a sum it keeps the channels in it, the side, and the sample each
channel was at. A channel of the full rate goes on to its next sample with the
output, one of another rate (`Slow`) in any clock, also between the two sides.

**Unpack** takes a packed file as a sequence of packets, a packet as the runs it
asks for, and unpacks them byte by byte (`Byte`); `want` is what they mean.
**Eeprom** copies the areas piece by piece (`DF_Copy`, `E0_Copy`), with the power
going off at any point.

**Rescale** has a picture as columns of the stamp: `CopyColumn` is a turn of the
first loop of `ppm_stamp_rescale`, `Strip` one of the second, which spreads four
columns over the words of two tiles. The shared memory has its areas with the
sizes of `mame.h`, from which their addresses follow.

**CmdHandlers** has a command as one step and the graphics memory by what was
unpacked to it, in pages of 512 bytes: the set-up, blocks, data, music, the port
and the registers. How a command gets to its handler is CmdMailbox; sprites,
saves, sounds and scaling are in the modules named above.

**Console** is the way out of a message: `Divide`, `Scale` and `Enable` are
`neorv32_uart_setup`, `Call` and `Piece` go through the format, `Putc` and
`Write` are the wait and the write of a character, `Transmit` the transmitter, a
bit at a step. **LineInput** is the way back: the receiver with one character,
`neorv32_uart_scan` with its echo on a terminal, and the two calls for a program
that looks for a character itself.

**LongCounter** is a counter of two words with its carry, clock by clock, and
the library's read, set and delay with the accesses in it; it stands for the
system time and the counter of cycles, which are made alike. **TimeCompare** adds
the compare register and the comparator.

Definitions marked "Variant for the checks" (`RenderSet_KeepsNumber`, ...)
belong to no specification. Each is a definition with a plausible mistake in
it; put in the place of the right one it makes TLC report the property it is
listed with (`PROJECT.json`, "mutants"), which shows that the property can fail.

## 3. Fairness and what is assumed of others

* The firmware never blocks in its loop (every branch of `ppm_start` falls
  through), so `WF` of all its steps together, in CmdMailbox, Frame and
  SfxPlayer. Nothing is assumed of which branch it takes.
* The clock of the FPGA runs and the processor goes on with the access it is
  at: `WF` of `Next` and of the four kinds of access in ResetCtrl, and of the
  clock in the memory ports.
* The sample clock runs: `WF` of `NextSample` for each channel, of `Sound` in
  PcmRing.
* The start-up of MdpCommand: `WF` of the firmware's steps and of the timer,
  nothing of the drive.
* The drive goes on with a block it has begun and begins one when it is told to
  (`WF` of `Drive`), and its reset of the address takes effect; the cartridge
  answers (`WF` of `Cartridge` in EdLink). Without that the code does wait for
  ever: `ed_fifo_rd` has no limit.
* The firmware goes on with a message and the transmitter sends (`WF` of
  `Firmware` and of `Transmit` in Console): both run on the processor's clock.
* Nothing is ever assumed of the game, the button or the keys.

In a run that puts parts side by side the fairness of a part is that of its own
module, while it is the one at work.

Of what is outside the repository the models assume: the console holds a read
for at least `2 * MemTime + 3` clocks (a bus cycle of the 68000 is about 26
clocks of the FPGA) and ends it before the next; a memory answers in `MemTime`
clocks, the processor's own in one; between two bits of the serial line there is
a clock of the system, the line gives an edge while it is deselected, and a read
of a queue ends with its block ("do not use next 64k", `pi.sv:149`); the game
waits for the answer before its next command and does not read the port while a
command sets its pointer; its own copies leave `dma_total <= dma_budget`. Of the
game the models also assume, and the code checks none of it: it has run the queue
before a command moves the port (`MovePort` of VramCache); it adds at most 64
objects to a frame (`MaxDraw`); it sets up before it asks for music
(`cmd_8C_bgm_play` of CmdHandlers); it keeps its own data in pages of the graphics
memory below the blocks (`Own`); and it asks for no column beyond the 64 a stamp
has and for no window beyond 128 columns (`Fits`, `RescaleAssumption`). The rate
of a channel does not change while its buffer is between two samples, so that its
ticks are `Period` clocks apart (SfxChan; AudioOut assumes nothing of the clocks of
channels of other rates, whose samples `MaxSteps` bounds at 2). A microcontroller
that does not answer during the mount stops the firmware (`everdrive.c:141`):
`Mount` of MdpCommand always ends, the wait itself is in EdLink. An access to a
queue lasts two clocks at most in FifoBuff; in a longer one nothing more happens.
Two reads of a long counter are done
before its low word has come round once (`CounterAssumption`: 2^32 clocks
against some tens).

## 4. Runs

| Run | Instance |
|---|---|
| `mailbox` | 2 opcodes, 4 arguments, 2 commands |
| `vram_cache` | 4 slots (3 usable), 4 blocks, 5 frames |
| `frame` | 1 object, 3 animations, 3 pictures, 2 slots, 4 frames |
| `frame_objects` | 2 objects competing for 2 slots, 4 frames |
| `sfx_player` | 2 channels, 3 sounds, buffers of 2, 2 commands |
| `sfx_oldest` | finding; as `sfx_player`, 3 commands |
| `registers` | 2 tracks, 6 writes, a time-out of one tick; 2 presses, rise of up to 4 clocks |
| `memories` | 4 words, memories of 2 clocks; own memory of 2 long words, with and without a delay |
| `links` | paths of up to 9 bytes with lengths in base 4; a queue of 4; transfers of up to 2 bytes, up to 3 clocks to a bit; 3 rates, numbers below 256; 3 keys; counters of 20 times 3 |
| `data` | slots on both sides of the gap, tables of 1, 80, 144 entries; 2 files of up to 5 bytes; 4 areas in pieces of 256 bytes; 5 factors and 3 offsets of a picture; 4 commands |
| `sound` | 9 ratios; a ring of 28 bytes and blocks of 8; a buffer of 2 samples, 3 pitches; 3 channels of 3 bits, one of another rate with 2 samples |
| `timer_interrupt` | finding; a counter of 20 times 3, times 15 and 22 |

`mailbox`. `FreeMeansDone`: a game that reads 0 knows that all it asked for was
done, once, in order, with the arguments it gave. `ImplementsChannel`: the
refinement of CommandChannel, by which nothing else is ever executed, neither
what the copy of the ROM left in the register nor the answer `0x00ff`, which
the loop does dispatch. `NobodyWaits`: every command is answered, and a press of
the button comes to the menu between two commands.
Two commands are enough for every pair of a word and what was left by the one
before; the four arguments are the three the code compares with and one more.

`vram_cache`. `Coherent`: a slot that is said to hold a block holds it, or one
command still to be run will bring exactly it, although the port advances by
itself and blocks go by position. `StagingFits`: the staging area and the queue
are never overrun. `EvictsOldest`: the slot given up has been idle longest, among
those that were not idle for so long that their age wrapped.
There is a block more than slots, so that eviction is forced; ages wrap after 3
frames and a behaviour has 5, so that the wrap is reached; the game's own DMA
may leave less than nothing. Blocks are symmetric.

`frame`. From a cold start, over budget changes and resets. `ScreenHasBlocks`:
what is on the screen is in the video memory. `FrameInv`: types, and the sprite
table is a chain the video chip ends on. `AnimationUnlessStarved`: an object
that was never refused a block shows its animation.
`FrameTerminates`: a frame ends, also when an object queues the animation it is
in. One object with one change between frames reaches every branch of
`ppm_obj_render`; four frames are a set, a switch, a refusal and the fall back
on what came before.

`frame_objects`. Two objects with pictures that share a block, in fewer slots
than their pictures need. `SpritesKeepBlocks`: no sprite already written loses
its block to another object in the same frame. It starts from the state after a
first empty frame (`SteadyInit`) to be small enough, and leaves out the budget
changes `frame` covers.

`sfx_player`. `Inv`: the room seen is still there when the sample is written
(`RoomForSample`), and a channel is where its sound is, over loops, stops and
takeovers (`InPlace`). `NoNeedlessSteal`: no sound is cut while an allowed
channel is free, although channels become free behind the loop's back.
`SoundsEnd`: every sound that does not loop comes to its end. One sound has
whole bytes, one an odd and one an even number of half bytes; with buffers of
two, both full and empty are met in each round.

`registers`, two registers that are written from two sides. The command register
of the drive: `LatestDone`, what the drive did last is what the firmware asked for
last, unless that write fell into the very clock of an acknowledgement, where the
register loses it (`mdp.sv:205`). `SilencedFirst`: music is only asked of a drive
that was silenced. `StartsWithoutDrive`: a silent drive does not stop the game.
Six writes fill register and buffer twice over. The control register:
`LatchMeansPress`, the reset of the start-up is not taken for the user's
(`NoSpuriousExit`), and a press as long as an assignment to a bit field cannot be
lost (`LongPressSeen`). `ButtonObeyed`: such a press ends in the menu, and the game
is started unless the button is kept down. Shorter presses may be overwritten by
an assignment; that is a matter of nanoseconds.

`memories`. `ProcessorAccesses`: reads and writes of the processor that the
console interrupts, at any clock and repeatedly, are done again, whole and
nowhere else. `ConsoleReads`: the console is in time, whatever the processor
does, with a settling address and with the pointer that moves on by itself.
`OwnMemoryWhole`: whole long words, and no change under the strobe.
`ProcessorServed`: a console that reads all the time does not starve the
processor. Two clocks of memory time tell "had its time" from "had not", two
addresses of the console a word the processor writes from one it does not.

`links`. `AnswersInStep`: each answer is read by the call it is meant for, for
every length of the path (9 is beyond two digits of the base, as paths are
beyond one byte), whatever was in the queue, and the queues are large enough.
`QueueInOrder`: the queue over every alignment of a write and a read, with the
pointers going round. `TransfersWhole`: the serial line writes and reads whole
bytes at their places and takes from a queue only what was received.
`MessagesReadable`: every number is printed as its numeral, the characters are in
order although the transmitter drops what comes while it sends, each line feed has
its return, and a terminal at the rate asked for finds each bit in its place; a
line that comes in is what was typed, as far as it was read, and is what the
terminal shows. The three rates need no prescaler with a large and with a small
divisor, and a prescaler; the numbers are the borders of digits and of the sign;
a buffer of 1 has room for the end of a line only. `CountersWhole`: what is read
of a counter is what it was worth during the reading, with a carry at any clock of
it, the library goes back for the high word once at most, and setting is exact.
`StartUpAnswered`: a cartridge that answers does not leave the game in reset, and
a message comes to its end.

`data`. `BlocksAndTable`: a block is copied to where its sprites look for it,
and never over the sprite table. `FilesWhole`: files are what their runs mean,
with runs of 3 bytes from distances of 1 and 2, which reach into themselves,
and lie next to each other whether their lengths are even or odd. `SavesKept`:
the areas do not overlap, an argument of no area copies nothing, and a save the
power cuts short harms its own area only. `PictureScaled`: each of the 128 columns
shows the column of the stamp it should, where the video chip takes it from, and
only the buffer and the one behind it are written; the factors shrink and stretch,
two of them by no power of two. `PortAndFilesKept`: the port gives what the last
command for it prepared, whatever commands come before it is read; blocks (2, or
all 53 of a full cache), music and the game's own data leave the files of the
set-up alone; and an object refuses an animation exactly if it has no such one.
Four commands are a set-up, something for the port and two that may disturb
either.

`sound`. `NoDrift`: the divider has given the ticks it owes at every clock.
`MusicInOrder`: the ring refines SampleStream and never begins a block that does
not fit, with a ring of 3.5 blocks as in the code (8192 to 2352). `MusicGoesOn`.
`EffectsInOrder`: a channel's samples come in order, none is written over, and
the pitch leaves out one period of pitch + 1. `PairsInOrder`: what the converter
gets as left and right is the sum of every channel once. Of channels of the full
rate both sides have the same sample, and none is left out or repeated. A channel
of another rate steps on its own clock (`audio_sfx.sv:68`), also between the two
passes, so that its right sample may be a later one than its left; it is never an
earlier one, nor does the next pair go back behind this one.

A property that is a conjunction of several is spelled out in its module by
named parts, which a reader can check one by one by naming them in the `.cfg`.

### Disagreements found

`sfx_oldest` - with all allowed channels busy, `sfx.c:49` means to take the
oldest; the comparison with an age that starts at 0 never holds and channel 0 is
taken, allowed or not.

`timer_interrupt` - `neorv32_mtime.c:121` has the interrupt "triggered when MTIME
>= MTIMECMP". The comparator (`neorv32_mtime.vhd:169`) compares the two words
apart, so that 1:2 does not count as later than 0:15, and its pulse comes only
when both comparisons become true. A time that has passed gives no
interrupt as long as the low word of the counter is below its low word; if it is
not, the library's write of -1 before the time makes the pulse. The firmware does
not use it.

Seen while modelling, without a run:

* `mame.c:525` calls the size of a block command "0x200 words"; the command
  copies 0x100 words, 0x200 bytes, which is right.
* When the blocks of a new animation are refused (`mame.c:429`) the object falls
  back on the old picture but keeps the new number, so it is never set again and
  goes on in the old animation; `AnimationUnlessStarved` excepts such objects.
* An object refused in two frames running falls back on a picture whose block
  may have been given up in between; its sprite is then written with tile 0.
  `SpritesKeepBlocks` speaks of the first fall back only.
* `paprium.c:100` patches the ROM "(flash should be writable)"; the write enables
  of `flash_io.sv:20` are commented out, so that the write is acknowledged and
  has no effect. FlashIo models that.

* A bit of the serial line is one clock of the prescaler longer than asked
  (`neorv32_uart.vhd` counts a divisor i as i + 1): 3 % at 921600, which
  `Readable` shows to be near enough. Below 382 baud the quotient does not fit
  the 16 bits `neorv32_uart_setup` keeps it in.
* A character that comes while `neorv32_uart_scan` echoes replaces the one
  before; one that comes between the two calls of a program that polls is read
  twice (`LineMadeOfKeys`, `PolledInOrder`).
* An object with no animations gets the last index 0xffff in `ppm_setup_data`,
  with which any animation is accepted; `AnimationsKnown` excepts it.
* While the processor waits, the high word of the counter of instructions goes on
  counting every clock as long as a carry is pending
  (`neorv32_cpu_control.vhd:1776`); LongCounter leaves that counter out.

## 5. Proofs

* **CmdMailbox_proofs** - for all sets of opcodes and arguments and any number
  of commands. The invariant `IInv` says, besides the types, who wrote the
  register last at each point of the loop, that the firmware's copy of the
  opcode still agrees with the register, what the flags are, and that at most
  the last word sent is outstanding. `FreeMeansDone` alone is not inductive: it
  says nothing of the time between `Fetch` and `Reply`. From `IInv` follow
  `FreeMeansDone`, `OnlySentOnce`, `AnswerIsHarmless`, `ExitBetweenCommands`
  and the refinement of CommandChannel.
* **Frame_proofs** - for any objects, animations and pictures, any number of
  slots, budget, block set, and any bandwidth. First the cache by itself: its
  `IInv` adds to the properties what makes them inductive: which commands of the
  queue are for which slots (`Commands`), where the port is relative to the
  commands run (`Port`), that slots in use have age 0 (`Ages`), and that
  bandwidth is conserved (`Bandwidth`). From it: `TypeOK`, `UniqueBlocks`,
  `BeyondBudgetEmpty`, `Coherent`, `StagingFits`, `WithinDmaBudget`,
  `EvictsOldest`, `UsedSlotsKept`. Then frames: `AnimationFollowed` by the
  invariant `AInv`; and `FramesCoherent`, which carries `Coherent` over to frames
  by the lemma that Frame changes the cache by steps of VramCache only.
  `ScreenHasBlocks` and `SpritesKeepBlocks` need more than that. `TInv` says that
  the slots a sprite was written with are marked as used in this frame
  (`TableHeld`); that the blocks an object was asked for so far are in use if
  none was refused (`Progress`), and so are those of the objects already drawn
  (`DrawnInUse`); and that the picture an object was last drawn with from loaded
  blocks is still held when it is its turn again (`ProperHeld`), which is what
  it falls back on. The argument is the age of the slots: what was drawn in the
  frame before has age 1, and `ppm_load_block` evicts only what is older.
* **MCRegisters_proofs** - the command register of MD+, for any set of tracks and
  number of commands, and the control register, for any pace of the firmware and
  any time the line takes to rise.
  `LatestDone` is not inductive; `IInv` adds how far the drive has come with the
  command in the register (`Reading`), that the numbers of commands rise from
  what was executed through the register to the buffer (`Order`), and where the
  last one is (`Latest`). From it: `ReadsWhole` (no command is put together of
  the bytes of two), `InOrder`, `LatestDone`. `SilencedFirst` needs the first
  command followed from the write to the register through the drive (`Silenced`).
  The invariant of the control register says when the line has risen at the
  latest (`LineRises`), what the loop can have seen (`LoopSees`), that the latch
  is clear before the game is released (`LatchClear`), and how a press travels
  through the samples into the latch although an assignment to another bit field
  may write back the old value (`PressArrives`, `LongLatched`). From it:
  `LatchMeansPress`. `RegistersInvariant` has both.
* **MCMemories_proofs** - for any time the memories take, any number of words and
  any pace of the console that `BusAssumption` allows. What the memory gives is
  worth something only when the same pins were there for the whole of its time,
  so the invariants say since when they were: since the delay began
  (`ReadUnderWay`, `AccessUnderWay`), for the console as for the processor, whose
  access starts anew when the console takes the pins. The pointer of the graphics
  port follows the bus by two clocks (`BusSeen`, `PointerFollows`). A write is
  half done between its two words (`WordDone`). The processor's own memory has a
  delay of one or two clocks, a parameter, and the invariant relates its state to
  what was written of the long word so far. From them: `ProcessorAccesses`,
  `ConsoleReads`, `OwnMemoryWhole` (two of whose parts are action properties).
* **MCLinks_proofs** - the layers of the link, for paths, rests, queues and
  transfers of any length and any clocks of the two sides; the messages, for any
  calls, formats and strings, words of any size, and any keys; and the long
  counters, for words of any size, any times and any gap between two accesses that
  `CounterAssumption` allows. There is one invariant per layer or device.
  *What is said* (`LinkIInv`): the bytes under way are those of the step the
  firmware is in, a command not yet taken whole or the answer to it, with nothing
  before and nothing after (`Talk`), and each side waits for as many as are still
  to come (`Awaited`). The first command of a session may find up to two zeros
  before it, which the cartridge passes over. From it: `AnswersInStep`.
  *The queue* (`QueueIInv`): a byte is counted two clocks after it was written and
  after it was read, so what it counts and what there is differ by what is late
  or early (`Room`), and the bytes between the two addresses are in their order
  (`Memory`). That the firmware reads only where it has seen a byte keeps the
  queue from running below zero (`NotEmpty`). From it: `QueueInOrder`.
  *The serial line* (`SerialIInv`): slave and cartridge are at the same bit
  (`Place`); the access of a byte begins at a fixed bit and its address is a
  function of the place (`SlaveAccess`); the samples of the access follow it
  within two clocks, so each access is seen once, and is over before the next
  (`Samples`); and what registers, queue and cartridge have got is the transfer up
  to this place (`RegistersGot`, `QueueGot`, `QueueGave`, `CartridgeGot`). From it:
  `TransfersWhole`.
  *The messages* (`SendIInv`): what is out on the line, the character in the
  transmitter and what the piece still has are the text of the calls so far, up to
  what the format has left (`SendText`); that a write finds the transmitter idle
  (`SendPlace`) is why no character is lost. Under it lie lemmas about the operators:
  the digits that are left of ten or eight divisions, without the zeros above the
  highest, are the numeral of the number (`NumeralIs`), and what a piece, a call and
  a sequence of calls print is put together of its parts (`CharactersMean`,
  `HeardFirst`, `AllHeardNext`), with a return before each line feed (`Paired`). The
  rate (`RateFound`): the divisor found so far is the quotient of clock and rate,
  and large enough for the rest of the division not to move the tenth bit by half of
  itself (`Near`). The line that comes in (`InputIInv`): the receiver has the last
  key (`InputTypes`), which is later than all that were read as long as it is
  unread, and is the last of them otherwise (`InputPlace`); the buffer is what those
  make of a line (`InputLine`); and the cells of the terminal are the buffer and
  blanks, but for what is still to be echoed, stage by stage (`EchoPlace`). From
  them: `MessagesReadable`.
  *The counters* (`CounterIInv`): what the words are worth (`Exact`), that a
  counter being set stays clear of its carry (`SetParts`), how long a reading has
  taken (`ReadTime`), and how the word read first stands to the high word since
  (`ReadParts`): if they agree, there was no carry in between, and if they do not,
  there will be no second one in time. From it: `CountersWhole`.
* **MCData_proofs** - the five ways of the data, each for all it can be given: any
  slots, tables, blocks and frames; saved games of any contents in pieces of any size
  that divides the areas; files of any bytes, runs of any length; set-ups with files
  of any sizes and any number of commands; any window, scale and offset of the picture.
  *The commands for the video chip* (`DmaIInv`): the command of a slot is for the
  memory its tiles are in and no two slots overlap, nor a slot and the table
  (`CommandAddressesTile`, `SlotsApart`); the blocks of the queue were unpacked one
  behind the other from where the port is (`BlocksInLine`), each slot once
  (`QueuedOnce`), and the table comes last (`TableLast`). That a frame queues each
  slot once bounds the queue at 53 blocks, by the pigeonhole principle, and with it
  the address of the next block, which therefore never wraps (`UnpackedBehind`).
  From it: `BlocksAndTable`.
  *The saved games* (`SavedIInv`): every place of an area holds what was last saved
  there or, after the power went in the middle, what was being saved (`AreasHold`);
  what a save or a load has copied so far is there (`SaveUnderWay`,
  `LoadUnderWay`). That pieces stay inside their area rests on its size being a
  multiple of the piece (`AreasApart`). From it: `SavesKept`.
  *The files* (`FileIInv`): what is in the memory of the file under way is the first
  part of what it ought to be, and the runs still asked for say the rest byte by byte
  (`AskedAt`), a copy each byte as the one a distance before it - also where that one
  was written by the same run. What a packet means is a recursive function over its
  runs; `PacketBytes` gives its bytes outright, by induction over the runs. That the
  byte order of the processor is not the console's goes out of the proof early: a
  byte written is the byte the console has there (`ByteAt`). The files before end
  where this one begins, or before (`FilesBehind`). From it: `FilesWhole`.
  *The commands* (`HandlersIInv`): what is promised through the port is below the
  files (`PortBelowFiles`), the music behind them (`MusicBehind`), the files of the
  set-up are whole in their places (`FilesThere`) and the last indices of the
  animations are those of its table (`AnimationsCounted`). From it:
  `PortAndFilesKept`.
  *The picture* (`ScaleIInv`): the columns copied so far are those of the stamp, the
  rest blank (`Copied`), and the strips written so far hold the columns and the lines
  they should at the words of their own, none outside the buffer (`StripsWritten`).
  The layout of the shared memory is a sum over its areas, which the proof works out
  area by area. From it: `PictureScaled`.
* **MCSound_proofs** - four parts of the sound, for any ratio and width of the
  divider, any size, pitch and pace of a channel, any ring, block and start of the
  music, and any number of channels, bits and clocks to the period of the output.
  *The divider* (`IInv`): the balance `clk_ctr = clocks * CLK_INC - ticks * ratio`
  with the bounds of the counter. From it: `TypeOK`, so the counter never wraps, and
  `NoDrift`.
  *The channel* (`ChannelIInv`): the samples held are those between the two
  addresses, which run twice round the buffer so that a full one is told from an
  empty one (`SamplesHeld`); a write of the firmware that is still on its way is
  counted (`WriteCounted`); the sample read ahead is the next one (`SampleNext`);
  and the pitch counter stands to the periods since it last left one out
  (`PitchCounts`). From it: `EffectsInOrder`.
  *The ring* (`MusicIInv`): a block was begun only where it fits. `BlockFits` says
  so, but is not inductive: a block may be begun when it fills the ring to the last
  byte, or behind a reader that waits, and fits only because the reader moves on
  before it is written. `BlockHasRoom` adds that more of the block is left than the
  drive can write in what remains of the period (`Writable`). What was read of the
  sample so far is the beginning of the one at `rd_addr` (`SampleRead`), which the
  drive does not reach. From it: `MusicInOrder`, which is the room for the blocks
  and the refinement of SampleStream, step by step: a byte written is `Put`, a
  sample handed over is `Take`, a stop is `Clear`, all else leaves the stream alone.
  *Mixing and output* (`OutputIInv`): a sum is made channel by channel, for one side
  (`ChannelsAdded`). For a channel of the full rate it has the sample of this period;
  for another one a sample between the least it can have gone on from (`Floor`, what
  the last sum before had of it) and where its clock has come to (`Span`). The right
  side is mixed after the left one and starts from it (`SidesMixed`). Mixing has taken
  as long as the period has, or it is over (`InTime`), so the next tick cuts no pass
  short. Each stage of the volume is a period behind the one before it, and has no
  later sample of any channel (`StagesFollow`); the bits that were sent and heard are
  those of one such pair from its beginning (`WordsFollow`), except the last of the
  right sample, which comes in the next period. From it: `PairsInOrder`.
* **SfxPlayer_proofs** - for any number of channels, any sounds and any size of the
  buffers. A channel by itself is the lemma `SampleTaken`: a sample moves it on by
  one place or, looped, to the start, where a sound of an even number of half
  bytes has just ended with the second half. `IInv` adds that what is played is a
  sound and that a channel found free stays free while the loop passes the others,
  all of which were busy (`Seeking`). From it: `Inv` (`TypeOK`, `RoomForSample`,
  `InPlace`) and `NoNeedlessSteal`.

The assumptions are the named `ASSUME`s of the modules (`MailboxAssumption`,
`CacheAssumption`, `FrameAssumption`, `DmaAssumption`, `DividerAssumption`, ...),
which TLC evaluates in each run. They are what the code gives: the three words of
the protocol differ, the largest budget is below the number of slots, counters
are as wide as declared, animation data leads from pictures to pictures of the
same animation, a rate is not above its base.

A component that is instantiated has its assumption as a definition
(`ResetAssumption`, `WramAssumption`, `FifoAssumption`, `SpiAssumption`,
`CounterAssumption`, `RingAssumption`), and the module that composes it assumes that
(`RegistersAssumption`, `MemoriesAssumption`, `LayersAssumption`,
`DevicesAssumption`, `StoresAssumption`, `CommandsAssumption`, `PartsAssumption`).

Each invariant was first model-checked, whole, as an invariant of the run of its
module, for `SerialIInv` also with other lengths and speeds than the run's. The
proof of `AnswersInStep` found an assumption missing: what is left in the queue
at the start is no longer than the queue (`LinkAssumption`), without which `Fits`
is false from the start; that of `BlocksAndTable` that there is a frame at all
(`DmaAssumption`); that of `MusicInOrder` that the drive writes a block at least
before it starts (`RingAssumption`); that of `MessagesReadable` that the clock is 36
times the rate at least, that a format has no return of its own, which a terminal
could not tell from those printf adds, and that a line feed is not printed by `%c`,
which puts no return before it (`ConsoleAssumption`).

What a recursive definition computes is proved by induction in the form of a set:
a property is the set of the numbers that have it, which by the well-foundedness of
`<` is all of them (lemma `Induction`; `Recursion` and `MadeAlike` for functions that
are defined by recursion). The modules such proofs are about define by recursive
functions and not by folds, whose theorems take an operator.

Only checked by TLC:

* all liveness: it needs fairness, which is out of the prover's reach;
* TimeCompare: what its run checks is violated; what does hold of the comparator is
  left to section 7.

## 6. Not modelled

* External: the game's program, the drive, the video chip beyond its DMA
  commands. They are given the most general behaviour the interface allows.
* Data: graphics, animation tables and sounds come from the game's ROM, which
  is not in the repository. The models take any data of the right shape.
* Small hardware, left for later or without state of its own: `bram_io` (the
  state machine of `sdram_io` without a console), `ramdp_io` (one access is an
  atomic step of CmdMailbox and VramCache), the processor's bus decoding and
  millisecond timer, the volume ramp and mode selector of MD+, the decoding of
  addresses and the pins.
* Firmware: what the copy of the ROM and its patches put in memory (CmdMailbox
  has only its effect on the shared registers).
* The library of the processor: the trap handlers and the drivers of SPI, TWI,
  PWM, GPIO, the watchdog and the random numbers, which nothing of the firmware
  calls, and the counter of instructions. The core of the processor is taken to
  run a program as it is written, and to make one access at a time.
* Generated: images and Quartus files.
* Command B1 clears the first entry of a sprite table that is empty, which
  changes nothing Frame has, and is left out of it. Panning and sample rates only
  go to registers.

## 7. Plan

Done: the modules of section 2 with their runs, the proofs of section 5. Left, in
this order:

1. *Proofs*: under what condition the interrupt of TimeCompare does come.
2. *Composition*: VdpDma implements the slots of VramCache; ResetCtrl implements
   `ReleaseGame` of CmdMailbox; FifoBuff implements the queue of EdLink; the page
   of CmdHandlers is what Unpack fills.
3. *Small hardware*: `bram_io`, the volume ramp of the music.
