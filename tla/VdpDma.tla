------------------------------- MODULE VdpDma -------------------------------
(***************************************************************************)
(* The commands the firmware queues for the video chip (mcu/mame.c): where *)
(* the blocks and the sprite table go in the video memory.  VramCache      *)
(* takes a slot to be an area of its own; here a command is the words the  *)
(* game writes to the registers of the chip, and the video memory is 128   *)
(* pages of 512 bytes, the size of a block.  The port the blocks are read  *)
(* from is at 0xc000 of the cartridge and moves on by itself.              *)
(***************************************************************************)
EXTENDS Naturals, Sequences, FiniteSets

CONSTANTS
    Slots,      \* the slots the budget allows
    Counts,     \* how many entries the sprite table may have
    MaxBlocks,  \* bound on the blocks of a frame
    MaxFrame    \* bound on the frames

ASSUME DmaAssumption ==
    /\ Slots \subseteq 0 .. 52          \* ppm_vram_set_budget accepts 0x35
    /\ Counts \subseteq 1 .. 144        \* sat_data has 144 entries
    /\ MaxBlocks \in Nat /\ MaxFrame \in Nat \ {0}

Page == 0 .. 127
PageSize == 512

VARIABLES
    dma_cmd,        \* the queue, as the words of each command
    unpack_addr,    \* ppm_block_unpack_addr: where the next block is unpacked
    sdram_ptr,      \* the port
    vram,           \* where each page of the video memory was copied from
    block_at,       \* history: where the block of each slot was unpacked
    sat_count,      \* entries of the table of this frame, 0 before it is closed
    shown,          \* entries of the table last copied
    frame           \* frames begun

vars == <<dma_cmd, unpack_addr, sdram_ptr, vram, block_at, sat_count, shown, frame>>

Staging == 36864        \* 0x9000
TableSource == 2816     \* 0xb00, sat_data in the shared RAM
Window == 49152         \* 0xc000, the port
NoSource == 0

Init ==
    /\ dma_cmd = << >>
    /\ unpack_addr = Staging
    /\ sdram_ptr = Staging
    /\ vram = [p \in Page |-> NoSource]
    /\ block_at = [x \in Slots |-> NoSource]
    /\ sat_count = 0
    /\ shown = 0
    /\ frame = 1

\* the place of slot x, in blocks: 0x31 of them from the second page on, the
\* rest at the end of the video memory, behind the sprite table
BlockIndex(x) == x + (IF x <= 48 THEN 1 ELSE 75)

\* the tile a sprite of the block in slot x is written with
Tile(x) == BlockIndex(x) * 16

\* Variant for the checks: the length the comment of the code says.
BlockCommand_LongCopy(x) ==
    [lenH |-> \h9402, lenL |-> \h9300,
     srcH |-> \h9700, srcM |-> \h9660, srcL |-> \h9500,
     cmdH |-> \h4000 + ((BlockIndex(x) * 512) % 16384),
     cmdL |-> \h80 + ((BlockIndex(x) \div 32) % 4)]

\* ppm_vram_load_block: the command for slot x
BlockCommand(x) ==
    [lenH |-> \h9401, lenL |-> \h9300,
     srcH |-> \h9700, srcM |-> \h9660, srcL |-> \h9500,
     cmdH |-> \h4000 + ((BlockIndex(x) * 512) % 16384),
     cmdL |-> \h80 + ((BlockIndex(x) \div 32) % 4)]

\* ppm_close_sprite_table: the command for a table of n entries of 4 words
TableCommand(n) ==
    [lenH |-> \h9400 + ((4 * n) \div 256), lenL |-> \h9300 + ((4 * n) % 256),
     srcH |-> \h9700 + ((TableSource \div 131072) % 256),
     srcM |-> \h9600 + ((TableSource \div 512) % 256),
     srcL |-> \h9500 + ((TableSource \div 2) % 256),
     cmdH |-> \h7000, cmdL |-> \h0083]

\* a block is unpacked and queued for a slot this frame has not used
QueueBlock(x) ==
    /\ sat_count = 0
    /\ Len(dma_cmd) < MaxBlocks
    /\ \A k \in 1 .. Len(dma_cmd) : dma_cmd[k] # BlockCommand(x)
    /\ dma_cmd' = Append(dma_cmd, BlockCommand(x))
    /\ block_at' = [block_at EXCEPT ![x] = unpack_addr]
    /\ unpack_addr' = (unpack_addr + PageSize) % 65536
    /\ UNCHANGED <<sdram_ptr, vram, sat_count, shown, frame>>

\* the table is closed and queued, the port rewound
CloseTable(n) ==
    /\ sat_count = 0
    /\ sat_count' = n
    /\ dma_cmd' = Append(dma_cmd, TableCommand(n))
    /\ sdram_ptr' = Staging
    /\ UNCHANGED <<unpack_addr, vram, block_at, shown, frame>>

(***************************************************************************)
(* The video chip, outside the repository: what it reads in the words of a *)
(* command.  It counts words and increments its address by 2.              *)
(***************************************************************************)
Length(c)  == 2 * ((c.lenH % 256) * 256 + (c.lenL % 256))
Source(c)  == 2 * ((c.srcH % 128) * 65536 + (c.srcM % 256) * 256 + (c.srcL % 256))
Address(c) == (c.cmdL % 4) * 16384 + (c.cmdH % 16384)

PageOf(address) == (address \div PageSize) % 128
Pages(c) == {PageOf(Address(c) + i) : i \in {PageSize * k : k \in 0 .. (Length(c) - 1) \div PageSize}}

RunCommand ==
    LET c == Head(dma_cmd)
        from == IF Source(c) = Window THEN sdram_ptr ELSE Source(c)
        offset(p) == (p + 128 - PageOf(Address(c))) % 128
    IN
    /\ sat_count # 0
    /\ dma_cmd # << >>
    /\ vram' = [p \in Page |-> IF p \in Pages(c) THEN from + PageSize * offset(p) ELSE vram[p]]
    /\ sdram_ptr' = IF Source(c) = Window THEN sdram_ptr + Length(c) ELSE sdram_ptr
    /\ shown' = IF Source(c) = TableSource THEN sat_count ELSE shown
    /\ dma_cmd' = Tail(dma_cmd)
    /\ UNCHANGED <<unpack_addr, block_at, sat_count, frame>>

\* command AF of the next frame
FrameEnd ==
    /\ sat_count # 0 /\ dma_cmd = << >>
    /\ frame < MaxFrame
    /\ unpack_addr' = Staging
    /\ sat_count' = 0
    /\ frame' = frame + 1
    /\ UNCHANGED <<dma_cmd, sdram_ptr, vram, block_at, shown>>

\* the bound on the frames
LastFrame == sat_count # 0 /\ dma_cmd = << >> /\ frame = MaxFrame /\ UNCHANGED vars

Next ==
    \/ \E x \in Slots : QueueBlock(x)
    \/ \E n \in Counts : CloseTable(n)
    \/ RunCommand
    \/ FrameEnd
    \/ LastFrame

Spec == Init /\ [][Next]_vars
-----------------------------------------------------------------------------
Command == [lenH : Nat, lenL : Nat, srcH : Nat, srcM : Nat, srcL : Nat, cmdH : Nat, cmdL : Nat]

TypeOK ==
    /\ dma_cmd \in Seq(Command)
    /\ unpack_addr \in Nat /\ sdram_ptr \in Nat
    /\ vram \in [Page -> Nat] /\ block_at \in [Slots -> Nat]
    /\ sat_count \in Counts \cup {0} /\ shown \in Counts \cup {0}
    /\ frame \in 1 .. MaxFrame

\* A block that no command of the queue is for is in the video memory, all
\* of it, at the tile its sprites are written with.
Queued(x) == \E k \in 1 .. Len(dma_cmd) : dma_cmd[k] = BlockCommand(x)
BlocksAtTheirTiles ==
    \A x \in Slots : block_at[x] # NoSource /\ ~Queued(x) =>
        vram[PageOf(Tile(x) * 32)] = block_at[x]

\* No block is ever copied over the sprite table at 0xf000.
TableAddress == 61440
TableStays ==
    \A i \in 0 .. 8 * shown - 1 :
        vram[PageOf(TableAddress + i)] = TableSource + PageSize * (i \div PageSize)

=============================================================================
