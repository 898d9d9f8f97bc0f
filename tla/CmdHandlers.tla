---------------------------- MODULE CmdHandlers -----------------------------
(***************************************************************************)
(* What the commands of the game do to the graphics memory and its port,   *)
(* to the music and to the registers (the handlers of mcu/paprium.c).      *)
(* CmdMailbox has how a command gets to its handler, one after the other;  *)
(* here a command is a step.  The memory is taken in pages of a block's    *)
(* size, and a page is known by what was unpacked to it.  The sprites and  *)
(* the cache are in Frame, the saved games in Eeprom, the sounds in        *)
(* SfxPlayer and the scaled picture in Rescale: their commands leave all   *)
(* of this alone.                                                          *)
(***************************************************************************)
EXTENDS Integers, Sequences

CONSTANTS
    Block,          \* blocks the game shows
    Loads,          \* how many of them a frame has to load
    Track,          \* pieces of music
    FileSizes,      \* pages of the three files of the set-up
    Animations,     \* animations of each object in the table of the set-up
    Own,            \* pages the game keeps for itself
    MaxCommands     \* bound on the commands

Staging == 72       \* 0x9000 in pages
DataStart == 128    \* PPM_DATA_START_ADDR
MaxSlots == 53      \* what ppm_vram_set_budget allows

MaxWord == 65535    \* what 16 bits count
Word == 0 .. MaxWord

HandlersAssumption ==
    /\ Block \subseteq Nat /\ Track \subseteq 0 .. 127 /\ MaxCommands \in Nat
    /\ Loads \subseteq 0 .. MaxSlots
    /\ FileSizes \subseteq [1 .. 3 -> Nat]
    /\ Animations \subseteq Seq(Word)
    /\ Own \subseteq 0 .. Staging - 1   \* the game's part of the bargain

VARIABLES
    sdram,              \* what is in the pages unpacked to
    sdram_ptr,          \* the port: its page
    sdram_en,           \* and whether it is there
    bgm_unpack_addr,    \* where music is unpacked to
    anim_max_index,     \* the last animation of each object
    mdp_on, mdp_cmd,    \* the drive is there; what it was told last
    vol,                \* vol_sfx and vol_bgm
    mwire_data_in,      \* the network card has something
    table, promised,    \* history: the set-up, and what the port is to give
    count               \* commands so far

vars == <<sdram, sdram_ptr, sdram_en, bgm_unpack_addr, anim_max_index, mdp_on, mdp_cmd, vol,
          mwire_data_in, table, promised, count>>
memory == <<sdram, bgm_unpack_addr, anim_max_index, table>>
port == <<sdram_ptr, promised>>
registers == <<sdram_en, mdp_on, mdp_cmd, vol, mwire_data_in>>

NoTable == [sizes |-> <<0, 0, 0>>, animations |-> << >>]

\* ppm_reset: the drive may not have answered
Init ==
    /\ sdram = << >> /\ sdram_ptr = 0 /\ sdram_en = TRUE
    /\ bgm_unpack_addr = 0 /\ anim_max_index = << >>
    /\ mdp_on \in BOOLEAN /\ mdp_cmd = <<"pause">>
    /\ vol = [sfx |-> 255, bgm |-> 255] /\ mwire_data_in = FALSE
    /\ table = NoTable /\ promised = << >> /\ count = 0

\* ppm_unpack of something to a page and those after it
Unpacked(memory_, page, pages) ==
    [a \in DOMAIN memory_ \cup {page + k - 1 : k \in 1 .. Len(pages)} |->
        IF a \in page .. page + Len(pages) - 1 THEN pages[a - page + 1] ELSE memory_[a]]

Pages(what, n) == [k \in 1 .. n |-> <<what, k>>]

MovePort(page, pages) == sdram_ptr' = page /\ promised' = pages
-----------------------------------------------------------------------------
(***************************************************************************)
(* The set-up.                                                             *)
(***************************************************************************)
\* pages of the first n files
PagesOf(sizes, n) ==
    LET pages(k) == IF k <= n THEN sizes[k] ELSE 0
    IN  pages(1) + pages(2) + pages(3)

\* Variant for the checks: the place behind the last file is not worked out.
FileStart_LastStays(sizes, k) == DataStart + PagesOf(sizes, IF k = 4 THEN 2 ELSE k - 1)

\* ppm_setup_data unpacks one file behind the other, and music behind the last
FileStart(sizes, k) == DataStart + PagesOf(sizes, k - 1)

FileNames == <<"unk", "unk2", "anm">>

\* anim_count - 1 in 16 bits, for the objects the table has
MaxIndex(animations) ==
    [x \in DOMAIN anim_max_index \cup DOMAIN animations |->
        IF x \in DOMAIN animations THEN (animations[x] - 1) % 65536 ELSE anim_max_index[x]]

ppm_setup_data(sizes, animations) ==
    /\ sdram' = LET put(m, k) == Unpacked(m, FileStart(sizes, k), Pages(FileNames[k], sizes[k]))
                IN  put(put(put(sdram, 1), 2), 3)
    /\ bgm_unpack_addr' = FileStart(sizes, 4)
    /\ anim_max_index' = MaxIndex(animations)
    /\ table' = [sizes |-> sizes, animations |-> animations]

\* the sounds and the pointers of the objects are in their own modules
cmd_C6_setup_data ==
    /\ \E sizes \in FileSizes, animations \in Animations : ppm_setup_data(sizes, animations)
    /\ UNCHANGED <<port, registers>>
-----------------------------------------------------------------------------
(***************************************************************************)
(* Blocks and data for the port.                                           *)
(***************************************************************************)
\* ppm_obj_frame_end: the blocks that were not in the cache, one behind the other
cmd_AF_frame_end(first, n) ==
    LET blocks == [k \in 1 .. n |-> <<"block", first + k>>]
    IN  /\ sdram' = Unpacked(sdram, Staging, blocks)
        /\ MovePort(Staging, blocks)
        /\ UNCHANGED <<bgm_unpack_addr, anim_max_index, table, registers>>

\* the block twice, at 0x9000 and 0x9200
cmd_F2_unpack(b) ==
    /\ sdram' = Unpacked(Unpacked(sdram, Staging, <<<<"block", b>>>>), Staging + 1, <<<<"block", b>>>>)
    /\ MovePort(Staging, <<<<"block", b>>, <<"block", b>>>>)
    /\ UNCHANGED <<bgm_unpack_addr, anim_max_index, table, registers>>

cmd_DA_unpack(page) ==
    /\ sdram' = Unpacked(sdram, page, Pages("data", 2))
    /\ MovePort(page, Pages("data", 2))
    /\ UNCHANGED <<bgm_unpack_addr, anim_max_index, table, registers>>

\* the game finds there what is there
cmd_DB_set_dma_ptr(page) ==
    /\ MovePort(page, IF page \in DOMAIN sdram THEN <<sdram[page]>> ELSE << >>)
    /\ UNCHANGED <<memory, registers>>

\* a page read through the port, which moves on
GameReads ==
    /\ sdram_en /\ promised # << >>
    /\ sdram_ptr' = sdram_ptr + 1 /\ promised' = Tail(promised)
    /\ UNCHANGED <<memory, registers, count>>
-----------------------------------------------------------------------------
(***************************************************************************)
(* Music and registers.                                                    *)
(***************************************************************************)
\* mdp_play and mdp_stop
Told(command) == mdp_cmd' = IF mdp_on THEN command ELSE mdp_cmd

\* the old music goes to the memory even if the drive plays the new one; the game
\* has set up before, which is assumed of it
cmd_8C_bgm_play(track, play) ==
    /\ table # NoTable
    /\ sdram' = Unpacked(sdram, bgm_unpack_addr, Pages("music", 2))
    /\ Told(IF play THEN <<"play", track>> ELSE <<"pause">>)
    /\ UNCHANGED <<port, bgm_unpack_addr, anim_max_index, table, sdram_en, mdp_on, vol,
                   mwire_data_in>>

cmd_8D_bgm_cfg(arg) ==
    /\ IF arg \in {0, 8} THEN Told(<<"pause">>) ELSE UNCHANGED mdp_cmd
    /\ UNCHANGED <<memory, port, sdram_en, mdp_on, vol, mwire_data_in>>

cmd_81_init ==
    /\ sdram_en' = TRUE
    /\ UNCHANGED <<memory, port, mdp_on, mdp_cmd, vol, mwire_data_in>>

cmd_84_sdram_off ==
    /\ sdram_en' = FALSE
    /\ UNCHANGED <<memory, port, mdp_on, mdp_cmd, vol, mwire_data_in>>

\* C9 and CA
cmd_vol(which_, arg) ==
    /\ vol' = [vol EXCEPT ![which_] = arg]
    /\ UNCHANGED <<memory, port, sdram_en, mdp_on, mdp_cmd, mwire_data_in>>

cmd_E7_mwire ==
    /\ mwire_data_in' = TRUE
    /\ UNCHANGED <<memory, port, sdram_en, mdp_on, mdp_cmd, vol>>

\* the ones it does not know, or knows and leaves
cmd_unknown == UNCHANGED <<memory, port, registers>>

\* the table of the handlers, and the arguments the game gives them
Command ==
    \/ cmd_C6_setup_data
    \/ \E b \in Block, n \in Loads : cmd_AF_frame_end(b, n)
    \/ \E b \in Block : cmd_F2_unpack(b)
    \/ \E page \in Own : cmd_DA_unpack(page)
    \/ \E page \in Own \cup {Staging} : cmd_DB_set_dma_ptr(page)
    \/ \E track \in Track, play \in BOOLEAN : cmd_8C_bgm_play(track, play)
    \/ \E arg \in {0, 1, 8} : cmd_8D_bgm_cfg(arg)
    \/ cmd_81_init \/ cmd_84_sdram_off
    \/ \E which_ \in {"sfx", "bgm"} : cmd_vol(which_, 0)
    \/ cmd_E7_mwire \/ cmd_unknown

ppm_cmd_handler ==
    /\ count < MaxCommands /\ count' = count + 1
    /\ Command

\* the game sends nothing more
Quiet == count = MaxCommands /\ UNCHANGED vars

Next == ppm_cmd_handler \/ GameReads \/ Quiet

Spec == Init /\ [][Next]_vars
-----------------------------------------------------------------------------
TypeOK ==
    /\ sdram_ptr \in Nat /\ sdram_en \in BOOLEAN /\ mdp_on \in BOOLEAN
    /\ vol.sfx \in 0 .. 255 /\ vol.bgm \in 0 .. 255
    /\ \A x \in DOMAIN anim_max_index : anim_max_index[x] \in Word

\* What the last command for the port promised is what it gives, in order,
\* whatever commands for other things come before the game has read it.
PortGivesPromised ==
    \A k \in 1 .. Len(promised) :
        /\ sdram_ptr + k - 1 \in DOMAIN sdram
        /\ sdram[sdram_ptr + k - 1] = promised[k]

\* The files of the set-up stay as they are, whatever else is unpacked, with
\* a full cache to load and music to play.
FilesStay ==
    \A k \in 1 .. 3 : \A n \in 1 .. table.sizes[k] :
        sdram[FileStart(table.sizes, k) + n - 1] = <<FileNames[k], n>>

\* ppm_obj_render shows an animation iff the object has it, if it has any.
AnimationsKnown ==
    \A x \in DOMAIN table.animations : table.animations[x] > 0 =>
        \A anim \in 0 .. 255 : anim > anim_max_index[x] <=> anim >= table.animations[x]
=============================================================================
