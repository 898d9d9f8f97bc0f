----------------------------- MODULE VramCache ------------------------------
(***************************************************************************)
(* The cache of graphic blocks the firmware keeps in the video memory of   *)
(* the console (mcu/mame.c).  A slot of the cache is an area of the video  *)
(* memory that holds the tiles of one block.  The firmware decides which   *)
(* block is in which slot while it renders a frame; a block that is not    *)
(* there is unpacked into a staging area of the SDRAM and a DMA command is *)
(* queued for it.  The game runs the commands in the next vertical blank,  *)
(* reading the staging area through a port that moves on by itself.        *)
(*                                                                         *)
(* usage is only ever tested for zero, so it is the set of slots in use;   *)
(* a block's data is its number; sdram_ptr counts blocks from 0x9000.      *)
(***************************************************************************)
EXTENDS Naturals, Sequences, FiniteSets

CONSTANTS
    NSlots,      \* PPM_MAX_VRAM_SLOTS, 64 in the code
    MaxBudget,   \* the largest budget accepted, 0x35 in the code
    Block,       \* block numbers
    NoBlock,     \* 0: no block
    AgeMod,      \* 2^16: age is a uint16_t
    BlockCost,   \* words a block is charged for, 0x110 in the code
    DmaMod,      \* 2^16: the DMA counters are 16 bits wide
    DmaBudget,   \* dma_budget, written by the game
    DmaTotals,   \* values of dma_total the game may leave before a frame
    MaxFrame     \* bound on the frames of a behaviour

ASSUME CacheAssumption ==
    /\ NSlots \in Nat /\ MaxBudget \in Nat /\ MaxBudget < NSlots
    /\ NoBlock \notin Block
    /\ AgeMod \in Nat \ {0, 1}
    /\ BlockCost \in Nat \ {0}
    /\ DmaMod \in Nat \ {0}
    /\ DmaBudget \in 0 .. DmaMod - 1
    /\ DmaTotals \subseteq 0 .. DmaMod - 1
    /\ MaxFrame \in Nat

Slot == 0 .. NSlots - 1

VARIABLES
    block_num,      \* the block each slot holds or is about to hold
    usage,          \* the slots used by the frame being built
    age,            \* frames each slot has gone unused
    max_slot,       \* ppm_vram_max_slot: slots below it may be used
    rendering,      \* ppm_obj_frame_end is under way
    dma_total,      \* words the game had queued itself before the frame
    dma_remaining,  \* words the frame may still queue
    dma_cmd,        \* the queue: destination slot of each block command
    staged,         \* the blocks unpacked into the staging area
    done,           \* commands of the queue the game has run
    sdram_ptr,      \* the game's read port into the SDRAM, in blocks
    vram,           \* what each slot of the video memory really holds
    frame,          \* history: frames completed
    last_use        \* history: the frames completed when each slot was last in use

slotVars == <<block_num, usage, age, max_slot>>
dmaVars  == <<dma_total, dma_remaining, dma_cmd, staged>>
gameVars == <<done, sdram_ptr, vram>>
cacheVars == <<block_num, usage, age, max_slot, rendering, dma_total,
               dma_remaining, dma_cmd, staged, done, sdram_ptr, vram, frame, last_use>>

Init ==
    /\ block_num = [s \in Slot |-> NoBlock]
    /\ usage = {}
    /\ age = [s \in Slot |-> 0]
    /\ max_slot = 0
    /\ rendering = FALSE
    /\ dma_total = 0
    /\ dma_remaining = 0
    /\ dma_cmd = << >>
    /\ staged = << >>
    /\ done = 0
    /\ sdram_ptr = 0
    /\ vram = [s \in Slot |-> NoBlock]
    /\ frame = 0
    /\ last_use = [s \in Slot |-> 0]

(***************************************************************************)
(* Commands of the game between two frames.                                *)
(***************************************************************************)
\* ppm_vram_reset_blocks: forget the slots from `first` on
ResetBlocks(first) ==
    /\ block_num' = [s \in Slot |-> IF s >= first THEN NoBlock ELSE block_num[s]]
    /\ usage' = {s \in usage : s < first}
    /\ age' = [s \in Slot |-> IF s >= first THEN 0 ELSE age[s]]
    /\ last_use' = [s \in Slot |-> IF s >= first THEN frame ELSE last_use[s]]

Capped(blocks) == IF blocks > MaxBudget THEN MaxBudget ELSE blocks

\* command EC, ppm_vram_set_budget
SetBudget(blocks) ==
    /\ ~rendering
    /\ max_slot' = Capped(blocks)
    /\ ResetBlocks(Capped(blocks))
    /\ UNCHANGED <<rendering, dmaVars, gameVars, frame>>

\* command 81: a budget of 0 and ppm_obj_reset
ObjReset ==
    /\ ~rendering
    /\ max_slot' = 0
    /\ ResetBlocks(0)
    /\ UNCHANGED <<rendering, dmaVars, gameVars, frame>>

\* command AE, ppm_obj_frame_start
FrameStart ==
    /\ ~rendering
    /\ usage' = {}
    /\ UNCHANGED <<block_num, age, max_slot, rendering, dmaVars, gameVars,
                   frame, last_use>>

\* commands DA, DB and F2 move the game's read port; that the game has run its
\* queue by then is assumed of it, nothing checks it
MovePort(p) ==
    /\ ~rendering
    /\ done = Len(dma_cmd)
    /\ sdram_ptr' = p
    /\ UNCHANGED <<slotVars, rendering, dmaVars, done, vram, frame, last_use>>

(***************************************************************************)
(* Command AF, ppm_obj_frame_end.  The game has run the queue of the last  *)
(* frame and emptied it (dma_cmd_count is its to reset), and waits.        *)
(***************************************************************************)
FrameEndBegin(total) ==
    /\ ~rendering
    /\ frame < MaxFrame
    /\ done = Len(dma_cmd)
    /\ rendering' = TRUE
    /\ dma_total' = total
    /\ dma_remaining' = (DmaBudget + DmaMod - total) % DmaMod
    /\ dma_cmd' = << >>
    /\ staged' = << >>
    /\ done' = 0
    /\ UNCHANGED <<slotVars, sdram_ptr, vram, frame, last_use>>

Usable == 0 .. max_slot - 1

\* ppm_vram_find_block and the first loop of ppm_vram_load_block
SlotsOf(b) == {s \in Usable : block_num[s] = b}
IsCached(b) == SlotsOf(b) # {}

\* the second loop: the first of the oldest slots no sprite of the frame uses
Evictable == {s \in Usable : s \notin usage /\ age[s] > 0}
\* Variants for the checks: the oldest slot even if it is in use, and the
\* first slot that may be taken instead of the oldest.
IsVictim_InUseToo(v) ==
    /\ v \in Usable
    /\ \A s \in Usable : age[s] < age[v] \/ (age[s] = age[v] /\ v <= s)
IsVictim_First(v) == v \in Evictable /\ \A s \in Evictable : v <= s

IsVictim(v) ==
    /\ v \in Evictable
    /\ \A s \in Evictable : age[s] < age[v] \/ (age[s] = age[v] /\ v <= s)

\* ppm_vram_load_block, the block is there
LoadHit(b) ==
    /\ rendering
    /\ \E s \in SlotsOf(b) :
        /\ \A t \in SlotsOf(b) : s <= t
        /\ usage' = usage \cup {s}
        /\ age' = [age EXCEPT ![s] = 0]
        /\ last_use' = [last_use EXCEPT ![s] = frame + 1]
    /\ UNCHANGED <<block_num, max_slot, rendering, dmaVars, gameVars, frame>>

Affordable == dma_remaining >= BlockCost

\* ppm_vram_load_block, the block is unpacked and queued
LoadMiss(b) ==
    /\ rendering
    /\ ~IsCached(b)
    /\ Affordable
    /\ \E v \in Usable :
        /\ IsVictim(v)
        /\ block_num' = [block_num EXCEPT ![v] = b]
        /\ usage' = usage \cup {v}
        /\ age' = [age EXCEPT ![v] = 0]
        /\ last_use' = [last_use EXCEPT ![v] = frame + 1]
        /\ dma_cmd' = Append(dma_cmd, v)
    /\ staged' = Append(staged, b)
    /\ dma_remaining' = dma_remaining - BlockCost
    /\ UNCHANGED <<max_slot, rendering, dma_total, gameVars, frame>>

\* ppm_vram_load_block, no bandwidth or no slot
Refused(b) ==
    /\ rendering
    /\ ~IsCached(b)
    /\ ~Affordable \/ Evictable = {}

LoadRefused(b) == Refused(b) /\ UNCHANGED cacheVars

\* Variant for the checks: the port is left where the game had moved it.
FrameEndFinish_NoRewind ==
    /\ rendering
    /\ rendering' = FALSE
    /\ age' = [s \in Slot |-> IF s \in usage THEN age[s] ELSE (age[s] + 1) % AgeMod]
    /\ frame' = frame + 1
    /\ last_use' = [s \in Slot |-> IF s \in usage THEN frame + 1 ELSE last_use[s]]
    /\ UNCHANGED <<block_num, usage, max_slot, dmaVars, gameVars>>

\* the end of ppm_obj_frame_end: every unused slot ages, the port is rewound
FrameEndFinish ==
    /\ rendering
    /\ rendering' = FALSE
    /\ age' = [s \in Slot |-> IF s \in usage THEN age[s] ELSE (age[s] + 1) % AgeMod]
    /\ sdram_ptr' = 0
    /\ frame' = frame + 1
    /\ last_use' = [s \in Slot |-> IF s \in usage THEN frame + 1 ELSE last_use[s]]
    /\ UNCHANGED <<block_num, usage, max_slot, dmaVars, done, vram>>

(***************************************************************************)
(* The game and the video chip, outside the repository: the next command   *)
(* of the queue copies one block from the port.                            *)
(***************************************************************************)
GameDma ==
    /\ ~rendering
    /\ done < Len(dma_cmd)
    /\ vram' = [vram EXCEPT ![dma_cmd[done + 1]] =
                    IF sdram_ptr + 1 \in DOMAIN staged THEN staged[sdram_ptr + 1] ELSE NoBlock]
    /\ done' = done + 1
    /\ sdram_ptr' = sdram_ptr + 1
    /\ UNCHANGED <<slotVars, rendering, dmaVars, frame, last_use>>

Next ==
    \/ \E n \in 0 .. NSlots : SetBudget(n)
    \/ ObjReset
    \/ FrameStart
    \/ \E p \in 0 .. MaxBudget : MovePort(p)
    \/ \E t \in DmaTotals : FrameEndBegin(t)
    \/ \E b \in Block : LoadHit(b) \/ LoadMiss(b) \/ LoadRefused(b)
    \/ FrameEndFinish
    \/ GameDma

Spec == Init /\ [][Next]_cacheVars
-----------------------------------------------------------------------------
TypeOK ==
    /\ block_num \in [Slot -> Block \cup {NoBlock}]
    /\ usage \subseteq Slot
    /\ age \in [Slot -> 0 .. AgeMod - 1]
    /\ max_slot \in 0 .. MaxBudget
    /\ rendering \in BOOLEAN
    /\ dma_total \in 0 .. DmaMod - 1
    /\ dma_remaining \in 0 .. DmaMod - 1
    /\ dma_cmd \in Seq(Slot)
    /\ staged \in Seq(Block)
    /\ done \in 0 .. Len(dma_cmd)
    /\ sdram_ptr \in Nat
    /\ vram \in [Slot -> Block \cup {NoBlock}]
    /\ frame \in Nat
    /\ last_use \in [Slot -> Nat]

\* A block is in at most one slot, so the slot a sprite was granted is the
\* one ppm_vram_find_block names later when the sprite is written.
UniqueBlocks ==
    \A s, t \in Slot : block_num[s] = block_num[t] /\ block_num[s] # NoBlock => s = t

\* Growing the budget never brings back a slot that was given up: the slots
\* above the budget hold nothing.
BeyondBudgetEmpty == \A s \in Slot : s >= max_slot => block_num[s] = NoBlock

\* The command k is still to be run.
Pending(k) == k \in done + 1 .. Len(dma_cmd)

\* The bookkeeping tells the truth about the video memory: what a slot is
\* said to hold is there, or a command yet to run will bring exactly it.
Coherent ==
    \A s \in Slot : block_num[s] # NoBlock =>
        \/ \E k \in 1 .. Len(dma_cmd) :
                Pending(k) /\ dma_cmd[k] = s /\ staged[k] = block_num[s]
        \/ /\ vram[s] = block_num[s]
           /\ \A k \in 1 .. Len(dma_cmd) : Pending(k) => dma_cmd[k] # s

\* A frame loads a slot at most once, so the staging area and the command
\* list stay within what the largest budget allows.
StagingFits ==
    /\ Len(staged) <= MaxBudget
    /\ \A j, k \in 1 .. Len(dma_cmd) : dma_cmd[j] = dma_cmd[k] => j = k

\* A frame never queues more words than the game left it.
WithinDmaBudget ==
    dma_total <= DmaBudget => dma_total + Len(staged) * BlockCost <= DmaBudget

\* The age of a slot is the time since its last use, so the slot given up is
\* one that has been idle longest, as long as no slot idles for 2^16 frames.
EvictsOldest ==
    [][\A v \in Slot : rendering /\ block_num'[v] # block_num[v] =>
        \A s \in Usable : frame - last_use[s] < AgeMod => last_use[v] <= last_use[s]]_cacheVars

\* A slot a sprite of this frame or of the one before uses keeps its block
\* while the frame is built: the sprites already written stay right.
UsedSlotsKept ==
    [][rendering => \A s \in Usable :
        last_use[s] >= frame => block_num'[s] = block_num[s]]_cacheVars
-----------------------------------------------------------------------------
(***************************************************************************)
(* The inductive invariant behind the properties above, by parts.          *)
(***************************************************************************)
\* the commands of a frame go to distinct slots, each marked as used
Commands ==
    /\ Len(staged) = Len(dma_cmd)
    /\ \A k \in 1 .. Len(dma_cmd) :
        dma_cmd[k] < MaxBudget /\ (rendering => dma_cmd[k] \in usage)
    /\ \A j, k \in 1 .. Len(dma_cmd) : dma_cmd[j] = dma_cmd[k] => j = k

\* the port of the game is at the block its next command is for
Port ==
    /\ rendering => done = 0
    /\ ~rendering /\ done < Len(dma_cmd) => sdram_ptr = done

\* the age of a slot is its idle time until that reaches 2^16, never more
Ages ==
    \A s \in Slot :
        /\ last_use[s] <= IF rendering THEN frame + 1 ELSE frame
        /\ s \in usage => last_use[s] >= frame
        /\ last_use[s] > frame => s \in usage
        /\ last_use[s] >= frame => age[s] = 0
        /\ last_use[s] <= frame => age[s] <= frame - last_use[s]
        /\ frame - last_use[s] \in 0 .. AgeMod - 1 => age[s] = frame - last_use[s]

\* what remains is what the game left less what was queued
Bandwidth ==
    dma_total <= DmaBudget /\ (rendering \/ dma_cmd # << >>)
        => dma_remaining + dma_total + Len(staged) * BlockCost = DmaBudget

IInv ==
    /\ TypeOK /\ UniqueBlocks /\ BeyondBudgetEmpty /\ Coherent
    /\ Commands /\ Port /\ Ages /\ Bandwidth
=============================================================================
