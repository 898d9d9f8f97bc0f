------------------------------ MODULE MCFrame -------------------------------
(***************************************************************************)
(* An animation of two pictures that loops, one of a single picture that   *)
(* ends, and an animation number that does not exist.  The second picture  *)
(* of the loop and the single one share a block.                           *)
(***************************************************************************)
EXTENDS Frame, TLC

CONSTANTS b1, b2, b3, walk, jump, bad

MCNumber    == [a \in Anim |-> CASE a = walk -> 0 [] a = jump -> 1 [] OTHER -> 255]
MCFirst     == [a \in ValidAnim |-> IF a = walk THEN 1 ELSE 3]
MCFollowing == [o \in More |-> 2]
MCLoopTo    == [o \in Offset \ More |-> IF o = 2 THEN 1 ELSE 0]
MCSprites   == [o \in Offset |-> CASE o = 1 -> <<b1>> [] o = 2 -> <<NoBlock, b2>> [] o = 3 -> <<b2, b3>>]
MCAnimOf    == [o \in Offset |-> IF o = 3 THEN jump ELSE walk]

ObjectSymmetry == Permutations(Obj)

\* The game has set its budget, shown one frame without objects and assigned
\* them all; from then on the budget stays as it is.
SteadyInit ==
    LET idle == [block |-> NoBlock, slot |-> NoSlot, kind |-> "dummy", link |-> 0] IN
    /\ block_num = [s \in Slot |-> NoBlock] /\ usage = {}
    /\ age = [s \in Slot |-> 1] /\ max_slot = MaxBudget
    /\ rendering = FALSE /\ done = 0 /\ sdram_ptr = 0
    /\ dma_total = 0 /\ dma_remaining = DmaBudget /\ dma_cmd = << >> /\ staged = << >>
    /\ vram = [s \in Slot |-> NoBlock]
    /\ frame = 1 /\ last_use = [s \in Slot |-> 0]
    /\ intf = [o \in Obj |-> [anim |-> Anim0, next |-> NoAnim, fresh |-> TRUE, in_step |-> TRUE]]
    /\ handle = [o \in Obj |-> [offset |-> 0, number |-> 0]]
    /\ draw_list = << >> /\ todo = << >> /\ cur = Idle
    /\ sat = <<idle>> /\ screen = <<idle>> /\ game = "describes" /\ changes = 0
    /\ proper = {} /\ starved = {}

SteadySpec == SteadyInit /\ [][FrameNext /\ UNCHANGED max_slot]_vars
=============================================================================
