------------------------------- MODULE Frame --------------------------------
(***************************************************************************)
(* How a frame of sprites is built (mcu/mame.c).  The game describes its   *)
(* objects in a table of the shared RAM and lists those to draw; at the    *)
(* end of the frame the firmware advances the animation of each, asks the  *)
(* block cache for the blocks of the new picture, and writes its sprites   *)
(* to the sprite table, falling back on the previous picture when a block  *)
(* cannot be had.  The game then runs the DMA queue and shows the table.   *)
(*                                                                         *)
(* A picture is named by its offset in the animation data.  An animation   *)
(* stands for the type of an object and the animation number within it;    *)
(* the handle remembers the number only.  The two animation counters are   *)
(* only ever compared, so they are one Boolean, in_step.                   *)
(***************************************************************************)
EXTENDS VramCache

CONSTANTS
    Obj,        \* slots of the object table
    Anim,       \* animations the game may ask for
    ValidAnim,  \* those not above ppm_anim_max_index
    Anim0,      \* the animation an object of a cleared table has
    Number,     \* the animation number alone, without the type
    NoAnim,     \* 0xffff: no animation queued
    Offset,     \* pictures; offset 0 is "none"
    First,      \* the first picture of an animation
    More,       \* pictures another one follows (bit 31 of the data word)
    Following,  \* the picture that follows such a picture
    LoopTo,     \* where the animation goes on after its last picture, or 0
    Sprites,    \* the blocks of a picture, one for each sprite
    AnimOf,     \* the animation a picture belongs to
    Budgets,    \* block budgets the game sets
    OwnSprites, \* how many entries of the table the game fills itself
    MaxDraw,    \* objects the game lists in a frame; there is room for 64
    MaxChanges  \* bound on what the game changes between two frames

ASSUME FrameAssumption ==
    /\ ValidAnim \subseteq Anim /\ NoAnim \notin Anim /\ Anim0 \in Anim
    /\ Number \in [Anim -> Nat]
    /\ 0 \notin Offset
    /\ First \in [ValidAnim -> Offset]
    /\ More \subseteq Offset
    /\ Following \in [More -> Offset]
    /\ LoopTo \in [Offset \ More -> Offset \cup {0}]
    /\ Sprites \in [Offset -> Seq(Block \cup {NoBlock})]
    /\ AnimOf \in [Offset -> ValidAnim]
    /\ \A a \in ValidAnim : AnimOf[First[a]] = a
    /\ \A o \in More : AnimOf[Following[o]] = AnimOf[o]
    /\ \A o \in Offset \ More : LoopTo[o] # 0 => AnimOf[LoopTo[o]] = AnimOf[o]
    /\ Budgets \subseteq Nat /\ OwnSprites \subseteq Nat
    /\ MaxDraw \in Nat /\ MaxChanges \in Nat

NoObj == "none"
NoSlot == NSlots        \* ppm_vram_find_block found nothing

VARIABLES
    intf,       \* the game's object table: animation, next, fresh, in_step
    handle,     \* the firmware's handles: current picture and animation
    draw_list,  \* objects to draw
    todo,       \* those ppm_obj_frame_end has not yet rendered
    cur,        \* the render in progress
    sat,        \* the sprite table being built
    screen,     \* the sprite table shown
    game,       \* what the game does: it describes objects, lists those to
                \* draw, or waits for the frame and shows it
    changes,    \* what the game has changed since the last frame
    proper,     \* history: objects drawn from loaded blocks in the last frame
    starved     \* history: objects refused a picture since they were assigned

animVars == <<intf, handle>>
satVars  == <<sat, screen, game>>
vars == <<cacheVars, intf, handle, draw_list, todo, cur, sat, screen, game,
          changes, proper, starved>>

Idle == [obj |-> NoObj]
Rendering(o) == cur = Idle /\ rendering /\ todo # << >> /\ o = Head(todo)

\* the state after the game's first command 81; the handles start all zero
FrameInit ==
    /\ Init
    /\ intf = [o \in Obj |-> [anim |-> Anim0, next |-> Anim0, fresh |-> FALSE, in_step |-> TRUE]]
    /\ handle = [o \in Obj |-> [offset |-> 0, number |-> 0]]
    /\ draw_list = << >>
    /\ todo = << >>
    /\ cur = Idle
    /\ sat = << >>
    /\ screen = << >>
    /\ game = "describes"
    /\ changes = 0
    /\ proper = {}
    /\ starved = {}
-----------------------------------------------------------------------------
(***************************************************************************)
(* The game, frame after frame: it fills the object table, gives the       *)
(* commands AE, AD and AF in this order, runs the queue and shows the      *)
(* table.                                                                  *)
(***************************************************************************)
Change ==
    /\ game = "describes"
    /\ frame < MaxFrame
    /\ changes < MaxChanges
    /\ changes' = changes + 1

Describe(o, entry) ==
    /\ Change
    /\ intf[o] # entry
    /\ intf' = [intf EXCEPT ![o] = entry]
    /\ UNCHANGED <<cacheVars, handle, draw_list, todo, cur, satVars, proper, starved>>

AssignObject(o, a) ==
    Describe(o, [anim |-> a, next |-> NoAnim, fresh |-> TRUE, in_step |-> TRUE])
SwitchAnimation(o, a) == Describe(o, [intf[o] EXCEPT !.anim = a])
QueueAnimation(o, a) == Describe(o, [intf[o] EXCEPT !.next = a])
TouchCounter(o) == Describe(o, [intf[o] EXCEPT !.in_step = FALSE])

\* command EC
CmdBudget(n) ==
    /\ Change
    /\ SetBudget(n)
    /\ proper' = {}
    /\ UNCHANGED <<animVars, draw_list, todo, cur, satVars, starved>>

\* command 81: ppm_obj_reset also clears the object table and the draw list
CmdObjReset ==
    /\ Change
    /\ ObjReset
    /\ \E same \in [Obj -> BOOLEAN] :    \* a counter of 0 may equal the handle's
        intf' = [o \in Obj |-> [anim |-> Anim0, next |-> Anim0, fresh |-> FALSE,
                                in_step |-> same[o]]]
    /\ draw_list' = << >>
    /\ proper' = {}
    /\ UNCHANGED <<handle, todo, cur, satVars, starved>>

\* command AE
CmdFrameStart ==
    /\ game = "describes"
    /\ frame < MaxFrame
    /\ FrameStart
    /\ draw_list' = << >>
    /\ game' = "lists"
    /\ changes' = 0
    /\ UNCHANGED <<animVars, todo, cur, sat, screen, proper, starved>>

\* command AD, ppm_obj_add; the game lists no more than there is room for,
\* which ppm_obj_add does not check
CmdObjAdd(o) ==
    /\ game = "lists"
    /\ Len(draw_list) < MaxDraw
    /\ draw_list' = Append(draw_list, o)
    /\ UNCHANGED <<cacheVars, animVars, todo, cur, satVars, changes, proper, starved>>

\* command AF, its first half
CmdFrameEnd(total) ==
    /\ game = "lists"
    /\ FrameEndBegin(total)
    /\ game' = "waits"
    /\ \E n \in OwnSprites : sat' = [i \in 1 .. n |->
            [block |-> NoBlock, slot |-> NoSlot, kind |-> "game", link |-> i]]
    /\ todo' = draw_list
    /\ UNCHANGED <<animVars, draw_list, cur, screen, changes, proper, starved>>
-----------------------------------------------------------------------------
(***************************************************************************)
(* ppm_obj_render, up to the choice of the picture.                        *)
(***************************************************************************)
MustSet(o) ==
    intf[o].fresh \/ Number[intf[o].anim] # handle[o].number \/ ~intf[o].in_step

Skip(o) ==
    /\ todo' = Tail(todo)
    /\ proper' = proper \ {o}
    /\ UNCHANGED <<cacheVars, draw_list, cur, satVars, changes, starved>>

Start(o, offset, previous) ==
    /\ cur' = [obj |-> o, offset |-> offset, previous |-> previous,
               sprite |-> 1, available |-> TRUE]
    /\ todo' = Tail(todo)
    /\ UNCHANGED <<cacheVars, draw_list, satVars, changes, proper>>

\* "anim over": the number is above the last animation of the type
RenderInvalid(o) ==
    /\ Rendering(o)
    /\ intf[o].anim \notin ValidAnim
    /\ Skip(o) /\ UNCHANGED animVars

\* Variant for the checks: the handle is not told the animation it is in.
RenderSet_KeepsNumber(o) ==
    /\ Rendering(o)
    /\ intf[o].anim \in ValidAnim
    /\ MustSet(o)
    /\ handle' = [handle EXCEPT ![o].offset = First[intf[o].anim]]
    /\ intf' = [intf EXCEPT ![o].in_step = TRUE]
    /\ Start(o, First[intf[o].anim], IF intf[o].fresh THEN 0 ELSE handle[o].offset)
    /\ starved' = IF intf[o].fresh THEN starved \ {o} ELSE starved

\* set the animation asked for
RenderSet(o) ==
    /\ Rendering(o)
    /\ intf[o].anim \in ValidAnim
    /\ MustSet(o)
    /\ handle' = [handle EXCEPT ![o] =
                    [offset |-> First[intf[o].anim], number |-> Number[intf[o].anim]]]
    /\ intf' = [intf EXCEPT ![o].in_step = TRUE]
    /\ Start(o, First[intf[o].anim], IF intf[o].fresh THEN 0 ELSE handle[o].offset)
    /\ starved' = IF intf[o].fresh THEN starved \ {o} ELSE starved

Advancing(o) == Rendering(o) /\ intf[o].anim \in ValidAnim /\ ~MustSet(o)

\* the animation had ended for good, nothing is drawn
RenderEnded(o) ==
    /\ Advancing(o)
    /\ handle[o].offset = 0
    /\ Skip(o) /\ UNCHANGED animVars

AtLast(o) == handle[o].offset \in Offset \ More

\* Variant for the checks: the queued animation stays queued.
RenderSwitch_KeepsQueue(o) ==
    /\ Advancing(o)
    /\ AtLast(o)
    /\ intf[o].next # NoAnim
    /\ intf' = [intf EXCEPT ![o].anim = intf[o].next]
    /\ UNCHANGED <<cacheVars, handle, draw_list, todo, cur, satVars, changes, proper, starved>>

\* the last picture was shown and an animation is queued: it becomes the
\* current one and the object is rendered again from the start
RenderSwitch(o) ==
    /\ Advancing(o)
    /\ AtLast(o)
    /\ intf[o].next # NoAnim
    /\ intf' = [intf EXCEPT ![o].anim = intf[o].next, ![o].next = NoAnim]
    /\ UNCHANGED <<cacheVars, handle, draw_list, todo, cur, satVars, changes, proper, starved>>

\* the picture after `offset` in its animation, 0 when there is none
NextPicture(offset) == IF offset \in More THEN Following[offset] ELSE LoopTo[offset]

\* the next picture, if the animation has one
RenderAdvance(o) ==
    LET next == NextPicture(handle[o].offset) IN
    /\ Advancing(o)
    /\ handle[o].offset # 0
    /\ AtLast(o) => intf[o].next = NoAnim
    /\ handle' = [handle EXCEPT ![o].offset = next]
    /\ UNCHANGED <<intf, starved>>
    /\ IF next = 0 THEN Skip(o) ELSE Start(o, next, handle[o].offset)
-----------------------------------------------------------------------------
(***************************************************************************)
(* The blocks of the picture, one after the other; all are asked for, also *)
(* when one could not be had.                                              *)
(***************************************************************************)
Loading == cur # Idle /\ cur.sprite <= Len(Sprites[cur.offset])
WantedBlock == Sprites[cur.offset][cur.sprite]
NextSprite(available) ==
    /\ cur' = [cur EXCEPT !.sprite = @ + 1, !.available = available]
    /\ UNCHANGED <<animVars, draw_list, todo, satVars, changes, proper, starved>>

\* Variant for the checks: a picture is drawn as soon as one block is there.
LoadSprite_AnyBlock ==
    /\ Loading
    /\ \/ WantedBlock = NoBlock /\ NextSprite(cur.available) /\ UNCHANGED cacheVars
       \/ \E b \in {WantedBlock} \ {NoBlock} :
            \/ LoadHit(b) /\ NextSprite(cur.available)
            \/ LoadMiss(b) /\ NextSprite(cur.available)
            \/ LoadRefused(b) /\ NextSprite(cur.sprite > 1)

LoadSprite ==
    /\ Loading
    /\ \/ WantedBlock = NoBlock /\ NextSprite(cur.available) /\ UNCHANGED cacheVars
       \/ \E b \in {WantedBlock} \ {NoBlock} :
            \/ LoadHit(b) /\ NextSprite(cur.available)
            \/ LoadMiss(b) /\ NextSprite(cur.available)
            \/ LoadRefused(b) /\ NextSprite(FALSE)

Loaded == cur # Idle /\ cur.sprite > Len(Sprites[cur.offset])

(***************************************************************************)
(* The sprites of a picture that are not clipped are appended to the       *)
(* table; `link` names the next entry, as the video chip follows them.     *)
(***************************************************************************)
SlotFound(b) ==
    IF IsCached(b) THEN CHOOSE s \in SlotsOf(b) : \A t \in SlotsOf(b) : s <= t ELSE NoSlot

Drawable(offset) == {i \in DOMAIN Sprites[offset] : Sprites[offset][i] # NoBlock}

\* the sprites that are not clipped, in the order of the picture
Visible(offset) ==
    {v \in UNION {[1 .. n -> Drawable(offset)] : n \in 0 .. Len(Sprites[offset])} :
        \A i, j \in DOMAIN v : i < j => v[i] < v[j]}

Entries(offset, visible, kind) ==
    [n \in DOMAIN visible |->
        LET block == Sprites[offset][visible[n]] IN
        [block |-> block, slot |-> SlotFound(block), kind |-> kind, link |-> Len(sat) + n]]

Emit(offset, kind) ==
    /\ \E visible \in Visible(offset) :
            sat' = sat \o Entries(offset, visible, kind)
    /\ cur' = Idle
    /\ UNCHANGED <<cacheVars, draw_list, todo, screen, game, changes>>

\* every block was there or is on its way
EmitPicture ==
    /\ Loaded
    /\ cur.available
    /\ Emit(cur.offset, "new")
    /\ intf' = [intf EXCEPT ![cur.obj].fresh = FALSE]
    /\ proper' = proper \cup {cur.obj}
    /\ UNCHANGED <<handle, starved>>

\* a block is missing: the previous picture is shown again
EmitPrevious ==
    /\ Loaded
    /\ ~cur.available
    /\ cur.previous # 0
    /\ handle' = [handle EXCEPT ![cur.obj].offset = cur.previous]
    /\ intf' = [intf EXCEPT ![cur.obj].in_step = TRUE, ![cur.obj].fresh = FALSE]
    /\ Emit(cur.previous, IF cur.obj \in proper THEN "fallback" ELSE "late")
    /\ proper' = proper \ {cur.obj}
    /\ starved' = starved \cup {cur.obj}

\* a block is missing and there is no previous picture: nothing is drawn
GiveUp ==
    /\ Loaded
    /\ ~cur.available
    /\ cur.previous = 0
    /\ cur' = Idle
    /\ proper' = proper \ {cur.obj}
    /\ starved' = IF intf[cur.obj].fresh THEN starved ELSE starved \cup {cur.obj}
    /\ UNCHANGED <<cacheVars, animVars, draw_list, todo, satVars, changes>>

\* ppm_close_sprite_table
\* Variant for the checks: the last entry keeps its link.
Closed_KeepsLink(table) ==
    IF table = << >>
    THEN << [block |-> NoBlock, slot |-> NoSlot, kind |-> "dummy", link |-> 0] >>
    ELSE table

Closed(table) ==
    IF table = << >>
    THEN << [block |-> NoBlock, slot |-> NoSlot, kind |-> "dummy", link |-> 0] >>
    ELSE [table EXCEPT ![Len(table)].link = 0]

\* the end of ppm_obj_frame_end
EndFrame ==
    /\ cur = Idle /\ todo = << >>
    /\ FrameEndFinish
    /\ sat' = Closed(sat)
    /\ proper' = {o \in proper : \E i \in DOMAIN draw_list : draw_list[i] = o}
    /\ UNCHANGED <<animVars, draw_list, todo, cur, screen, game, changes, starved>>
-----------------------------------------------------------------------------
(***************************************************************************)
(* The game runs the queue; its last command copies the sprite table.      *)
(***************************************************************************)
RunCommand ==
    /\ GameDma
    /\ UNCHANGED <<animVars, draw_list, todo, cur, satVars, changes, proper, starved>>

Show ==
    /\ game = "waits"
    /\ ~rendering
    /\ done = Len(dma_cmd)
    /\ screen' = sat
    /\ game' = "describes"
    /\ UNCHANGED <<cacheVars, animVars, draw_list, todo, cur, sat, changes, proper, starved>>

\* the game ends at the bound on the frames
LastFrame == game = "describes" /\ frame = MaxFrame /\ UNCHANGED vars

Game ==
    \/ \E o \in Obj, a \in Anim :
        AssignObject(o, a) \/ SwitchAnimation(o, a) \/ QueueAnimation(o, a)
    \/ \E o \in Obj : TouchCounter(o) \/ CmdObjAdd(o)
    \/ \E n \in Budgets : CmdBudget(n)
    \/ CmdObjReset
    \/ CmdFrameStart
    \/ \E t \in DmaTotals : CmdFrameEnd(t)
    \/ RunCommand
    \/ Show
    \/ LastFrame

Firmware ==
    \/ \E o \in Obj :
        RenderInvalid(o) \/ RenderSet(o) \/ RenderEnded(o) \/ RenderSwitch(o) \/ RenderAdvance(o)
    \/ LoadSprite
    \/ EmitPicture \/ EmitPrevious \/ GiveUp
    \/ EndFrame

FrameNext == Game \/ Firmware

FrameSpec == FrameInit /\ [][FrameNext]_vars
FairFrameSpec == FrameSpec /\ WF_vars(Firmware)
-----------------------------------------------------------------------------
Entry == [block : Block \cup {NoBlock}, slot : Slot \cup {NoSlot},
          kind : {"game", "new", "fallback", "late", "dummy"}, link : Nat]

ObjectsOK ==
    /\ intf \in [Obj -> [anim : Anim, next : Anim \cup {NoAnim},
                         fresh : BOOLEAN, in_step : BOOLEAN]]
    /\ handle \in [Obj -> [offset : Offset \cup {0}, number : Nat]]
    /\ cur \in {Idle} \cup [obj : Obj, offset : Offset, previous : Offset \cup {0},
                            sprite : Nat \ {0}, available : BOOLEAN]

FrameTypeOK ==
    /\ TypeOK
    /\ ObjectsOK
    /\ draw_list \in Seq(Obj) /\ todo \in Seq(Obj) /\ Len(draw_list) <= MaxDraw
    /\ sat \in Seq(Entry) /\ screen \in Seq(Entry) /\ game \in {"describes", "lists", "waits"}
    /\ changes \in 0 .. MaxChanges
    /\ proper \subseteq Obj /\ starved \subseteq Obj

HasItsBlock(e, holder) == e.slot # NoSlot /\ holder[e.slot] = e.block

\* While the table is built, the slot a sprite was written with goes on to
\* hold its block, whatever the objects rendered after it load; so does the
\* slot of a sprite of the previous picture, if that picture was drawn from
\* loaded blocks in the frame before.
SpritesKeepBlocks ==
    rendering => \A i \in DOMAIN sat :
        sat[i].kind \in {"new", "fallback"} => HasItsBlock(sat[i], block_num)

\* When the table is shown, the video memory holds the block of each such
\* sprite where the sprite says, although table and blocks came by separate
\* commands of the queue.
ScreenHasBlocks ==
    game # "waits" => \A i \in DOMAIN screen :
        screen[i].kind \in {"new", "fallback"} => HasItsBlock(screen[i], vram)

\* The finished table is a chain over all its entries from the first, which
\* is there even when nothing is drawn, to the last.
TableIsChain ==
    ~rendering /\ frame > 0 =>
        /\ sat # << >>
        /\ \A i \in DOMAIN sat : sat[i].link = IF i = Len(sat) THEN 0 ELSE i

\* Objects and the table are well formed at every step.
FrameInv == FrameTypeOK /\ TableIsChain

\* An object that was never refused a picture shows its own animation.
InAnimation(o) ==
    handle[o].offset # 0 => handle[o].number = Number[AnimOf[handle[o].offset]]
AnimationUnlessStarved == \A o \in Obj \ starved : InAnimation(o)

\* Building a frame always comes to an end, also when an object queues the
\* animation it is already in.
FrameTerminates == rendering ~> ~rendering
-----------------------------------------------------------------------------
(***************************************************************************)
(* The inductive invariant behind the properties above, by parts.          *)
(***************************************************************************)
\* a slot of this frame or of the last one holds the block
Held(b) == \E s \in Usable : block_num[s] = b /\ last_use[s] >= frame
\* a slot of this frame holds the block
InUse(b) == \E s \in Usable : block_num[s] = b /\ s \in usage

Phases ==
    /\ rendering => game = "waits"
    /\ ~rendering => cur = Idle /\ todo = << >>
    /\ game # "waits" => done = Len(dma_cmd)

\* the handle already names the picture being loaded, and the blocks asked
\* for so far are in use if none was refused
Progress ==
    cur # Idle =>
        /\ handle[cur.obj].offset = cur.offset
        /\ cur.available => \A i \in Drawable(cur.offset) :
                i < cur.sprite => InUse(Sprites[cur.offset][i])

\* the picture an object was last shown with
Shown(o) == IF cur # Idle /\ cur.obj = o THEN cur.previous ELSE handle[o].offset

\* an object drawn from loaded blocks can be drawn the same way again
ProperHeld ==
    \A o \in proper : Shown(o) # 0 =>
        \A i \in Drawable(Shown(o)) : Held(Sprites[Shown(o)][i])

Listed(o, list) == \E i \in DOMAIN list : list[i] = o

\* the objects of this frame that are done with are drawn from blocks in use
DrawnInUse ==
    rendering => \A o \in proper :
        Listed(o, draw_list) /\ ~Listed(o, todo) /\ (cur # Idle => cur.obj # o)
            /\ handle[o].offset # 0
            => \A i \in Drawable(handle[o].offset) : InUse(Sprites[handle[o].offset][i])

\* from the first sprite to the showing of the table, the cache says of each
\* sprite what the table does
TableHeld ==
    game = "waits" => \A i \in DOMAIN sat :
        sat[i].kind \in {"new", "fallback"} =>
            /\ sat[i].block # NoBlock
            /\ HasItsBlock(sat[i], block_num)
            /\ rendering => sat[i].slot \in Usable /\ last_use[sat[i].slot] >= frame

\* the links are right before the table is closed
OpenChain == rendering => \A i \in DOMAIN sat : sat[i].link = i

TInv ==
    /\ FrameInv /\ OpenChain /\ Phases
    /\ Progress /\ ProperHeld /\ DrawnInUse /\ TableHeld /\ ScreenHasBlocks
=============================================================================
