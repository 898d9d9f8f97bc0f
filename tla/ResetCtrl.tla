----------------------------- MODULE ResetCtrl ------------------------------
(***************************************************************************)
(* The control register of the mapper (fpga/fpgio.sv) and the firmware's   *)
(* use of it (mcu/paprium.c, mcu/main.c), clock by clock.  The register    *)
(* holds the game in reset, leaves for the menu, opens the SDRAM to the    *)
(* game, and latches that the reset line was low.  The firmware has no     *)
(* access to a single bit: each assignment to a bit field is a load of the *)
(* register and, some clocks later, a store of all of it, while the latch  *)
(* may be set on any clock in between.                                     *)
(*                                                                         *)
(* Every step is one clock; what the processor does in it is one of the    *)
(* actions.  The reset line is pulled low by the register and by the       *)
(* user's button, and takes some clocks to rise.                           *)
(***************************************************************************)
EXTENDS Naturals

CONSTANTS
    LoopGap,    \* clocks between two accesses of the processor, at least
    MaxGap,     \* clocks an assignment to a bit field takes, at most
    MaxRise,    \* clocks the line takes to rise, at most
    LongPress,  \* clocks the button is down for a press to be a long one
    MaxPresses, \* bound on the presses of the button
    NoTmp       \* no assignment is under way

Bits == [md_rst : BOOLEAN, exit_to_menu : BOOLEAN, sdram_en : BOOLEAN, md_rst_status : BOOLEAN]

ResetAssumption ==
    /\ LoopGap \in Nat /\ MaxGap \in Nat /\ LoopGap >= 2 /\ MaxGap >= LoopGap
    /\ MaxRise \in Nat /\ MaxPresses \in Nat
    /\ LongPress \in Nat /\ LongPress >= MaxGap + 3
    /\ NoTmp \notin Bits

VARIABLES
    ctrl,       \* md_rst, exit_to_menu, sdram_en, md_rst_status
    srst_st,    \* md_srst_st: the line was low one clock ago
    low,        \* the reset line is low
    rise,       \* clocks since nothing pulls the line any more
    button,     \* the user's reset button is down
    op,         \* what the firmware is at
    tmp,        \* the register as loaded for an assignment under way
    gap,        \* clocks since the last access, or since that load
    presses,    \* presses so far
    held,       \* history: clocks the button has been down for
    asked,      \* history: the button was down since the latch was last cleared
    long        \* history: there was a long press since then

vars == <<ctrl, srst_st, low, rise, button, op, tmp, gap, presses, held, asked,
          long>>

\* ppm_reset assigns md_rst, sdram_en and, when all is set up, md_rst again;
\* then ppm_md_rst checks and clears the latch; then the polling loop checks
\* it, with the assignments of the commands 81 and 84 in between; then main
\* assigns exit_to_menu.
Assignments == {"hold", "enable", "release", "clear", "cmd_81", "cmd_84", "leave"}

Init ==
    /\ ctrl = [md_rst |-> FALSE, exit_to_menu |-> FALSE, sdram_en |-> FALSE, md_rst_status |-> FALSE]
    /\ low \in BOOLEAN
    /\ srst_st \in BOOLEAN
    /\ rise = 0
    /\ button = FALSE
    /\ op = "hold"
    /\ tmp = NoTmp
    /\ gap = LoopGap
    /\ presses = 0
    /\ held = 0
    /\ asked = FALSE
    /\ long = FALSE

Min2(i, j) == IF i < j THEN i ELSE j

(***************************************************************************)
(* The register and the line in one clock, without a store and with one.   *)
(***************************************************************************)
\* the line and the button, outside the repository
Line ==
    LET pulled == ctrl'.md_rst \/ button' IN
    /\ button' \in BOOLEAN
    /\ presses' = IF button' /\ ~button THEN presses + 1 ELSE presses
    /\ presses' <= MaxPresses
    /\ held' = IF button' THEN Min2(held + 1, LongPress) ELSE 0
    /\ low' \in IF pulled THEN {TRUE} ELSE IF low /\ rise < MaxRise THEN BOOLEAN ELSE {FALSE}
    /\ rise' = IF pulled \/ ~low' THEN 0 ELSE rise + 1

Latched(reg) == [reg EXCEPT !.md_rst_status = TRUE]

NoStore ==
    /\ srst_st' = low
    /\ ctrl' = IF srst_st THEN Latched(ctrl) ELSE ctrl
    /\ Line
    /\ asked' = (asked \/ button')
    /\ long' = (long \/ held' = LongPress)

\* a store wins over the latch
StoreCtrl(value) ==
    /\ srst_st' = low
    /\ ctrl' = value
    /\ Line
    /\ asked' = (button' \/ (asked /\ op # "clear"))
    /\ long' = (held' = LongPress \/ (long /\ op # "clear"))

(***************************************************************************)
(* The processor in one clock.                                             *)
(***************************************************************************)
\* Variant for the checks: no instruction between two accesses.
MayAccess_AtOnce == tmp = NoTmp

\* the nop of ppm_md_rst, and what the processor takes for an instruction
MayAccess == tmp = NoTmp /\ gap >= LoopGap

Wait ==
    /\ tmp # NoTmp => gap < MaxGap
    /\ gap' = Min2(gap + 1, MaxGap)
    /\ UNCHANGED <<op, tmp>>
    /\ NoStore

\* an assignment loads the register ...
Load ==
    /\ op \in Assignments
    /\ MayAccess
    /\ tmp' = ctrl
    /\ gap' = 0
    /\ UNCHANGED op
    /\ NoStore

Assigned(reg) ==
    CASE op = "hold"    -> [reg EXCEPT !.md_rst = TRUE]
      [] op = "enable"  -> [reg EXCEPT !.sdram_en = TRUE]
      [] op = "release" -> [reg EXCEPT !.md_rst = FALSE]
      [] op = "clear"   -> [reg EXCEPT !.md_rst_status = FALSE]
      [] op = "cmd_81"  -> [reg EXCEPT !.sdram_en = TRUE]
      [] op = "cmd_84"  -> [reg EXCEPT !.sdram_en = FALSE]
      [] op = "leave"   -> [reg EXCEPT !.exit_to_menu = TRUE]

After ==
    CASE op = "hold" -> "enable" [] op = "enable" -> "release" [] op = "release" -> "check"
      [] op = "clear" -> "check" [] op \in {"cmd_81", "cmd_84"} -> "round" [] op = "leave" -> "menu"

\* ... and stores it, changed in one bit
Store ==
    /\ tmp # NoTmp
    /\ StoreCtrl(Assigned(tmp))
    /\ op' = After
    /\ tmp' = NoTmp
    /\ gap' = 0

\* Variant for the checks: the loop waits for the latch without clearing it.
CheckReset_OnlyWaits ==
    /\ op = "check"
    /\ MayAccess
    /\ op' = IF ctrl.md_rst_status THEN "check" ELSE "run"
    /\ gap' = 0
    /\ UNCHANGED tmp
    /\ NoStore

\* the loop of ppm_md_rst
CheckReset ==
    /\ op = "check"
    /\ MayAccess
    /\ op' = IF ctrl.md_rst_status THEN "clear" ELSE "run"
    /\ gap' = 0
    /\ UNCHANGED tmp
    /\ NoStore

\* the end of each round of the loop of ppm_start, with or without a command
CheckRunning ==
    /\ op \in {"run", "round"}
    /\ MayAccess
    /\ op' = IF ctrl.md_rst_status THEN "leave" ELSE "run"
    /\ gap' = 0
    /\ UNCHANGED tmp
    /\ NoStore

\* commands 81 and 84
Command ==
    /\ op = "run"
    /\ op' \in {"cmd_81", "cmd_84"}
    /\ gap' = Min2(gap + 1, MaxGap)
    /\ UNCHANGED tmp
    /\ NoStore

Next == Wait \/ Load \/ Store \/ CheckReset \/ CheckRunning \/ Command

(***************************************************************************)
(* The clock runs, and the processor goes on: no access waits for ever.    *)
(***************************************************************************)
Spec ==
    /\ Init /\ [][Next]_vars /\ WF_vars(Next)
    /\ WF_vars(Load) /\ WF_vars(Store) /\ WF_vars(CheckReset) /\ WF_vars(CheckRunning)
-----------------------------------------------------------------------------
TypeOK ==
    /\ ctrl \in Bits
    /\ tmp \in Bits \cup {NoTmp}
    /\ op \in Assignments \cup {"check", "run", "round", "menu"}
    /\ tmp # NoTmp => op \in Assignments
    /\ {srst_st, low, button, asked, long} \subseteq BOOLEAN
    /\ rise \in 0 .. MaxRise
    /\ gap \in 0 .. MaxGap
    /\ presses \in 0 .. MaxPresses
    /\ held \in 0 .. LongPress

Started == op \in {"run", "cmd_81", "cmd_84", "round"}
Leaving == op \in {"leave", "menu"}

\* However long the line takes to rise, the game is only left for the menu
\* when the user pressed the button: never for the reset at the start.
NoSpuriousExit == Leaving => asked

\* An assignment to another bit may lose the latch of a short press, but the
\* latch of a long one is there whenever the polling loop looks.
LongPressSeen ==
    op \in {"run", "round"} /\ gap >= LoopGap /\ long => ctrl.md_rst_status

\* The latch means what it should, at every step: the loop neither leaves
\* without a press nor overlooks a long one.
Inv == TypeOK /\ NoSpuriousExit /\ LongPressSeen

(***************************************************************************)
(* What makes it inductive.                                                *)
(***************************************************************************)
\* once the game is released, the line is low only as long as it takes to
\* rise, unless the button is pressed
Released == op \notin {"hold", "enable", "release"}
LineRises ==
    Released =>
        /\ ~ctrl.md_rst /\ (tmp # NoTmp => ~tmp.md_rst)
        /\ ~asked => (low => srst_st)

\* the loop that waits for the line has seen it, and leaves a latch that only
\* the button can set
LoopSees == op = "check" /\ gap > 0 /\ ~asked => (srst_st => ctrl.md_rst_status)
LatchClear ==
    Started /\ ~asked =>
        /\ ~low /\ ~srst_st /\ ~ctrl.md_rst_status
        /\ tmp # NoTmp => ~tmp.md_rst_status

\* how far a press has come: to the line, its delay, the latch, and what an
\* assignment has loaded of it
PressArrives ==
    /\ held > 0 => button /\ low
    /\ held > 1 => srst_st
    /\ held > 2 => ctrl.md_rst_status \/ (gap = 0 /\ tmp = NoTmp)
    /\ tmp # NoTmp /\ held >= gap + 4 => tmp.md_rst_status

\* an assignment that still has the latch of before the press stores it while
\* the line is low, and the clock after it sets the latch again
LongLatched ==
    long =>
        \/ ctrl.md_rst_status /\ (tmp # NoTmp => tmp.md_rst_status)
        \/ tmp = NoTmp /\ gap = 0 /\ srst_st
        \/ tmp # NoTmp /\ gap = MaxGap /\ low

IInv ==
    /\ TypeOK /\ NoSpuriousExit /\ LineRises /\ LoopSees /\ LatchClear
    /\ PressArrives /\ LongLatched

\* A long press while the game runs ends in the menu.
LongPressLeaves == (Started /\ long) ~> ctrl.exit_to_menu

\* If the button is not kept down, the game is started.
GameStarts == <>[]~button => <>(op = "run")

\* The button does what it is there for, at any time it is pressed.
ButtonObeyed == LongPressLeaves /\ GameStarts
=============================================================================
