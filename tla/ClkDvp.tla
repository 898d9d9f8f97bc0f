------------------------------- MODULE ClkDvp -------------------------------
(***************************************************************************)
(* The fractional clock divider behind every rate of the sound (clk_dvp of *)
(* fpga/var.sv): each clock adds CLK_INC to the counter, each tick takes   *)
(* the ratio of the two rates, in units of CLK_INC, from it.               *)
(***************************************************************************)
EXTENDS Integers

CONSTANTS
    CLK_INC,    \* 2^17
    Ratios,     \* ck_base * CLK_INC \div ck_targ, one per rate
    Width       \* values of the counter, 2^32

ASSUME DividerAssumption ==
    /\ CLK_INC \in Nat \ {0} /\ Width \in Nat
    /\ Ratios \subseteq CLK_INC .. Width

VARIABLES
    ratio,
    clk_ctr,
    ck_out,
    clocks,     \* history: clocks and ticks since the reset, or since both
    ticks       \* were last in step: every ratio clocks

vars == <<ratio, clk_ctr, ck_out, clocks, ticks>>

Init ==
    /\ ratio \in Ratios
    /\ clk_ctr = 0 /\ ck_out = FALSE
    /\ clocks = 0 /\ ticks = 0

\* what is counted is clocks, and ticks with the one of this clock
Count(tick) ==
    LET more == IF tick THEN 1 ELSE 0
    IN  IF clocks + 1 = ratio THEN clocks' = 0 /\ ticks' = ticks + more - CLK_INC
        ELSE clocks' = clocks + 1 /\ ticks' = ticks + more

\* Variant for the checks: the counter starts again at a tick.
Tick_FromZero ==
    /\ clk_ctr >= ratio - CLK_INC
    /\ clk_ctr' = 0 /\ ck_out' = TRUE
    /\ Count(TRUE) /\ UNCHANGED ratio

Tick ==
    /\ clk_ctr >= ratio - CLK_INC
    /\ clk_ctr' = clk_ctr - (ratio - CLK_INC)
    /\ ck_out' = TRUE
    /\ Count(TRUE) /\ UNCHANGED ratio

NoTick ==
    /\ clk_ctr < ratio - CLK_INC
    /\ clk_ctr' = clk_ctr + CLK_INC
    /\ ck_out' = FALSE
    /\ Count(FALSE) /\ UNCHANGED ratio

Clock == Tick \/ NoTick

Spec == Init /\ [][Clock]_vars
-----------------------------------------------------------------------------
\* The counter never leaves its 32 bits, below zero or above.
TypeOK ==
    /\ ratio \in Ratios
    /\ clk_ctr \in 0 .. Width - 1
    /\ ck_out \in BOOLEAN
    /\ clocks \in 0 .. ratio - 1 /\ ticks \in Int

\* The divider does not drift: whenever one looks, the ticks given are those
\* that the clocks since the reset call for, rounded down.
NoDrift == ticks * ratio <= clocks * CLK_INC /\ clocks * CLK_INC < (ticks + 1) * ratio
=============================================================================
