----------------------------- MODULE MCRegisters -----------------------------
(***************************************************************************)
(* The two registers that the firmware and something else write at the     *)
(* same time: the command register of the drive (MdpCommand) and the       *)
(* control register of the mapper (ResetCtrl).  They share no state, so    *)
(* that TLC goes through them one after the other: in a behaviour the one  *)
(* that "which" names is at work.                                          *)
(***************************************************************************)
EXTENDS MdpCommand

CONSTANTS LoopGap, MaxGap, MaxRise, LongPress, MaxPresses, NoTmp

VARIABLES
    which,
    ctrl, srst_st, line_low, rise, button, op, tmp, gap, presses, held, asked, long

Control == INSTANCE ResetCtrl WITH low <- line_low

ASSUME RegistersAssumption == Control!ResetAssumption

controlVars ==
    <<ctrl, srst_st, line_low, rise, button, op, tmp, gap, presses, held, asked, long>>
allVars == <<which, vars, controlVars>>

\* how one is found at the start is no choice for the other
RegistersInit ==
    /\ which \in {"command", "control"}
    /\ Init /\ Control!Init
    /\ which # "control" => ~line_low /\ ~srst_st

CommandStep == which = "command" /\ Next /\ UNCHANGED <<which, controlVars>>
ControlClock == which = "control" /\ Control!Next /\ UNCHANGED <<which, vars>>

RegistersNext == CommandStep \/ ControlClock

\* the fairness of each, while it is at work
RegistersSpec ==
    /\ RegistersInit /\ [][RegistersNext]_allVars
    /\ WF_vars(which = "command" /\ StartUp) /\ WF_vars(which = "command" /\ Tick)
    /\ WF_controlVars(which = "control" /\ Control!Next)
    /\ WF_controlVars(which = "control" /\ Control!Load)
    /\ WF_controlVars(which = "control" /\ Control!Store)
    /\ WF_controlVars(which = "control" /\ Control!CheckReset)
    /\ WF_controlVars(which = "control" /\ Control!CheckRunning)
-----------------------------------------------------------------------------
\* A drive that never answers does not keep the game from starting.
StartsWithoutDrive == which = "command" => StartUpEnds

\* The latch of the reset line means what it should, at every step: the loop
\* neither leaves without a press nor overlooks a long one.
LatchMeansPress == Control!Inv

\* The button does what it is there for, at any time it is pressed, and the
\* game is started if it is not kept down.
ButtonObeyed == Control!LongPressLeaves /\ (which = "control" => Control!GameStarts)
=============================================================================
