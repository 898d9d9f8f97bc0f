------------------------------- MODULE Eeprom -------------------------------
(***************************************************************************)
(* The saved games: the commands DF and E0 copy one of four areas between  *)
(* the shared memory and the battery-backed one (cmd_DF_eep_rd and         *)
(* cmd_E0_eep_wr of mcu/paprium.c).  A copy goes on piece by piece, and    *)
(* the power may go at any moment; the game waits for a command to end, as *)
(* CmdMailbox has it.  What is saved is known by its version.  The error   *)
(* bits that E0 clears are left out: nothing sets them.                    *)
(***************************************************************************)
EXTENDS Naturals, Sequences

CONSTANTS
    Unit,       \* bytes of a piece; 256 and 512 are multiples of it
    Versions,   \* what may be saved
    Args        \* arguments the game gives a command

EepromAssumption ==
    /\ Unit \in Nat \ {0} /\ 256 % Unit = 0
    /\ Versions # {} /\ Args \subseteq 0 .. 255

VARIABLES
    bram,       \* the battery-backed memory, piece by piece
    ram_dp,     \* the game's buffer in the shared memory
    pc, arg,    \* the command being carried out, and its argument
    count,      \* pieces copied
     saved,      \* history: what each area was last saved with, in whole,
    torn        \* history: or is being saved with, since a save that the power cut short

vars == <<bram, ram_dp, pc, arg, count, saved, torn>>

Areas == 1 .. 4
Nothing == "nothing"        \* what no save left
Contents == Versions \cup {Nothing}
Capacity == 8192 \div Unit

\* Variant for the checks: the areas begin two places lower.
Offset_NoBase(a) == (IF a = 4 THEN 0 ELSE (a - 1) * 512) \div Unit

\* where an area begins and its size
Offset(a) == (IF a = 4 THEN 0 ELSE 512 + a * 512) \div Unit
Size(a) == (IF a = 4 THEN 512 ELSE IF a \in 1 .. 3 THEN 256 ELSE 0) \div Unit

Init ==
    /\ bram = [p \in 0 .. Capacity - 1 |-> Nothing]
    /\ ram_dp = [p \in 0 .. Size(4) - 1 |-> Nothing]
    /\ pc = "idle" /\ arg = 0 /\ count = 0
    /\ saved = [a \in Areas |-> Nothing] /\ torn = [a \in Areas |-> {}]
-----------------------------------------------------------------------------
(***************************************************************************)
(* The game, outside the repository, between two commands.                 *)
(***************************************************************************)
Command(step) == pc = "idle" /\ pc' = step /\ arg' \in Args /\ count' = 0

Load == Command("DF") /\ UNCHANGED <<bram, ram_dp, saved, torn>>

\* with something to be saved in its buffer
Save ==
    /\ Command("E0")
    /\ \E v \in Versions : ram_dp' = [p \in DOMAIN ram_dp |-> v]
    /\ UNCHANGED <<bram, saved, torn>>
-----------------------------------------------------------------------------
Done == count = Size(arg)

\* an argument of no area copies nothing
DF_Copy ==
    /\ pc = "DF" /\ ~Done
    /\ ram_dp' = [ram_dp EXCEPT ![count] = bram[Offset(arg) + count]]
    /\ count' = count + 1
    /\ UNCHANGED <<bram, pc, arg, saved, torn>>

DF_End ==
    /\ pc = "DF" /\ Done
    /\ pc' = "loaded"
    /\ UNCHANGED <<bram, ram_dp, arg, count, saved, torn>>

E0_Copy ==
    /\ pc = "E0" /\ ~Done
    /\ bram' = [bram EXCEPT ![Offset(arg) + count] = ram_dp[count]]
    /\ count' = count + 1
    /\ torn' = IF arg \in Areas THEN [torn EXCEPT ![arg] = @ \cup {ram_dp[count]}] ELSE torn
    /\ UNCHANGED <<ram_dp, pc, arg, saved>>

E0_End ==
    /\ pc = "E0" /\ Done
    /\ pc' = "idle"
    /\ saved' = IF arg \in Areas THEN [saved EXCEPT ![arg] = ram_dp[0]] ELSE saved
    /\ torn' = IF arg \in Areas THEN [torn EXCEPT ![arg] = {}] ELSE torn
    /\ UNCHANGED <<bram, ram_dp, arg, count>>

\* the game goes on with what it loaded
Loaded ==
    /\ pc = "loaded"
    /\ pc' = "idle"
    /\ UNCHANGED <<bram, ram_dp, arg, count, saved, torn>>

\* the shared memory is lost, the other is not
PowerOff ==
    /\ pc' = "idle" /\ arg' = 0 /\ count' = 0
    /\ ram_dp' = [p \in DOMAIN ram_dp |-> Nothing]
    /\ UNCHANGED <<bram, saved, torn>>

Next ==
    Load \/ Save \/ DF_Copy \/ DF_End \/ E0_Copy \/ E0_End \/ Loaded \/ PowerOff

Spec == Init /\ [][Next]_vars
-----------------------------------------------------------------------------
TypeOK ==
    /\ bram \in [0 .. Capacity - 1 -> Contents]
    /\ pc \in {"idle", "DF", "loaded", "E0"} /\ arg \in Args \cup {0} /\ count \in 0 .. Size(arg)

Content(a) == {bram[Offset(a) + k] : k \in 0 .. Size(a) - 1}

\* An area holds what it was last saved with, whatever is saved to the others,
\* loaded, cut off or asked for with an argument of no area; after a save that
\* the power cut off it holds pieces of this save and the last one, and of no
\* other area.
KeepsSaved == \A a \in Areas : Content(a) \subseteq {saved[a]} \cup torn[a]

\* What the game loads is the area in whole.
LoadsSaved ==
    pc = "loaded" /\ arg \in Areas =>
        \A k \in 0 .. Size(arg) - 1 : ram_dp[k] \in {saved[arg]} \cup torn[arg]
=============================================================================
