----------------------------- MODULE CmdMailbox -----------------------------
(***************************************************************************)
(* The command mailbox of the firmware (mcu/paprium.c): the word reg_cmd   *)
(* in the RAM shared by the game's 68000 and the mapper's CPU, the two     *)
(* busy flags beside it, the start-up sequence that prepares them and the  *)
(* polling loop that serves them.                                          *)
(*                                                                         *)
(* A word of reg_cmd is a pair <<opcode, argument>>.  The dispatcher reads *)
(* the opcode once, the handlers read the argument again from the shared   *)
(* RAM while they run, and the game writes at any time between any two     *)
(* accesses of the firmware.                                               *)
(***************************************************************************)
EXTENDS Naturals, Sequences

CONSTANTS
    Op,         \* opcodes, the high byte of reg_cmd
    Arg,        \* arguments, the low byte
    Op00,       \* opcode 0x00, the only one that answers
    Arg00,      \* argument 0x00
    ArgAA,      \* argument 0xaa
    ArgFF,      \* argument 0xff
    MaxCmds     \* bound on the commands the game issues in a behaviour

ASSUME MailboxAssumption ==
    /\ Op00 \in Op
    /\ {Arg00, ArgAA, ArgFF} \subseteq Arg
    /\ Arg00 # ArgAA /\ Arg00 # ArgFF /\ ArgAA # ArgFF
    /\ MaxCmds \in Nat

Word == Op \X Arg
Free == <<Op00, Arg00>>     \* reg_cmd = 0
Ping == <<Op00, ArgAA>>     \* 0x00aa
Pong == <<Op00, ArgFF>>     \* 0x00ff

VARIABLES
    reg_cmd,        \* the command word in the shared RAM
    status_1,       \* bit 0x0004 of reg_status_1
    busy,           \* reg_status_2.bits.busy
    md_rst,         \* the game's CPU is held in reset
    md_rst_status,  \* latch: the reset button was pressed
    pc,             \* where the firmware is
    cmd,            \* local of ppm_cmd_handler: the opcode it dispatched on
    cmd_resp,       \* the answer the handler leaves
    mdpc,           \* the game: "polling" reg_cmd, or "ready" having read 0
    writer,         \* history: who wrote reg_cmd last
    sent,           \* history: words the game wrote since the last start-up
    executed        \* history: <<opcode, argument>> each handler acted on

mcuVars  == <<status_1, busy, pc, cmd, cmd_resp>>
history  == <<writer, sent, executed>>
vars == <<reg_cmd, status_1, busy, md_rst, md_rst_status, pc, cmd, cmd_resp,
          mdpc, writer, sent, executed>>

Handling == {"status", "busy", "fetch", "dispatch", "unstatus", "unbusy", "reply"}
Polling  == {"poll", "tick", "rstcheck"}

(***************************************************************************)
(* Start-up, ppm_reset.  The game is already held in reset when the model  *)
(* starts: ppm_md_rst(1) is the first statement.                           *)
(***************************************************************************)
Init ==
    /\ reg_cmd \in Word
    /\ status_1 \in BOOLEAN
    /\ busy \in BOOLEAN
    /\ md_rst = TRUE
    /\ md_rst_status \in BOOLEAN
    /\ pc = "copy"
    /\ cmd \in Op
    /\ cmd_resp \in {Free, Pong}
    /\ mdpc = "polling"
    /\ writer = "rom"
    /\ sent = << >>
    /\ executed = << >>

\* memcpy of the first 8 KB of the ROM over the shared RAM, the registers too
CopyRom ==
    /\ pc = "copy"
    /\ reg_cmd' \in Word
    /\ status_1' \in BOOLEAN
    /\ busy' \in BOOLEAN
    /\ writer' = "rom"
    /\ pc' = "clear"
    /\ UNCHANGED <<md_rst, md_rst_status, cmd, cmd_resp, mdpc, sent, executed>>

ClearRegs ==
    /\ pc = "clear"
    /\ reg_cmd' = Free
    /\ status_1' = FALSE
    /\ busy' = FALSE
    /\ writer' = "mcu"
    /\ pc' = "release"
    /\ UNCHANGED <<md_rst, md_rst_status, cmd, cmd_resp, mdpc, sent, executed>>

\* ppm_md_rst(0): the line goes up and the latch is cleared until it stays so
ReleaseGame ==
    /\ pc = "release"
    /\ md_rst' = FALSE
    /\ md_rst_status' = FALSE
    /\ pc' = "poll"
    /\ UNCHANGED <<reg_cmd, status_1, busy, cmd, cmd_resp, mdpc, history>>

(***************************************************************************)
(* ppm_cmd_handler: one action per access to the shared RAM.               *)
(***************************************************************************)
\* Variant for the checks: an idle poll goes back to the poll at once.
PollIdle_Spins ==
    /\ pc = "poll"
    /\ reg_cmd = Free
    /\ UNCHANGED vars

PollIdle ==
    /\ pc = "poll"
    /\ reg_cmd = Free
    /\ pc' = "tick"
    /\ UNCHANGED <<reg_cmd, status_1, busy, md_rst, md_rst_status, cmd,
                   cmd_resp, mdpc, history>>

PollCommand ==
    /\ pc = "poll"
    /\ reg_cmd # Free
    /\ pc' = "status"
    /\ UNCHANGED <<reg_cmd, status_1, busy, md_rst, md_rst_status, cmd,
                   cmd_resp, mdpc, history>>

SetStatus1 ==
    /\ pc = "status"
    /\ status_1' = TRUE
    /\ pc' = "busy"
    /\ UNCHANGED <<reg_cmd, busy, md_rst, md_rst_status, cmd, cmd_resp, mdpc, history>>

SetBusy ==
    /\ pc = "busy"
    /\ busy' = TRUE
    /\ pc' = "fetch"
    /\ UNCHANGED <<reg_cmd, status_1, md_rst, md_rst_status, cmd, cmd_resp, mdpc, history>>

\* Variant for the checks: the command is acknowledged when it is fetched.
Fetch_Acknowledges ==
    /\ pc = "fetch"
    /\ cmd' = reg_cmd[1]
    /\ reg_cmd' = Free
    /\ cmd_resp' = Free
    /\ pc' = "dispatch"
    /\ UNCHANGED <<status_1, busy, md_rst, md_rst_status, mdpc, history>>

Fetch ==
    /\ pc = "fetch"
    /\ cmd' = reg_cmd[1]
    /\ cmd_resp' = Free
    /\ pc' = "dispatch"
    /\ UNCHANGED <<reg_cmd, status_1, busy, md_rst, md_rst_status, mdpc, history>>

\* cmd_00 answers 0x00ff to 0x00aa; no other handler sets cmd_resp
Response(op, arg) == IF op = Op00 /\ arg = ArgAA THEN Pong ELSE Free

\* cmp_ptr[cmd](): the handler reads its argument from reg_cmd again.  A word
\* the firmware itself left in reg_cmd is dispatched like any other, and is
\* not counted as a command of the game.
Dispatch ==
    /\ pc = "dispatch"
    /\ cmd_resp' = Response(cmd, reg_cmd[2])
    /\ executed' = IF writer = "mcu" THEN executed
                   ELSE Append(executed, <<cmd, reg_cmd[2]>>)
    /\ pc' = "unstatus"
    /\ UNCHANGED <<reg_cmd, status_1, busy, md_rst, md_rst_status, cmd, mdpc, writer, sent>>

ClearStatus1 ==
    /\ pc = "unstatus"
    /\ status_1' = FALSE
    /\ pc' = "unbusy"
    /\ UNCHANGED <<reg_cmd, busy, md_rst, md_rst_status, cmd, cmd_resp, mdpc, history>>

ClearBusy ==
    /\ pc = "unbusy"
    /\ busy' = FALSE
    /\ pc' = "reply"
    /\ UNCHANGED <<reg_cmd, status_1, md_rst, md_rst_status, cmd, cmd_resp, mdpc, history>>

\* Variant for the checks: the register is written only when there is an answer.
Reply_OnlyAnswers ==
    /\ pc = "reply"
    /\ reg_cmd' = IF cmd_resp = Free THEN reg_cmd ELSE cmd_resp
    /\ writer' = IF cmd_resp = Free THEN writer ELSE "mcu"
    /\ pc' = "tick"
    /\ UNCHANGED <<status_1, busy, md_rst, md_rst_status, cmd, cmd_resp, mdpc, sent, executed>>

Reply ==
    /\ pc = "reply"
    /\ reg_cmd' = cmd_resp
    /\ writer' = "mcu"
    /\ pc' = "tick"
    /\ UNCHANGED <<status_1, busy, md_rst, md_rst_status, cmd, cmd_resp, mdpc, sent, executed>>

\* sfx_player_update and tick_ctr++ touch nothing of the mailbox
Tick ==
    /\ pc = "tick"
    /\ pc' = "rstcheck"
    /\ UNCHANGED <<reg_cmd, status_1, busy, md_rst, md_rst_status, cmd,
                   cmd_resp, mdpc, history>>

RstCheck ==
    /\ pc = "rstcheck"
    /\ pc' = IF md_rst_status THEN "menu" ELSE "poll"
    /\ UNCHANGED <<reg_cmd, status_1, busy, md_rst, md_rst_status, cmd,
                   cmd_resp, mdpc, history>>

\* main: exit_to_menu is set and the firmware spins
Menu ==
    /\ pc = "menu"
    /\ UNCHANGED vars

MCU ==
    \/ CopyRom \/ ClearRegs \/ ReleaseGame
    \/ PollIdle \/ PollCommand \/ SetStatus1 \/ SetBusy \/ Fetch \/ Dispatch
    \/ ClearStatus1 \/ ClearBusy \/ Reply \/ Tick \/ RstCheck \/ Menu

(***************************************************************************)
(* The game, outside the repository: it writes reg_cmd only after it has   *)
(* read 0 from it, and starts over when the reset button is pressed.       *)
(***************************************************************************)
GameSeesFree ==
    /\ ~md_rst
    /\ mdpc = "polling"
    /\ reg_cmd = Free
    /\ mdpc' = "ready"
    /\ UNCHANGED <<reg_cmd, md_rst, md_rst_status, mcuVars, history>>

GameSends(w) ==
    /\ ~md_rst
    /\ mdpc = "ready"
    /\ w # Free
    /\ Len(sent) < MaxCmds
    /\ reg_cmd' = w
    /\ writer' = "game"
    /\ sent' = Append(sent, w)
    /\ mdpc' = "polling"
    /\ UNCHANGED <<md_rst, md_rst_status, mcuVars, executed>>

ResetButton ==
    /\ ~md_rst
    /\ md_rst_status' = TRUE
    /\ mdpc' = "polling"
    /\ UNCHANGED <<reg_cmd, md_rst, mcuVars, history>>

Game ==
    \/ GameSeesFree
    \/ \E w \in Word : GameSends(w)
    \/ ResetButton

Next == MCU \/ Game

(***************************************************************************)
(* The firmware is a loop that never blocks, so its next step is always    *)
(* taken; nothing is assumed of the game or of the button.                 *)
(***************************************************************************)
Spec == Init /\ [][Next]_vars
FairSpec == Spec /\ WF_vars(MCU)
-----------------------------------------------------------------------------
(***************************************************************************)
(* Properties                                                              *)
(***************************************************************************)
TypeOK ==
    /\ reg_cmd \in Word
    /\ status_1 \in BOOLEAN
    /\ busy \in BOOLEAN
    /\ md_rst \in BOOLEAN
    /\ md_rst_status \in BOOLEAN
    /\ pc \in {"copy", "clear", "release", "menu"} \cup Handling \cup Polling
    /\ cmd \in Op
    /\ cmd_resp \in {Free, Pong}
    /\ mdpc \in {"polling", "ready"}
    /\ writer \in {"rom", "mcu", "game"}
    /\ sent \in Seq(Word)
    /\ executed \in Seq(Word)

\* A game that reads reg_cmd = 0 knows that all it asked for has been done,
\* as it asked for it: every command was executed once, in order, and with
\* the argument it was issued with, although the two halves of the word are
\* read at different times (paprium.c:188 and the handlers).
FreeMeansDone == (~md_rst /\ reg_cmd = Free) => executed = sent

\* Between two writes of the game no word of it is executed twice, and
\* nothing else is ever executed: not what the copy of the ROM left in the
\* register, and not the answer 0x00ff when the loop dispatches it.
OnlySentOnce ==
    \/ executed = sent
    \/ reg_cmd # Free /\ writer = "game" /\ sent = Append(executed, reg_cmd)

\* The answer 0x00ff stays in reg_cmd and is dispatched by the next turn of
\* the loop as if it were a command: it is always the harmless cmd_00.
AnswerIsHarmless ==
    (writer = "mcu" /\ pc \in {"dispatch", "unstatus", "unbusy", "reply"})
        => cmd = Op00

\* The loop leaves for the menu only between two commands: the busy flags
\* are down and a command that is still in the register has not begun.
ExitBetweenCommands ==
    pc = "menu" => /\ ~busy /\ ~status_1
                   /\ reg_cmd # Free /\ writer = "game" => executed # sent

\* Every word put in the register is answered and the register is free again,
\* or the button ended the session.
EveryCommandServed == (~md_rst /\ reg_cmd # Free) ~> (reg_cmd = Free \/ md_rst_status)

\* A press of the button always ends the session in the menu, whatever the
\* game does.
ResetReachesMenu == (~md_rst /\ md_rst_status) ~> (pc = "menu")

\* Neither the game nor the one at the button waits for ever.
NobodyWaits == EveryCommandServed /\ ResetReachesMenu

\* The mailbox implements the one-word channel: seen by the game, accepting
\* the word and all the traffic on the flags are internal steps.
Channel == INSTANCE CommandChannel WITH
    Word <- Word, Free <- Free, Answer <- Pong, Ping <- Ping,
    register <- IF md_rst THEN Free ELSE reg_cmd,
    taken <- ~md_rst /\ reg_cmd # Free /\ writer = "mcu",
    sent <- sent, executed <- executed
ImplementsChannel == Channel!Spec
-----------------------------------------------------------------------------
(***************************************************************************)
(* The inductive invariant behind the safety properties, by parts.         *)
(***************************************************************************)
\* the phases of start-up: the game runs once the registers are clear
StartUp ==
    /\ md_rst <=> pc \in {"copy", "clear", "release"}
    /\ md_rst => sent = << >> /\ executed = << >> /\ mdpc = "polling"
    /\ writer = "rom" => pc \in {"copy", "clear"}
    /\ writer = "game" => ~md_rst

\* who may have left what in the register
RegisterOwner ==
    /\ writer = "game" => reg_cmd # Free
    /\ writer = "mcu" => reg_cmd \in {Free, Pong}
    /\ pc = "release" => reg_cmd = Free
    /\ mdpc = "ready" => reg_cmd = Free
    /\ pc \in Handling => reg_cmd # Free

\* the opcode fetched and the answer prepared stay those of the register
LocalCopies ==
    /\ pc \in {"dispatch", "unstatus", "unbusy", "reply"} => cmd = reg_cmd[1]
    /\ pc \in {"unstatus", "unbusy", "reply"}
        => cmd_resp = IF reg_cmd = Ping THEN Pong ELSE Free

\* the flags are up exactly while a handler runs
Flags ==
    /\ pc \in Polling \cup {"menu", "release", "status", "reply"} => ~busy /\ ~status_1
    /\ pc = "busy" => ~busy
    /\ pc = "unbusy" => ~status_1

\* a command of the game is outstanding until its handler has run
Outstanding ==
    IF writer = "game" /\ pc \notin {"unstatus", "unbusy", "reply"}
    THEN sent = Append(executed, reg_cmd)
    ELSE executed = sent

IInv == TypeOK /\ StartUp /\ RegisterOwner /\ LocalCopies /\ Flags /\ Outstanding
=============================================================================
