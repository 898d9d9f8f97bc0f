----------------------------- MODULE MdpCommand -----------------------------
(***************************************************************************)
(* The command register of the MD+ drive (mdp_md_regs and mdp_pi_regs of   *)
(* fpga/mdp/mdp.sv) between the firmware (mcu/mdp.c) and the drive.  The   *)
(* register has a buffer for one more command.  The firmware writes when   *)
(* the game asks for music and does not wait; the drive reads the command  *)
(* byte by byte and acknowledges it when it is done.  A write and an       *)
(* acknowledgement may meet in one clock.                                  *)
(***************************************************************************)
EXTENDS Naturals, Sequences

CONSTANTS
    Track,      \* tracks the game asks for
    Timeout,    \* MDP_TIMEOUT, in ticks of the timer
    MaxWrites   \* bound on the commands written

ASSUME MdpAssumption == Timeout \in Nat /\ MaxWrites \in Nat

VARIABLES
    cmd,        \* the command the drive reads, with the number of its write
    cmd_exec,   \* it is to be executed
    cmd_buff,   \* the command behind it
    cmd_ib,     \* there is one
    pc,         \* what the firmware is at
    mdp_on,     \* the drive has answered
    time,       \* ticks since mdp_cmd began to wait
    drive,      \* what the drive is at
    high, low,  \* the bytes of the command as the drive read them
    written,    \* history: commands written so far
    last,       \* history: the last of them
    collided,   \* history: it was written in the clock of an acknowledgement
    executed    \* history: the commands the drive executed

registers == <<cmd, cmd_exec, cmd_buff, cmd_ib>>
driveVars == <<drive, high, low, executed>>
firmwareVars == <<pc, mdp_on, time, written, last, collided>>
vars == <<cmd, cmd_exec, cmd_buff, cmd_ib, pc, mdp_on, time, drive, high, low, written,
          last, collided, executed>>

NoCommand == [op |-> "none", arg |-> 0, number |-> 0]

Init ==
    /\ cmd = NoCommand /\ cmd_exec = FALSE
    /\ cmd_buff = NoCommand /\ cmd_ib = FALSE
    /\ pc = "mount" /\ mdp_on = FALSE /\ time = 0
    /\ drive = "idle" /\ high = "none" /\ low = 0
    /\ written = 0 /\ last = NoCommand /\ collided = FALSE
    /\ executed = << >>
-----------------------------------------------------------------------------
(***************************************************************************)
(* The registers in one clock.                                             *)
(***************************************************************************)
\* Variant for the checks: a command that waits is not passed over.
Written_KeepsFirst(command) ==
    IF cmd_exec
    THEN /\ cmd_buff' = (IF cmd_ib THEN cmd_buff ELSE command)
         /\ cmd_ib' = TRUE /\ UNCHANGED <<cmd, cmd_exec>>
    ELSE cmd' = command /\ cmd_exec' = TRUE /\ UNCHANGED <<cmd_buff, cmd_ib>>

\* a write alone
Written(command) ==
    IF cmd_exec
    THEN cmd_buff' = command /\ cmd_ib' = TRUE /\ UNCHANGED <<cmd, cmd_exec>>
    ELSE cmd' = command /\ cmd_exec' = TRUE /\ UNCHANGED <<cmd_buff, cmd_ib>>

\* an acknowledgement, alone or with a write, which is then lost
Acknowledged ==
    /\ cmd_exec' = cmd_ib
    /\ cmd' = cmd_buff
    /\ cmd_ib' = FALSE
    /\ UNCHANGED cmd_buff

(***************************************************************************)
(* The firmware: mdp_init and, on commands of the game, mdp_play and       *)
(* mdp_stop.                                                               *)
(***************************************************************************)
\* mdp_init_ up to the mount of the disc, which may fail; EdLink has its bytes,
\* and with them the wait for a microcontroller that does not answer
Mount ==
    /\ pc = "mount"
    /\ pc' \in {"pause", "serve"}
    /\ UNCHANGED <<registers, mdp_on, time, driveVars, written, last, collided>>

Firmware_Pause == pc = "pause" /\ pc' = "wait" /\ time' = 0 /\ UNCHANGED mdp_on
Firmware_Volume == pc = "volume" /\ pc' = "serve" /\ mdp_on' = TRUE /\ UNCHANGED time
Firmware_Music == pc = "serve" /\ mdp_on /\ written < MaxWrites /\ UNCHANGED <<pc, mdp_on, time>>

\* what the firmware writes next, if it writes
Writes(op, arg) ==
    \/ op = "pause" /\ arg = 0 /\ (Firmware_Pause \/ Firmware_Music)
    \/ op = "vol" /\ arg = 255 /\ Firmware_Volume
    \/ op = "play" /\ arg \in Track /\ Firmware_Music

Numbered(op, arg) == [op |-> op, arg |-> arg, number |-> written + 1]

Counted(op, arg, met) ==
    /\ written' = written + 1
    /\ last' = Numbered(op, arg)
    /\ collided' = met

Write(op, arg) ==
    /\ Writes(op, arg)
    /\ Written(Numbered(op, arg))
    /\ Counted(op, arg, FALSE)
    /\ UNCHANGED driveVars

\* mdp_cmd waits for the acknowledgement
Waited ==
    /\ pc = "wait"
    /\ ~cmd_exec
    /\ pc' = "volume"
    /\ UNCHANGED <<registers, mdp_on, time, driveVars, written, last, collided>>

\* the time is read after the register
LookAtTime ==
    /\ pc = "wait"
    /\ cmd_exec
    /\ pc' = "time"
    /\ UNCHANGED <<registers, mdp_on, time, driveVars, written, last, collided>>

\* Variant for the checks: the wait has no end.
GiveUp_Never ==
    /\ pc = "time"
    /\ pc' = "wait"
    /\ UNCHANGED <<registers, mdp_on, time, driveVars, written, last, collided>>

\* Variant for the checks: what mdp_cmd returns is not looked at.
GiveUp_GoesOn ==
    /\ pc = "time"
    /\ pc' = IF time > Timeout THEN "volume" ELSE "wait"
    /\ UNCHANGED <<registers, mdp_on, time, driveVars, written, last, collided>>

GiveUp ==
    /\ pc = "time"
    /\ pc' = IF time > Timeout THEN "serve" ELSE "wait"
    /\ UNCHANGED <<registers, mdp_on, time, driveVars, written, last, collided>>

Tick ==
    /\ pc \in {"wait", "time"} /\ time <= Timeout
    /\ time' = time + 1
    /\ UNCHANGED <<registers, pc, mdp_on, driveVars, written, last, collided>>
-----------------------------------------------------------------------------
(***************************************************************************)
(* The drive, outside the repository, by the registers it is given.        *)
(***************************************************************************)
ReadStatus ==
    /\ drive = "idle" /\ cmd_exec
    /\ drive' = "high"
    /\ UNCHANGED <<registers, firmwareVars, high, low, executed>>

ReadHigh ==
    /\ drive = "high"
    /\ high' = cmd.op /\ drive' = "low"
    /\ UNCHANGED <<registers, firmwareVars, low, executed>>

ReadLow ==
    /\ drive = "low"
    /\ low' = cmd.arg /\ drive' = "execute"
    /\ UNCHANGED <<registers, firmwareVars, high, executed>>

Execute ==
    /\ drive = "execute"
    /\ Len(executed) < MaxWrites    \* bound
    /\ drive' = "ack"
    /\ executed' = Append(executed, [op |-> high, arg |-> low, number |-> cmd.number])
    /\ UNCHANGED <<registers, firmwareVars, high, low>>

Drive_Ack == drive = "ack" /\ drive' = "idle" /\ UNCHANGED <<high, low, executed>>

Ack ==
    /\ Drive_Ack
    /\ Acknowledged
    /\ UNCHANGED firmwareVars

\* both in one clock: there was a command, so the write is neither the next
\* one to execute nor buffered
AckWhileWriting(op, arg) ==
    /\ Drive_Ack
    /\ Writes(op, arg)
    /\ Acknowledged
    /\ Counted(op, arg, TRUE)
-----------------------------------------------------------------------------
Argument == Track \cup {0, 255}
Operation == {"pause", "vol", "play"}

Drive == ReadStatus \/ ReadHigh \/ ReadLow \/ Execute \/ Ack
StartUp == Mount \/ Waited \/ LookAtTime \/ GiveUp
              \/ (pc # "serve" /\ \E op \in Operation, arg \in Argument : Write(op, arg))
WriteAny == \E op \in Operation, arg \in Argument : Write(op, arg) \/ AckWhileWriting(op, arg)

\* the game asks for nothing
Quiet == pc = "serve" /\ UNCHANGED vars

Next == Mount \/ Waited \/ LookAtTime \/ GiveUp \/ Tick \/ WriteAny \/ Drive \/ Quiet

(***************************************************************************)
(* The firmware's start-up goes on and the timer runs.  Nothing is assumed *)
(* of the drive, nor that the game asks for music.                         *)
(***************************************************************************)
Spec == Init /\ [][Next]_vars /\ WF_vars(StartUp) /\ WF_vars(Tick)
-----------------------------------------------------------------------------
Command == [op : Operation \cup {"none"}, arg : Argument, number : Nat]

TypeOK ==
    /\ cmd \in Command /\ cmd_buff \in Command /\ last \in Command
    /\ cmd_exec \in BOOLEAN /\ cmd_ib \in BOOLEAN
    /\ mdp_on \in BOOLEAN /\ collided \in BOOLEAN
    /\ cmd_ib => cmd_exec
    /\ pc \in {"mount", "pause", "wait", "time", "volume", "serve"}
    /\ drive \in {"idle", "high", "low", "execute", "ack"}
    /\ high \in Operation \cup {"none"} /\ low \in Argument
    /\ time \in Nat /\ written \in Nat
    /\ executed \in Seq(Command)

\* The drive never puts the two bytes of different commands together: no
\* write of the firmware reaches the command it is reading or executing.
ReadsWhole ==
    drive = "execute" => cmd_exec /\ high = cmd.op /\ low = cmd.arg

\* Commands are executed in the order they were written, none twice.
InOrder ==
    \A j, k \in 1 .. Len(executed) : j < k => executed[j].number < executed[k].number

\* When the drive is done, what it did last is what the firmware asked for
\* last, although commands in between may have been passed over; unless the
\* last write met an acknowledgement and was lost.
LatestDone ==
    ~cmd_exec /\ ~collided /\ written > 0 => executed # << >> /\ executed[Len(executed)] = last

\* Music is only asked of a drive that has answered and was silenced first.
SilencedFirst ==
    mdp_on => executed # << >> /\ executed[1].op = "pause"

(***************************************************************************)
(* What makes them inductive.                                              *)
(***************************************************************************)
\* how far the drive has come with the command in the register
Reading ==
    /\ drive # "idle" => cmd_exec
    /\ drive \in {"low", "execute"} => high = cmd.op
    /\ drive = "execute" => low = cmd.arg
    /\ drive = "ack" => executed # << >> /\ executed[Len(executed)] = cmd

\* executed, under execution and waiting: the later, the later written
Order ==
    /\ \A k \in 1 .. Len(executed) : executed[k].number <= written
    /\ cmd_exec => cmd.number <= written
    /\ cmd_exec /\ drive # "ack" => \A k \in 1 .. Len(executed) : executed[k].number < cmd.number
    /\ cmd_ib => cmd_exec /\ cmd.number < cmd_buff.number /\ cmd_buff.number <= written

\* where the last command is
Latest ==
    ~collided /\ written > 0 =>
        \/ cmd_ib /\ cmd_buff = last
        \/ ~cmd_ib /\ cmd_exec /\ cmd = last
        \/ ~cmd_ib /\ ~cmd_exec /\ executed # << >> /\ executed[Len(executed)] = last

\* how far the start-up has come with the command that silences the drive
Silenced ==
    /\ pc \in {"mount", "pause"} => ~cmd_exec /\ executed = << >>
    /\ pc \in {"mount", "pause", "wait", "time"} => ~mdp_on
    /\ pc \in {"wait", "time"} =>
        IF executed = << >> THEN cmd_exec /\ cmd.op = "pause" ELSE executed[1].op = "pause"
    /\ pc = "volume" \/ mdp_on => executed # << >> /\ executed[1].op = "pause"

IInv == TypeOK /\ Reading /\ InOrder /\ Order /\ Latest /\ Silenced

\* A drive that never answers does not keep the game from starting.
StartUpEnds == <>(pc = "serve")

=============================================================================
