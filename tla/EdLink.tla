------------------------------- MODULE EdLink -------------------------------
(***************************************************************************)
(* The firmware's talk with the microcontroller of the cartridge while it  *)
(* starts (mcu/everdrive.c as mdp_init_ of mcu/mdp.c uses it): it opens    *)
(* the registers of the drive and looks whether it is there, empties the   *)
(* queue, asks for the path of the disc image, mounts it, and asks how it  *)
(* went after each.  There is no framing in the answers and no limit to a  *)
(* wait: a byte too many or too few puts all that follows out of step.     *)
(***************************************************************************)
EXTENDS Naturals, Sequences

CONSTANTS
    MaxPath,    \* bound on the length of the path, below 1024
    Radix,      \* values of a byte, 256
    MaxRest,    \* bound on what is in the queue at the start
    Capacity    \* bytes a queue holds, 2047

ASSUME LinkAssumption ==
    /\ Radix \in Nat \ {0} /\ MaxPath \in Nat /\ MaxPath < Radix * Radix
    /\ Capacity \in Nat /\ Capacity >= MaxPath + 10 /\ MaxRest \in 0 .. Capacity

VARIABLES
    fifo_b,     \* the queue to the cartridge
    fifo_a,     \* and the one from it
    overlay,    \* the registers of the drive are open
    pc,         \* what the firmware is at
    todo,       \* the bytes it is going to write there
    left,       \* or the bytes it has yet to read there
    got,        \* what it has read there so far
    cue_path,   \* the path it was told
    resp,       \* what mdp_init_ returns of it
    path,       \* the path of the disc, for the cartridge
    asked       \* what the cartridge has read of a command

firmwareVars == <<overlay, pc, todo, left, got, cue_path, resp>>
vars == <<fifo_b, fifo_a, overlay, pc, todo, left, got, cue_path, resp, path, asked>>

\* A byte: what it stands for, and its value where it matters.
Byte(kind, value) == [kind |-> kind, value |-> value]
Zero == Byte("zero", 0)

\* ed_cmd_tx
Command(cmd) == <<Byte("plus", 0), Byte("not_plus", 0), Byte(cmd, 0), Byte("not_cmd", 0)>>

\* Variant for the checks: the low byte first, as the processor has it.
Word_LowFirst(n) == <<Byte("length", n % Radix), Byte("length", n \div Radix)>>

\* ed_tx16 and ed_rx16: the high byte first
Word(n) == <<Byte("length", n \div Radix), Byte("length", n % Radix)>>

WordOf(two) == Radix * two[1].value + two[2].value

Ok == 0
Error == 1
ERR_UNXP_STAT == 64
MDP_ERR_ID == 2
MDP_ERR_NOCD == 3

Init ==
    /\ fifo_b = << >>
    /\ \E n \in 0 .. MaxRest : fifo_a = [k \in 1 .. n |-> Byte("rest", 0)]
    /\ overlay = FALSE
    /\ pc = "unlock" /\ todo = << >> /\ left = 0 /\ got = << >>
    /\ cue_path = << >> /\ resp = Ok
    /\ \E n \in 0 .. MaxPath : path = [k \in 1 .. n |-> Byte("char", k)]
    /\ asked = << >>
-----------------------------------------------------------------------------
(***************************************************************************)
(* The firmware.                                                           *)
(***************************************************************************)
Send(step, bytes) == pc' = step /\ todo' = bytes /\ left' = 0 /\ got' = << >>
Receive(step, n) == pc' = step /\ todo' = << >> /\ left' = n /\ got' = << >>
Over(code) == resp' = code /\ pc' = "done" /\ UNCHANGED <<todo, left, got>>

\* MDP->overlay
Unlock ==
    /\ pc = "unlock"
    /\ overlay' = TRUE /\ pc' = "ident"
    /\ UNCHANGED <<fifo_a, fifo_b, todo, left, got, cue_path, resp, path, asked>>

\* MDP->id, which nothing answers for while the registers are closed
Ident ==
    /\ pc = "ident"
    /\ IF overlay THEN Send("flush", <<Zero, Zero>>) /\ UNCHANGED resp ELSE Over(MDP_ERR_ID)
    /\ UNCHANGED <<overlay, fifo_a, fifo_b, cue_path, path, asked>>

\* ed_fifo_wr
FifoWr ==
    /\ todo # << >>
    /\ fifo_b' = Append(fifo_b, Head(todo))
    /\ todo' = Tail(todo)
    /\ UNCHANGED <<overlay, fifo_a, pc, left, got, cue_path, resp, path, asked>>

\* Variant for the checks: the queue is not emptied.
FlushDrain_Nothing ==
    /\ pc = "flush" /\ todo = << >>
    /\ Send("path", Command("rom_path") \o <<Byte("cue", 1)>>)
    /\ UNCHANGED <<overlay, fifo_a, fifo_b, cue_path, resp, path, asked>>

\* ed_fifo_flush, and ed_cmd_rom_path after it
FlushDrain ==
    /\ pc = "flush" /\ todo = << >>
    /\ IF fifo_a # << >>
       THEN fifo_a' = Tail(fifo_a) /\ UNCHANGED <<pc, todo, left, got>>
       ELSE Send("path", Command("rom_path") \o <<Byte("cue", 1)>>) /\ UNCHANGED fifo_a
    /\ UNCHANGED <<overlay, fifo_b, cue_path, resp, path, asked>>

\* ed_fifo_rd: it waits for the byte
FifoRd ==
    /\ left > 0
    /\ fifo_a # << >>
    /\ got' = Append(got, Head(fifo_a))
    /\ fifo_a' = Tail(fifo_a)
    /\ left' = left - 1
    /\ UNCHANGED <<overlay, fifo_b, pc, todo, cue_path, resp, path, asked>>

Sent == todo = << >> /\ left = 0

\* ed_rx_string
RxLength ==
    /\ pc = "path" /\ Sent
    /\ Receive("length", 2)
    /\ UNCHANGED cue_path

RxString ==
    /\ pc = "length" /\ Sent
    /\ Receive("string", WordOf(got))
    /\ UNCHANGED cue_path

RxDone ==
    /\ pc = "string" /\ Sent
    /\ cue_path' = got
    /\ Send("path_status", Command("status2"))

\* ed_check_status, after the path and after the mount
CheckStatus ==
    /\ pc \in {"path_status", "mount_status"} /\ Sent
    /\ Receive(IF pc = "path_status" THEN "path_answer" ELSE "mount_answer", 4)
    /\ UNCHANGED cue_path

StatusOf(four) == IF four[1].kind # "key" THEN ERR_UNXP_STAT ELSE four[4].value

\* ed_cmd_cd_mount, unless there was an error or there is no disc
Mount ==
    /\ pc = "path_answer" /\ Sent /\ StatusOf(got) = Ok /\ cue_path # << >>
    /\ Send("mount", Command("cd_mount") \o Word(Len(cue_path)) \o cue_path)
    /\ UNCHANGED cue_path

MountSent ==
    /\ pc = "mount" /\ Sent
    /\ Send("mount_status", Command("status2"))
    /\ UNCHANGED cue_path

Finish ==
    /\ Sent
    /\ \/ pc = "path_answer" /\ StatusOf(got) # Ok /\ Over(StatusOf(got))
       \/ pc = "path_answer" /\ StatusOf(got) = Ok /\ cue_path = << >> /\ Over(MDP_ERR_NOCD)
       \/ pc = "mount_answer" /\ Over(StatusOf(got))
    /\ UNCHANGED <<overlay, fifo_a, fifo_b, cue_path, path, asked>>

\* a step between two transfers
Proceed ==
    /\ RxLength \/ RxString \/ RxDone \/ CheckStatus \/ Mount \/ MountSent
    /\ UNCHANGED <<overlay, fifo_a, fifo_b, resp, path, asked>>

Firmware == Unlock \/ Ident \/ FifoWr \/ FlushDrain \/ FifoRd \/ Proceed \/ Finish
-----------------------------------------------------------------------------
(***************************************************************************)
(* The cartridge, outside the repository: it skips what is no command and  *)
(* answers what is one.                                                    *)
(***************************************************************************)
\* how many bytes follow a command
Arguments(command) ==
    CASE command[3].kind = "rom_path" -> 1
      [] command[3].kind = "cd_mount" ->
             2 + (IF Len(command) >= 6 THEN WordOf(SubSeq(command, 5, 6)) ELSE 0)
      [] OTHER -> 0

Complete(command) == Len(command) >= 4 /\ Len(command) = 4 + Arguments(command)

Take ==
    /\ fifo_b # << >> /\ ~Complete(asked)
    /\ asked' = IF asked = << >> /\ Head(fifo_b).kind # "plus" THEN asked
                ELSE Append(asked, Head(fifo_b))
    /\ fifo_b' = Tail(fifo_b)
    /\ UNCHANGED <<fifo_a, path, firmwareVars>>

Answers(command) ==
    CASE command[3].kind = "rom_path" -> {<<Byte("length", Len(path) \div Radix),
                                            Byte("length", Len(path) % Radix)>> \o path}
      [] command[3].kind = "status2" -> {<<Byte("key", 0), Byte("protocol", 0),
                                           Byte("device", 0), Byte("status", s)>> : s \in {Ok, Error}}
      [] OTHER -> {<< >>}

Answer ==
    /\ Complete(asked)
    /\ \E bytes \in Answers(asked) : fifo_a' = fifo_a \o bytes
    /\ asked' = << >>
    /\ UNCHANGED <<fifo_b, path, firmwareVars>>

Cartridge == Take \/ Answer

\* the loop of ed_fifo_rd, without limit
Wait == left > 0 /\ fifo_a = << >> /\ UNCHANGED vars

Finished == pc = "done" /\ UNCHANGED vars

Next == Firmware \/ Cartridge \/ Wait \/ Finished

(***************************************************************************)
(* The firmware has nothing else to do, and the cartridge answers.         *)
(***************************************************************************)
Spec == Init /\ [][Next]_vars /\ WF_vars(Firmware) /\ WF_vars(Cartridge)
-----------------------------------------------------------------------------
Steps == {"unlock", "ident", "flush", "path", "length", "string", "path_status", "path_answer", "mount",
          "mount_status", "mount_answer", "done"}

TypeOK ==
    /\ pc \in Steps
    /\ left \in (0 .. MaxPath) \cup (0 .. 4)
    /\ resp \in {Ok, Error, ERR_UNXP_STAT, MDP_ERR_ID, MDP_ERR_NOCD} /\ overlay \in BOOLEAN
    /\ left > 0 => todo = << >>

\* Whatever was in the queue at the start, and however the two sides are
\* paced, the drive is found, each answer is read by the call it is meant for,
\* and the path is mounted as it was told.
InStep ==
    /\ resp \notin {ERR_UNXP_STAT, MDP_ERR_ID}
    /\ pc \in {"mount", "mount_status", "mount_answer"} => cue_path = path
    /\ pc = "done" => fifo_a = << >> /\ fifo_b = << >> /\ asked = << >>

\* The queues have no test for full: what is written before the other side
\* reads has to fit.
Fits == Len(fifo_a) <= Capacity /\ Len(fifo_b) <= Capacity

\* A cartridge that answers does not leave the game in reset.
LinkEnds == <>(pc = "done")
=============================================================================
