------------------------------- MODULE SpiPi -------------------------------
(***************************************************************************)
(* The cartridge's way into the FPGA (fpga/mdp/pi.sv): a serial line that  *)
(* carries a command, an address and bytes, and a clock of its own.  The   *)
(* slave turns a byte into an access, of which the rest of the FPGA sees   *)
(* the level of pi_act, sampled by the system clock.  A read fetches the   *)
(* next byte while it sends this one, so that it always fetches one too    *)
(* many; the block after the queue's is unused so that this one is not     *)
(* taken from the queue.                                                   *)
(***************************************************************************)
EXTENDS Naturals, Sequences

CONSTANTS
    MaxBytes,   \* bound on the bytes of a transfer
    Slow        \* clocks of the system between two bits, at most

SpiAssumption == MaxBytes \in Nat \ {0} /\ Slow \in Nat \ {0}

VARIABLES
    cmd, bit_ctr, byte_ctr, exec,       \* the slave: command, place and header done
    wr_ok, pi_act, aout, dout,          \* its access
    rd_buff, sout,                      \* the byte read and the one being sent
    sync_st, we_st, oe_st,              \* samples of the access, the later first
    slot, dato,                         \* what the queues are given and give
    since,                              \* clocks since the last bit
    op, m_byte, m_bit,                  \* the cartridge: its transfer and place in it
    got,                                \* the bits of this byte it received
    received, written, pushed,          \* history of this transfer: what it read, what
    taken, before                       \* was written, queued and taken from the queue

slaveVars == <<cmd, bit_ctr, byte_ctr, exec, wr_ok, pi_act, aout, dout, rd_buff, sout>>
queueVars == <<sync_st, we_st, oe_st, slot, dato, written, pushed, taken>>
masterVars == <<op, m_byte, m_bit, got, received, before>>
vars == <<slaveVars, queueVars, masterVars, since>>

Tags == 4 * MaxBytes        \* bound: bytes of the queue are told apart by their number
Nothing == <<"nothing", 0>>

(***************************************************************************)
(* The map: the queues' block, the one after it, and another.              *)
(***************************************************************************)
BlockSize == MaxBytes
ce_fifo(addr) == addr < BlockSize
Other == 2 * BlockSize

\* What the cartridge may do; a transfer with the queue ends with its block.
Transfers ==
    [cmd : {"write", "read"}, n : 1 .. MaxBytes, where : {"fifo", "other"}]
AddressOf(t) == IF t.where = "fifo" THEN BlockSize - t.n ELSE Other
Header == 5                         \* the command and four bytes of address
LengthOf(t) == Header + t.n + 1     \* and a byte for what is late by one
NoTransfer == [cmd |-> "none", n |-> 0, where |-> "other"]

Init ==
    /\ cmd = "none" /\ bit_ctr = 0 /\ byte_ctr = 0 /\ exec = FALSE
    /\ wr_ok = FALSE /\ pi_act = FALSE /\ aout = Other /\ dout = Nothing
    /\ rd_buff = Nothing /\ sout = <<Nothing, 0>>
    /\ sync_st = <<FALSE, FALSE>> /\ we_st = <<FALSE, FALSE>> /\ oe_st = <<FALSE, FALSE>>
    /\ slot = Nothing /\ dato = 0 /\ since = 1
    /\ op = NoTransfer /\ m_byte = 0 /\ m_bit = 0
    /\ got = << >> /\ received = << >> /\ written = << >> /\ pushed = << >>
    /\ taken = 0 /\ before = 0
-----------------------------------------------------------------------------
pi_oe == cmd = "read" /\ exec
pi_we == cmd = "write" /\ exec

(***************************************************************************)
(* The system clock.                                                       *)
(***************************************************************************)
pi_sync == sync_st = <<TRUE, FALSE>>
fifo_we == pi_we /\ pi_act /\ ce_fifo(aout)
fifo_oe == pi_oe /\ pi_act /\ ce_fifo(aout)

\* the registers write at pi_sync, the queues count at the end of the level
Clock ==
    /\ since < Slow /\ since' = since + 1
    /\ sync_st' = <<pi_act, sync_st[1]>>
    /\ written' = IF pi_sync /\ pi_we /\ ~ce_fifo(aout) THEN Append(written, <<aout, dout>>)
                  ELSE written
    /\ we_st' = <<fifo_we, we_st[1]>> /\ oe_st' = <<fifo_oe, oe_st[1]>>
    /\ slot' = IF fifo_we THEN dout ELSE slot
    /\ pushed' = IF we_st = <<FALSE, TRUE>> THEN Append(pushed, slot) ELSE pushed
    /\ taken' = IF oe_st = <<FALSE, TRUE>> THEN (taken + 1) % Tags ELSE taken
    /\ dato' = taken
    /\ UNCHANGED <<slaveVars, masterVars>>

(***************************************************************************)
(* The cartridge, outside the repository.  It selects the slave, sends the *)
(* bytes of a transfer, and gives an edge of its clock with the slave      *)
(* deselected, which is what sets it back.                                 *)
(***************************************************************************)
idle == op = NoTransfer \/ m_byte = LengthOf(op)

ByteSent ==
    CASE m_byte = 0 -> <<op.cmd, 0>>
      [] m_byte = Header - 1 -> <<"address", AddressOf(op)>>
      [] m_byte \in Header .. Header + op.n - 1 -> <<"data", m_byte - Header>>
      [] OTHER -> Nothing

\* the byte the slave has shifted in, if it counts bits as the cartridge does
sin == IF m_bit = 7 THEN ByteSent ELSE Nothing

\* the eight bits received, as the byte they are of
ByteOf(bits) ==
    IF \A k \in 1 .. 8 : bits[k] = <<bits[1][1], k - 1>> THEN bits[1][1] ELSE <<"torn", 0>>

MasterBit ==
    LET bits == Append(got, sout)
    IN  /\ m_bit' = (m_bit + 1) % 8
        /\ IF m_bit < 7 THEN got' = bits /\ UNCHANGED <<m_byte, received>>
           ELSE /\ got' = << >> /\ m_byte' = m_byte + 1
                /\ received' = IF op.cmd = "read" /\ m_byte > Header
                               THEN Append(received, ByteOf(bits)) ELSE received
        /\ UNCHANGED <<op, before>>

(***************************************************************************)
(* The slave, at an edge of the serial clock.                              *)
(***************************************************************************)
\* the bytes of the command and the address, until exec
HeaderByte ==
    IF bit_ctr # 7 \/ exec THEN UNCHANGED <<cmd, exec, byte_ctr>>
    ELSE /\ cmd' = IF byte_ctr = 0 THEN sin[1] ELSE cmd
         /\ exec' = (byte_ctr = Header - 1)
         /\ byte_ctr' = byte_ctr + 1

AddressByte == IF bit_ctr = 7 /\ ~exec /\ byte_ctr = Header - 1 THEN aout' = sin[2] ELSE UNCHANGED aout

\* a byte is written while the next one comes in
WriteBit ==
    /\ dout' = IF bit_ctr = 7 THEN sin ELSE dout
    /\ wr_ok' = (wr_ok \/ bit_ctr = 7)
    /\ pi_act' = CASE bit_ctr = 0 /\ wr_ok -> TRUE [] bit_ctr = 5 /\ wr_ok -> FALSE [] OTHER -> pi_act
    /\ aout' = IF bit_ctr = 6 /\ wr_ok THEN aout + 1 ELSE aout
    /\ UNCHANGED <<rd_buff, sout>>

\* Variant for the checks: the address stays.
NextAddress_Stays(addr) == addr

NextAddress(addr) == addr + 1

\* what the addressed place gives: the queue its next byte
dati == IF ce_fifo(aout) THEN <<"fifo", dato>> ELSE <<"other", aout>>

Load == 7

\* a byte is read while the one before it goes out
ReadBit ==
    /\ pi_act' = CASE bit_ctr = 1 -> TRUE [] bit_ctr = 5 -> FALSE [] OTHER -> pi_act
    /\ rd_buff' = IF bit_ctr = 5 THEN dati ELSE rd_buff
    /\ aout' = IF bit_ctr = 5 THEN NextAddress(aout) ELSE aout
    /\ sout' = IF bit_ctr = Load THEN <<rd_buff, 0>> ELSE <<sout[1], sout[2] + 1>>
    /\ UNCHANGED <<wr_ok, dout>>

Bit ==
    /\ ~idle
    /\ since' = 0
    /\ MasterBit
    /\ bit_ctr' = (bit_ctr + 1) % 8
    /\ HeaderByte
    /\ \/ pi_we /\ WriteBit
       \/ pi_oe /\ ReadBit
       \/ ~exec /\ AddressByte /\ UNCHANGED <<wr_ok, pi_act, dout, rd_buff, sout>>
    /\ UNCHANGED queueVars

\* the edge with the slave deselected, and the next transfer
Select ==
    /\ idle
    /\ since' = 0
    /\ cmd' = "none" /\ sout' = <<Nothing, 0>> /\ bit_ctr' = 0 /\ byte_ctr' = 0
    /\ pi_act' = FALSE /\ wr_ok' = FALSE /\ exec' = FALSE
    /\ op' \in Transfers
    /\ m_byte' = 0 /\ m_bit' = 0 /\ got' = << >>
    /\ received' = << >> /\ written' = << >> /\ pushed' = << >> /\ before' = taken
    /\ UNCHANGED <<aout, dout, rd_buff, sync_st, we_st, oe_st, slot, dato, taken>>

\* There is a clock of the system between two edges of the serial one.
Next == Clock \/ (since > 0 /\ (Bit \/ Select))

Spec == Init /\ [][Next]_vars
-----------------------------------------------------------------------------
TypeOK ==
    /\ cmd \in {"none", "write", "read"} /\ exec \in BOOLEAN
    /\ bit_ctr \in 0 .. 7 /\ byte_ctr \in 0 .. Header /\ (exec <=> byte_ctr = Header)
    /\ aout \in 0 .. Other + MaxBytes + 1
    /\ taken \in 0 .. Tags - 1

Data(n) == [k \in 1 .. n |-> <<"data", k - 1>>]

\* Each byte of a write reaches its register or its queue once, in order and
\* at its address, wherever the clocks of the two sides fall; none before its
\* time, and none of the byte that only carries the last one through.
WritesOnce ==
    idle /\ op.cmd = "write" =>
        IF op.where = "fifo" THEN pushed = Data(op.n) /\ written = << >>
        ELSE /\ written = [k \in 1 .. op.n |-> <<Other + k - 1, <<"data", k - 1>>>>]
             /\ pushed = << >>

\* A read brings the bytes at the address and after it, or those next in the
\* queue, each whole.
ReadsInOrder ==
    idle /\ op.cmd = "read" =>
        received = [k \in 1 .. op.n |-> IF op.where = "fifo" THEN <<"fifo", (before + k - 1) % Tags>>
                                        ELSE <<"other", Other + k - 1>>]

\* The queue has lost what the cartridge received, and no more, though a read
\* always fetches one byte beyond.
NothingLost ==
    idle => taken = IF op.cmd = "read" /\ op.where = "fifo" THEN (before + op.n) % Tags ELSE before
=============================================================================
