------------------------------- MODULE MCLinks -------------------------------
(***************************************************************************)
(* The way between the firmware and the cartridge, layer by layer: what    *)
(* they say to each other (EdLink), the queue it goes through (FifoBuff)   *)
(* and the serial line (SpiPi); and the two devices of the processor that  *)
(* the firmware's library drives, the line for its messages (Console, and  *)
(* LineInput for what comes back on it) and the long counters              *)
(* (LongCounter).  A layer knows of the one below only what that promises, *)
(* and the devices share nothing, so that TLC goes through them one after  *)
(* the other: in a behaviour the one that "which" names is at work.        *)
(***************************************************************************)
EXTENDS EdLink

CONSTANTS
    Size, WriteLasts, WriteGap, ReadGap, MaxBytes, Slow,
    SystemClock, Bauds, Modulus, Places, Nibbles, Programs, MaxSizes, MaxTyped,
    Lo, Hi, Times, Delays, MaxGap, MaxCalls

VARIABLES
    which,
    we_addr, oe_addr, we_st, oe_st, ram, dato, fifo_status, we, we_for, access,
    access_for, seen, put, taken, last,
    cmd, bit_ctr, byte_ctr, exec, wr_ok, pi_act, aout, dout, rd_buff, sout, sync_st,
    serial_we_st, serial_oe_st, slot, serial_dato, since, op, m_byte, m_bit,
    serial_got, received, written, pushed, serial_taken, before,
    baud, i, p, ct, sreg, tx_busy, tx_bitcnt, console_pc, calls, format, text, line, said,
    rx_reg, rx_done, rx_avail, input_pc, caller, echo, max_size, c, buffer, out, screen,
    patient, typed, heard,
    lo, msb_ff, hi, counter_pc, call, cycles, tmp1, tmp2, resume, gap, count, now, begun,
    retries

BAUD_RATE == 921600

Queue == INSTANCE FifoBuff

Serial == INSTANCE SpiPi WITH
    we_st <- serial_we_st, oe_st <- serial_oe_st, dato <- serial_dato,
    got <- serial_got, taken <- serial_taken

Messages == INSTANCE Console WITH Clock <- SystemClock, pc <- console_pc

NewLine == <<Messages!Plain(Messages!LineFeed)>>

\* What the firmware may print: each directive with the numbers at its
\* borders, a path, a directive printf does not know, and a dump; they are put
\* together from the pieces of a console that has nothing to print yet.
Vocabulary == INSTANCE Console WITH Clock <- SystemClock, Programs <- {}, pc <- console_pc
MCNumbers == {0, 7, 10, 100, 127, 128, 255}
MCFormats ==
    LET Piece(kind, n) == Vocabulary!Directive(kind, n)
        letter == Vocabulary!Plain(Vocabulary!Letter)
        newLine == <<Vocabulary!Plain(Vocabulary!LineFeed)>>
    IN  {newLine,
         <<Vocabulary!Str(<<Vocabulary!Letter, Vocabulary!LineFeed>>)>> \o newLine,
         <<letter, Piece("other", 0), letter>>,
         <<Piece("c", Vocabulary!Letter)>>}
            \cup {<<Piece(kind, n)>> \o newLine : kind \in {"i", "u", "x"}, n \in MCNumbers}
MCPrograms ==
    {<<f>> : f \in MCFormats} \cup {Vocabulary!PrintHex(<<0, 171, 15, 16, 255>>)}

Input == INSTANCE LineInput WITH pc <- input_pc

Counter == INSTANCE LongCounter WITH pc <- counter_pc

ASSUME LayersAssumption == Queue!FifoAssumption /\ Serial!SpiAssumption
ASSUME DevicesAssumption ==
    Messages!ConsoleAssumption /\ Input!InputAssumption /\ Counter!CounterAssumption

queueVars ==
    <<we_addr, oe_addr, we_st, oe_st, ram, dato, fifo_status, we, we_for, access,
      access_for, seen, put, taken, last>>
serialVars ==
    <<cmd, bit_ctr, byte_ctr, exec, wr_ok, pi_act, aout, dout, rd_buff, sout, sync_st,
      serial_we_st, serial_oe_st, slot, serial_dato, since, op, m_byte, m_bit, serial_got,
      received, written, pushed, serial_taken, before>>
consoleVars ==
    <<baud, i, p, ct, sreg, tx_busy, tx_bitcnt, console_pc, calls, format, text, line, said>>
inputVars ==
    <<rx_reg, rx_done, rx_avail, input_pc, caller, echo, max_size, c, buffer, out, screen,
      patient, typed, heard>>
counterVars ==
    <<lo, msb_ff, hi, counter_pc, call, cycles, tmp1, tmp2, resume, gap, count, now, begun,
      retries>>
allVars == <<which, vars, queueVars, serialVars, consoleVars, inputVars, counterVars>>

\* what is chosen at the start of one is no choice for the others
LinksInit ==
    /\ which \in {"link", "queue", "serial", "console", "input", "counter"}
    /\ Init /\ Queue!Init /\ Serial!Init /\ Messages!Init /\ Input!Init /\ Counter!Init
    /\ which # "link" => path = << >> /\ fifo_a = << >>
    \* the other rates with one message only, and that one for the other components
    /\ baud # BAUD_RATE => calls = <<NewLine>>
    /\ which # "console" => baud = BAUD_RATE /\ calls = <<NewLine>>
    /\ which # "input" => caller = "scan" /\ ~echo /\ max_size = 1 /\ patient
    /\ which # "counter" => now = 0

LinkStep ==
    which = "link" /\ Next /\ UNCHANGED <<which, queueVars, serialVars, consoleVars, inputVars, counterVars>>
QueueClock ==
    /\ which = "queue" /\ Queue!Clock
    /\ UNCHANGED <<which, vars, serialVars, consoleVars, inputVars, counterVars>>
SerialStep ==
    /\ which = "serial" /\ Serial!Next
    /\ UNCHANGED <<which, vars, queueVars, consoleVars, inputVars, counterVars>>
ConsoleStep ==
    /\ which = "console" /\ Messages!Next
    /\ UNCHANGED <<which, vars, queueVars, serialVars, inputVars, counterVars>>
InputStep ==
    /\ which = "input" /\ Input!Next
    /\ UNCHANGED <<which, vars, queueVars, serialVars, consoleVars, counterVars>>
CounterStep ==
    /\ which = "counter" /\ Counter!Next
    /\ UNCHANGED <<which, vars, queueVars, serialVars, consoleVars, inputVars>>

LinksNext == LinkStep \/ QueueClock \/ SerialStep \/ ConsoleStep \/ InputStep \/ CounterStep

LinksSpec ==
    /\ LinksInit /\ [][LinksNext]_allVars
    /\ WF_vars(which = "link" /\ Firmware) /\ WF_vars(which = "link" /\ Cartridge)
    /\ WF_consoleVars(which = "console" /\ Messages!Firmware)
    /\ WF_consoleVars(which = "console" /\ Messages!Transmit)
-----------------------------------------------------------------------------
\* Each answer is read by the call it is meant for, whatever was in the queue
\* at the start, the path is mounted as it was told, and what is written
\* before the other side reads fits into the queues.
AnswersInStep == TypeOK /\ InStep /\ Fits

\* Bytes come out of the queue in the order they went in, each once, none
\* before it is there, and the queue counts what it holds, whatever the clocks
\* of its two sides.
QueueInOrder == Queue!TypeOK /\ Queue!ReadInOrder /\ Queue!Counts

\* A transfer of the serial line writes each byte once at its place, reads each
\* whole and in order, and takes from the queue what the cartridge received.
TransfersWhole ==
    Serial!TypeOK /\ Serial!WritesOnce /\ Serial!ReadsInOrder /\ Serial!NothingLost

\* The messages come out whole, in their order, at a rate a terminal set to the
\* rate asked for can read; and a line that comes in is made of the keys in
\* their order, whatever was lost while nobody read, and is what is shown.
MessagesReadable ==
    /\ Messages!TypeOK /\ Messages!TextWhole /\ Messages!Readable
    /\ Input!TypeOK /\ Input!LineMadeOfKeys /\ Input!ShowsLine /\ Input!PolledInOrder

\* A long counter is read whole and set exactly while it runs.
CountersWhole == Counter!TypeOK /\ Counter!ReadWhole /\ Counter!Exact

\* A cartridge that answers does not leave the game in reset: the start-up
\* comes to the end of what it asks of it, and so does each message on its way.
StartUpAnswered ==
    /\ which = "link" => LinkEnds
    /\ which = "console" => Messages!AllPrinted
=============================================================================
