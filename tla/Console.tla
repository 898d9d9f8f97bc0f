------------------------------ MODULE Console -------------------------------
(***************************************************************************)
(* The firmware's messages: every printf of it is neorv32_uart_printf      *)
(* (mcu/appmain.h:20), which works through its format and gives a          *)
(* character to the transmitter as soon as that is idle.  The library      *)
(* (mcu/lib/source/neorv32_uart.c) and the transmitter behind its two      *)
(* registers (fpga/risc-v/neorv32_uart.vhd) are modelled side by side: the *)
(* transmitter has no queue and drops what is written while it sends.      *)
(***************************************************************************)
EXTENDS Integers, Sequences, SequencesExt

CONSTANTS
    Clock,      \* SYSINFO_CLK
    Bauds,      \* the rates that may be asked for
    Modulus,    \* of a word, 2^32
    Places,     \* decimal digits of a word, 10
    Nibbles,    \* hexadecimal ones, 8
    Programs    \* what may be printed: sequences of calls, each a sequence of pieces

Word == 0 .. Modulus - 1

\* Characters: the digits of either base, and the others that matter.
LineFeed == 16
Return == 17
Minus == 18
Letter == 19
Space == 20

\* A piece of a format: a character, or a directive with its argument.
Plain(c) == [kind |-> "plain", n |-> c, text |-> << >>]
Directive(kind, n) == [kind |-> kind, n |-> n, text |-> << >>]
Str(s) == [kind |-> "s", n |-> 0, text |-> s]

Known == {"plain", "s", "c", "i", "u", "x"}
Numbered == {"i", "u", "x"}

\* What the firmware prints: no carriage return, which printf adds itself, and
\* no line feed as an argument of %c, which it gives out as it is.
Pieces ==
    {piece \in [kind : Known \cup {"other"}, n : Nat, text : Seq(Nat \ {Return})] :
        /\ piece.kind \in Numbered => piece.n \in Word
        /\ piece.kind = "plain" => piece.n # Return
        /\ piece.kind = "c" => piece.n \notin {Return, LineFeed}}

\* a number after 0 to n divisions by the base, x /= 10 and x >> (4 * i)
Divided(x, base, n) ==
    LET divided[k \in 0 .. n] == IF k = 0 THEN x ELSE divided[k - 1] \div base
    IN  divided

ConsoleAssumption ==
    /\ Clock \in Nat \ {0} /\ Bauds \subseteq Nat \ {0}
    /\ \A b \in Bauds : Clock \div (2 * b) < 65536
    \* what is cut off the divisor moves the last bit by less than its half
    /\ \A b \in Bauds : 36 * b <= Clock
    \* the places are enough for every word
    /\ Modulus \in Nat \ {0, 1} /\ Places \in Nat \ {0} /\ Nibbles \in Nat \ {0}
    /\ \A x \in Word : /\ Divided(x, 10, Places)[Places] = 0
                       /\ Divided(x, 16, Nibbles)[Nibbles] = 0
    /\ Programs \subseteq Seq(Seq(Pieces))

VARIABLES
    baud, i, p,     \* the rate asked for; divisor and prescaler, as setup finds them
    ct,             \* UART_CT
    sreg, tx_busy, tx_bitcnt,   \* the transmitter
    pc,             \* what the firmware is at
    calls,          \* the calls to come
    format,         \* what is left of the format
    text,           \* characters the piece being printed still has
    line,           \* what came out on the line
    said            \* history: the calls begun

vars == <<baud, i, p, ct, sreg, tx_busy, tx_bitcnt, pc, calls, format, text, line, said>>
uartVars == <<sreg, tx_busy, tx_bitcnt, line>>
setupVars == <<baud, i, p, ct>>

\* UART_CT: prescaler, divisor and enable; the interrupts are not used
Off == [prsc |-> 0, baud |-> 0, en |-> FALSE]

Init ==
    /\ baud \in Bauds /\ i = 0 /\ p = 0 /\ ct = Off
    /\ sreg = Letter /\ tx_busy = FALSE /\ tx_bitcnt = 10
    /\ pc = "divide" /\ calls \in Programs
    /\ format = << >> /\ text = << >> /\ line = << >> /\ said = << >>
-----------------------------------------------------------------------------
(***************************************************************************)
(* neorv32_uart_setup.                                                     *)
(***************************************************************************)
Divide ==
    /\ pc = "divide"
    /\ ct' = Off
    /\ i' = (Clock \div (2 * baud)) % 65536
    /\ p' = 0 /\ pc' = "scale"
    /\ UNCHANGED <<baud, calls, format, text, said, uartVars>>

\* a divisor has 12 bits; the prescalers are CLK/2, 4, 8, 64, 128, 1024 ...
Scale ==
    /\ pc = "scale" /\ i >= 4095
    /\ i' = i \div (IF p \in {2, 4} THEN 8 ELSE 2)
    /\ p' = p + 1
    /\ UNCHANGED <<baud, ct, pc, calls, format, text, said, uartVars>>

Enable ==
    /\ pc = "scale" /\ i < 4095
    /\ ct' = [prsc |-> p, baud |-> i, en |-> TRUE]
    /\ pc' = "idle"
    /\ UNCHANGED <<baud, i, p, calls, format, text, said, uartVars>>
-----------------------------------------------------------------------------
(***************************************************************************)
(* neorv32_uart_printf.                                                    *)
(***************************************************************************)
\* __neorv32_uart_itoa: the digits from the lowest on, the zeros above the
\* highest other one dropped, and then turned round
Itoa(x) ==
    LET buffer == [k \in 0 .. Places - 1 |-> Divided(x, 10, Places)[k] % 10]
        top == CHOOSE k \in 0 .. Places - 1 :
                   /\ k = 0 \/ buffer[k] # 0
                   /\ \A m \in k + 1 .. Places - 1 : buffer[m] = 0
    IN  [j \in 1 .. top + 1 |-> buffer[top + 1 - j]]

\* __neorv32_uart_tohex
ToHex(x) == [j \in 1 .. Nibbles |-> Divided(x, 16, Nibbles)[Nibbles - j] % 16]

\* neorv32_uart_print
Text(s) ==
    FlattenSeq([k \in 1 .. Len(s) |-> IF s[k] = LineFeed THEN <<Return, LineFeed>> ELSE <<s[k]>>])

\* the characters of a piece; an int32_t is negative from half the modulus on
Characters(piece) ==
    CASE piece.kind = "s" -> Text(piece.text)
      [] piece.kind = "c" -> <<piece.n>>
      [] piece.kind = "i" ->
             IF piece.n >= Modulus \div 2 THEN <<Minus>> \o Text(Itoa((Modulus - piece.n) % Modulus))
             ELSE Text(Itoa(piece.n))
      [] piece.kind = "u" -> Text(Itoa(piece.n))
      [] piece.kind = "x" -> Text(ToHex(piece.n))
      [] OTHER -> Text(<<piece.n>>)

\* printHex of main.c: four words to a line
PrintHex(words) ==
    FlattenSeq([k \in 1 .. Len(words) |->
        (IF k % 4 = 1 THEN <<<<Plain(LineFeed)>>>> ELSE << >>)
            \o <<<<Directive("x", words[k]), Plain(Space)>>>>])
    \o <<<<Plain(LineFeed)>>>>

Call ==
    /\ pc = "idle" /\ calls # << >>
    /\ format' = Head(calls) /\ calls' = Tail(calls)
    /\ said' = Append(said, Head(calls))
    /\ pc' = "format"
    /\ UNCHANGED <<text, setupVars, uartVars>>

\* the next piece; at one it does not know printf returns
Piece ==
    /\ pc = "format" /\ format # << >>
    /\ IF Head(format).kind \in Known
       THEN text' = Characters(Head(format)) /\ format' = Tail(format) /\ pc' = "putc"
       ELSE pc' = "idle" /\ format' = << >> /\ UNCHANGED text
    /\ UNCHANGED <<calls, said, setupVars, uartVars>>

Printed ==
    /\ pc = "format" /\ format = << >>
    /\ pc' = "idle"
    /\ UNCHANGED <<calls, format, text, said, setupVars, uartVars>>

\* Variant for the checks: a character is written without waiting.
Putc_AtOnce ==
    /\ pc = "putc"
    /\ pc' = IF text = << >> THEN "format" ELSE "write"
    /\ UNCHANGED <<calls, format, text, said, setupVars, uartVars>>

\* neorv32_uart_putc, which reads the register until the transmitter is idle
Putc ==
    /\ pc = "putc"
    /\ text # << >> => ~tx_busy
    /\ pc' = IF text = << >> THEN "format" ELSE "write"
    /\ UNCHANGED <<calls, format, text, said, setupVars, uartVars>>

\* and then writes UART_DATA
Write ==
    /\ pc = "write"
    /\ text' = Tail(text) /\ pc' = "putc"
    /\ IF ~tx_busy /\ ct.en
       THEN sreg' = Head(text) /\ tx_busy' = TRUE /\ tx_bitcnt' = 10
       ELSE UNCHANGED <<sreg, tx_busy, tx_bitcnt>>
    /\ UNCHANGED <<calls, format, said, line, setupVars>>

Firmware == Divide \/ Scale \/ Enable \/ Call \/ Piece \/ Printed \/ Putc \/ Write

\* The transmitter, bit by bit: a start bit, eight of the character, two stop bits.
Transmit ==
    /\ tx_busy
    /\ tx_bitcnt' = (tx_bitcnt - 1) % 16
    /\ tx_busy' = (tx_bitcnt # 0)
    /\ line' = IF tx_bitcnt = 2 THEN Append(line, sreg) ELSE line
    /\ UNCHANGED <<sreg, pc, calls, format, text, said, setupVars>>

Done ==
    /\ pc = "idle" /\ calls = << >> /\ ~tx_busy
    /\ UNCHANGED vars

Next == Firmware \/ Transmit \/ Done

Spec == Init /\ [][Next]_vars /\ WF_vars(Firmware) /\ WF_vars(Transmit)
-----------------------------------------------------------------------------
TypeOK ==
    /\ pc \in {"divide", "scale", "idle", "format", "putc", "write"}
    /\ tx_busy \in BOOLEAN /\ tx_bitcnt \in 0 .. 15
    /\ p \in 0 .. 7 /\ i \in Nat /\ i < 65536

\* A numeral of n as it is written by hand.
Numeral(base) ==
    LET numeral[n \in Word] ==
            IF n < base THEN <<n>> ELSE numeral[n \div base] \o <<n % base>>
    IN  numeral

Meaning(piece) ==
    CASE piece.kind = "i" ->
             IF piece.n < Modulus \div 2 THEN Numeral(10)[piece.n]
             ELSE <<Minus>> \o Numeral(10)[Modulus - piece.n]
      [] piece.kind = "u" -> Numeral(10)[piece.n]
      [] piece.kind = "x" ->
             [k \in 1 .. Nibbles - Len(Numeral(16)[piece.n]) |-> 0] \o Numeral(16)[piece.n]
      [] piece.kind = "s" -> piece.text
      [] OTHER -> <<piece.n>>

\* What the calls so far are to say, with no carriage returns.
Heard(call) ==
    LET ends == {k \in 1 .. Len(call) : call[k].kind \notin Known}
        end == IF ends = {} THEN Len(call) ELSE (CHOOSE k \in ends : \A m \in ends : k <= m) - 1
    IN  FlattenSeq([k \in 1 .. end |-> Meaning(call[k])])
HeardAll == FlattenSeq([k \in 1 .. Len(said) |-> Heard(said[k])])

WithoutReturns(s) ==
    FlattenSeq([k \in 1 .. Len(s) |-> IF s[k] = Return THEN << >> ELSE <<s[k]>>])

\* Whatever the transmitter's pace, the line carries the text of the calls in
\* their order, every number as its numeral, and each line feed has a return
\* before it.
TextWhole ==
    /\ LET heard == WithoutReturns(line)
       IN  /\ IsPrefix(heard, HeardAll)
           /\ pc = "idle" /\ ~tx_busy => heard = HeardAll
    /\ \A k \in 1 .. Len(line) : line[k] = LineFeed => k > 1 /\ line[k - 1] = Return

\* clocks of a bit: the counter of the transmitter starts anew after zero
BitClocks == <<2, 4, 8, 64, 128, 1024, 2048, 4096>>[ct.prsc + 1] * (ct.baud + 1)

\* A terminal at the rate asked for, which looks at the middle of each of the
\* ten bits, finds every bit in its place.
Readable ==
    ct.en => \A k \in 0 .. 9 :
        /\ 2 * k * BitClocks * baud <= Clock * (2 * k + 1)
        /\ Clock * (2 * k + 1) < 2 * (k + 1) * BitClocks * baud

\* Every message comes to its end.
AllPrinted == <>(calls = << >> /\ pc = "idle" /\ ~tx_busy)
=============================================================================
