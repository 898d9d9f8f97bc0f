----------------------------- MODULE LineInput ------------------------------
(***************************************************************************)
(* What comes in on the line of the messages: the receiver of              *)
(* fpga/risc-v/neorv32_uart.vhd, which holds one character, and the ways   *)
(* of the library to get it (mcu/lib/source/neorv32_uart.c): a line that   *)
(* is edited and echoed (neorv32_uart_scan), or one character after the    *)
(* other for a program that looks whether there is one.  Console has the   *)
(* way out; an echo takes as long as it takes there.                       *)
(***************************************************************************)
EXTENDS Integers, Sequences, SequencesExt

CONSTANTS
    MaxSizes,   \* sizes of the buffer of a line
    MaxTyped    \* bound on what is typed

InputAssumption == MaxSizes \subseteq Nat \ {0} /\ MaxTyped \in Nat

\* Characters: two that can be shown, one that cannot, and the two that count.
Shown == {"a", "b"}
Backspace == "backspace"
Return == "return"
Space == "space"
Character == Shown \cup {Backspace, Return, "escape"}

VARIABLES
    rx_reg,         \* the character received
    rx_done,        \* one was received in the clock before
    rx_avail,       \* it has not been read
    pc,             \* what the library is at
    caller,         \* "scan", or a program that uses the other calls
    echo, max_size, \* arguments of scan
    c,              \* the character read
    buffer,         \* the line so far
    out,            \* what is still to be echoed
    screen,         \* what the terminal shows, and where its cursor is
    patient,        \* the user waits for the echo before the next key
    typed,          \* history: the keys so far
    heard           \* history: the places in it of the characters read

vars == <<rx_reg, rx_done, rx_avail, pc, caller, echo, max_size, c, buffer, out, screen,
          patient, typed, heard>>
receiver == <<rx_reg, rx_done, rx_avail>>
arguments == <<caller, echo, max_size, patient>>

Nothing == 0
Null == "null"

Init ==
    /\ rx_reg = Nothing /\ rx_done = FALSE /\ rx_avail = FALSE
    /\ caller \in {"scan", "poll"} /\ echo \in BOOLEAN /\ max_size \in MaxSizes
    /\ patient \in BOOLEAN
    /\ caller = "poll" => ~echo /\ ~patient
    /\ pc = "get" /\ c = Null /\ buffer = << >> /\ out = << >>
    /\ screen = [cells |-> << >>, cursor |-> 0]
    /\ typed = << >> /\ heard = << >>
-----------------------------------------------------------------------------
(***************************************************************************)
(* The line and the receiver.  rx_reg is the place of the character in     *)
(* what was typed.                                                         *)
(***************************************************************************)
AtRest == pc = "get" /\ ~rx_avail /\ ~rx_done

\* the last bit of a character has come; the next is ten bits away
Key(k) ==
    /\ Len(typed) < MaxTyped /\ ~rx_done /\ pc # "line"
    /\ patient => AtRest
    /\ typed' = Append(typed, k)
    /\ rx_reg' = Len(typed) + 1 /\ rx_done' = TRUE
    /\ UNCHANGED <<rx_avail, pc, c, buffer, out, screen, heard, arguments>>

\* a clock later it is marked, unless a read clears the mark in that clock
Mark(reads) ==
    /\ rx_avail' = IF reads /\ rx_avail THEN FALSE ELSE rx_avail \/ rx_done
    /\ rx_done' = FALSE
    /\ UNCHANGED rx_reg

Clock ==
    /\ rx_done /\ Mark(FALSE)
    /\ UNCHANGED <<pc, c, buffer, out, screen, typed, heard, arguments>>
-----------------------------------------------------------------------------
(***************************************************************************)
(* The library.                                                            *)
(***************************************************************************)
\* neorv32_uart_getc: UART_DATA is read until it has a character
Getc ==
    /\ pc = "get" /\ caller = "scan"
    /\ rx_avail /\ Mark(TRUE)
    /\ c' = typed[rx_reg] /\ heard' = Append(heard, rx_reg) /\ pc' = "edit"
    /\ UNCHANGED <<buffer, out, screen, typed, arguments>>

\* neorv32_uart_char_received: the read clears the mark, and leaves the character
CharReceived ==
    /\ pc = "get" /\ caller = "poll"
    /\ rx_avail /\ Mark(TRUE)
    /\ pc' = "received"
    /\ UNCHANGED <<c, buffer, out, screen, typed, heard, arguments>>

\* neorv32_uart_char_received_get
CharReceivedGet ==
    /\ pc = "received" /\ Mark(TRUE)
    /\ c' = typed[rx_reg] /\ heard' = Append(heard, rx_reg)
    /\ IF c' = Return THEN pc' = "line" /\ UNCHANGED buffer
       ELSE pc' = "get" /\ buffer' = Append(buffer, c')
    /\ UNCHANGED <<out, screen, typed, arguments>>

Echoed(characters) == out' = IF echo THEN characters ELSE << >>

\* neorv32_uart_scan, with a character
Delete ==
    /\ c = Backspace
    /\ pc' = "echo"
    /\ IF buffer # << >> THEN buffer' = Front(buffer) /\ Echoed(<<Backspace, Space, Backspace>>)
       ELSE out' = << >> /\ UNCHANGED buffer

End == c = Return /\ pc' = "line" /\ UNCHANGED <<buffer, out>>

Insert ==
    /\ c \notin {Backspace, Return}
    /\ pc' = "echo"
    /\ IF c \in Shown /\ Len(buffer) < max_size - 1
       THEN buffer' = Append(buffer, c) /\ Echoed(<<c>>)
       ELSE out' = << >> /\ UNCHANGED buffer

Scan ==
    /\ pc = "edit"
    /\ Delete \/ End \/ Insert
    /\ UNCHANGED <<c, screen, typed, heard, receiver, arguments>>

\* what the terminal does with a character of the echo
After(character) ==
    LET at == screen.cursor
    IN  IF character = Backspace THEN [screen EXCEPT !.cursor = IF at = 0 THEN 0 ELSE at - 1]
        ELSE [cells |-> SubSeq(screen.cells, 1, at) \o <<character>>
                            \o SubSeq(screen.cells, at + 2, Len(screen.cells)),
              cursor |-> at + 1]

\* the next character of the echo has gone out
Echo ==
    /\ pc = "echo"
    /\ IF out = << >> THEN pc' = "get" /\ UNCHANGED <<out, screen>>
       ELSE out' = Tail(out) /\ screen' = After(Head(out)) /\ UNCHANGED pc
    /\ UNCHANGED <<c, buffer, typed, heard, receiver, arguments>>

Library == Getc \/ CharReceived \/ CharReceivedGet \/ Scan \/ Echo

\* the line is there, or there are no more keys
Over ==
    /\ pc = "line" \/ (Len(typed) = MaxTyped /\ AtRest)
    /\ UNCHANGED vars

Next == (\E k \in Character : Key(k)) \/ Clock \/ Library \/ Over

Spec == Init /\ [][Next]_vars
-----------------------------------------------------------------------------
TypeOK ==
    /\ rx_reg \in 0 .. MaxTyped /\ rx_done \in BOOLEAN /\ rx_avail \in BOOLEAN
    /\ pc \in {"get", "received", "edit", "echo", "line"}
    /\ buffer \in Seq(Character)

\* What a user sees who edits a line of at most n characters.
EditedBy(text, k, n) ==
    CASE k = Backspace -> IF text = << >> THEN text ELSE Front(text)
      [] k \in Shown /\ Len(text) < n -> Append(text, k)
      [] OTHER -> text

Edited(keys, n) ==
    LET text[j \in 0 .. Len(keys)] ==
            IF j = 0 THEN << >> ELSE EditedBy(text[j - 1], keys[j], n)
    IN  text[Len(keys)]

HeardKeys == [j \in 1 .. Len(heard) |-> typed[heard[j]]]

\* However fast the keys come, the line is made of those that were read, each
\* once and in their order, it leaves room for its end, and the last key is
\* never the one that is lost; a user who waits for the echo loses none.
LineMadeOfKeys ==
    caller = "scan" =>
        /\ \A j \in 1 .. Len(heard) - 1 : heard[j] < heard[j + 1]
        /\ pc # "edit" => buffer = Edited(HeardKeys, max_size - 1)
        /\ Len(buffer) < max_size
        /\ AtRest /\ typed # << >> => heard # << >> /\ Last(heard) = Len(typed)
        /\ AtRest /\ patient => Len(heard) = Len(typed)

\* With the echo the terminal shows the line, and no rest of what was deleted.
ShowsLine ==
    caller = "scan" /\ echo /\ out = << >> =>
        /\ SubSeq(screen.cells, 1, screen.cursor) = buffer \/ pc = "edit"
        /\ \A k \in screen.cursor + 1 .. Len(screen.cells) : screen.cells[k] = Space

\* A program that looks for characters gets them in their order and the last
\* one for certain; one that comes between its two calls it may get twice.
PolledInOrder ==
    caller = "poll" =>
        /\ \A j \in 1 .. Len(heard) - 1 : heard[j] <= heard[j + 1]
        /\ AtRest /\ typed # << >> => Last(heard) = Len(typed)
=============================================================================
