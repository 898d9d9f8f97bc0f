------------------------------ MODULE SdramIo ------------------------------
(***************************************************************************)
(* The graphics memory between the console and the processor (sdram_io,    *)
(* fpga/sdram_io.sv).  The console reads it through a window, at a pointer *)
(* the processor sets and each read moves on; the processor reads and      *)
(* writes long words as two words.                                         *)
(***************************************************************************)
EXTENDS CpuRdx

VARIABLES
    request,        \* what the processor asks for: an access, or a new pointer
    mcu_ack,
    delay, state, idle,
    mcu_a1,         \* 1: the second word
    mcu_dati,       \* what it is given
    cpu_ptr,        \* the word the console reads next
    expected,       \* history: the word it ought to be,
    disturbed       \* history: it was being written since the read began

arbiterVars == <<mcu_ack, delay, state, idle, mcu_a1, mcu_dati>>
vars == <<oe, addr, held, cpu_oe_st, addr0, addr1, cpu_ack, cpu_delay, cpu_dati_st, pins,
          age, mem, request, mcu_ack, delay, state, idle, mcu_a1, mcu_dati, cpu_ptr, expected,
          disturbed>>

None == [op |-> "none", addr |-> 0]
mcu_ce == request.op \in {"read", "write"}
New(a) == Words + 1 + a     \* what the processor writes

Init ==
    /\ InitRdx
    /\ mem = [a \in Address |-> a]
    /\ request = None
    /\ mcu_ack = FALSE /\ delay = 0 /\ state = 0 /\ idle = FALSE /\ mcu_a1 = 0
    /\ mcu_dati = <<Garbage, Garbage>>
    /\ cpu_ptr = 0 /\ expected = 0 /\ disturbed = FALSE

McuPins ==
    LET word == 2 * request.addr + mcu_a1
    IN  [addr |-> word, data |-> New(word), oe |-> ~idle /\ request.op = "read",
         we |-> ~idle /\ request.op = "write"]

\* Variant for the checks: the write enable does not look at who has the memory.
Pins_KeepsWriting ==
    IF cpu_master THEN [McuPins EXCEPT !.addr = cpu_ptr, !.oe = oe] ELSE McuPins

Pins == IF cpu_master THEN [NoPins EXCEPT !.addr = cpu_ptr, !.oe = oe] ELSE McuPins
-----------------------------------------------------------------------------
(***************************************************************************)
(* The arbiter, by what it does in a clock.                                *)
(***************************************************************************)
NoAccess ==
    /\ ~mcu_ce
    /\ idle' = FALSE /\ mcu_ack' = FALSE /\ delay' = 0 /\ state' = 0 /\ mcu_a1' = 0
    /\ UNCHANGED mcu_dati

\* a word under way has to be done again
Interrupted ==
    /\ mcu_ce /\ cpu_master /\ state # 0 /\ ~mcu_ack
    /\ delay' = IF idle THEN 0 ELSE MemTime - 1
    /\ UNCHANGED <<mcu_ack, state, idle, mcu_a1, mcu_dati>>

Waiting ==
    /\ mcu_ce /\ ~(cpu_master /\ state # 0 /\ ~mcu_ack) /\ delay > 0
    /\ delay' = delay - 1
    /\ UNCHANGED <<mcu_ack, state, idle, mcu_a1, mcu_dati>>

Step(s) == mcu_ce /\ ~(cpu_master /\ s # 0 /\ ~mcu_ack) /\ delay = 0 /\ state = s

\* the first word, and the second
Begin(s, a1) ==
    /\ Step(s)
    /\ idle' = FALSE /\ delay' = MemTime - 1 /\ mcu_a1' = a1 /\ state' = s + 1
    /\ UNCHANGED <<mcu_ack, mcu_dati>>

End(s, word) ==
    /\ Step(s)
    /\ idle' = TRUE /\ state' = s + 1
    /\ mcu_dati' = [mcu_dati EXCEPT ![word] = Answer(Pins)]
    /\ mcu_ack' = (word = 2)
    /\ UNCHANGED <<delay, mcu_a1>>

Over == Step(4) /\ UNCHANGED arbiterVars

Arbiter ==
    \/ NoAccess \/ Interrupted \/ Waiting
    \/ Begin(0, 0) \/ End(1, 1) \/ Begin(2, 1) \/ End(3, 2) \/ Over

\* Variant for the checks: the pointer moves on when the read begins.
Pointer_Early ==
    cpu_ptr' = IF request.op = "pointer" THEN 2 * request.addr
               ELSE IF oe /\ ~cpu_oe_st[1] THEN (cpu_ptr + 1) % Words
               ELSE cpu_ptr

\* the pointer, two clocks after the end of a read
Pointer ==
    cpu_ptr' = IF request.op = "pointer" THEN 2 * request.addr
               ELSE IF cpu_oe_st = <<FALSE, TRUE, TRUE>> THEN (cpu_ptr + 1) % Words
               ELSE cpu_ptr
-----------------------------------------------------------------------------
(***************************************************************************)
(* The processor's bus: an access ends with the clock after mcu_ack, and   *)
(* the pointer is set in one clock.  By the order of commands and reads    *)
(* it is not set while the console reads.                                  *)
(***************************************************************************)
Pair(a) == {2 * a, 2 * a + 1}

Accesses(op) == IF op = "pointer" THEN ~oe ELSE TRUE

Processor ==
    \/ (mcu_ack \/ request.op = "pointer") /\ request' = None
    \/ ~mcu_ack /\ mcu_ce /\ UNCHANGED request
    \/ ~mcu_ack /\ request.op = "none"
       /\ \E op \in {"none", "read", "write", "pointer"}, a \in 0 .. Words \div 2 - 1 :
              Accesses(op) /\ request' = [op |-> op, addr |-> a]

\* the console's reads end before the next one begins, because the pointer
\* would not move on otherwise
Bus ==
    /\ BusStays \/ ReadBegins \/ AddressSettles \/ ReadEnds
    /\ expected' = IF request.op = "pointer" THEN 2 * request.addr
                   ELSE IF ReadEnds THEN (expected + 1) % Words
                   ELSE expected
    /\ disturbed' = \/ request'.op = "write" /\ expected' \in Pair(request'.addr)
                    \/ disturbed /\ ~ReadBegins

Clock ==
    Arbiter /\ Pointer /\ RdxClock(Answer(Pins)) /\ MemoryClock(Pins) /\ Processor /\ Bus

Spec == Init /\ [][Clock]_vars /\ WF_vars(Clock)
-----------------------------------------------------------------------------
TypeOK ==
    /\ RdxTypeOK
    /\ request.op \in {"none", "read", "write", "pointer"} /\ request.addr \in Address
    /\ mcu_ack \in BOOLEAN /\ idle \in BOOLEAN /\ mcu_a1 \in {0, 1}
    /\ delay \in 0 .. MemTime - 1 /\ state \in 0 .. 4
    /\ cpu_ptr \in Address
    /\ mcu_ack <=> state = 4

\* Whenever the console took the memory away, and as often, the processor is
\* given the two words it asked for, each by a memory that had its time.
McuReads ==
    mcu_ack /\ request.op = "read" =>
        mcu_dati = <<mem[2 * request.addr], mem[2 * request.addr + 1]>>

\* A write of the processor is complete when it is acknowledged, also when
\* the console read in the middle of it.
McuWrites ==
    mcu_ack /\ request.op = "write" => \A a \in Pair(request.addr) : mem[a] = New(a)

\* No other word is touched.
NothingElse ==
    \A a \in Address :
        mem[a] \notin {a, New(a)} => request.op = "write" /\ a \in Pair(request.addr)

\* The console is given word after word from where the pointer was set, in
\* time and to the end of its read, whatever the processor does but write
\* that very word.
CpuReads ==
    oe /\ held >= MemTime + 3 /\ ~disturbed => CpuData(Answer(Pins)) = mem[expected]

\* A console that reads all the time does not keep the processor from it.
McuServed == mcu_ce ~> mcu_ack
=============================================================================
