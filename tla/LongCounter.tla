---------------------------- MODULE LongCounter -----------------------------
(***************************************************************************)
(* The 64-bit counters of the processor: the system time                   *)
(* (neorv32_mtime.vhd) and the cycles and instructions counted             *)
(* (neorv32_cpu_control.vhd).  Each is two words, the high one a clock     *)
(* late with the carry, and the library (mcu/lib/source/neorv32_mtime.c    *)
(* and neorv32_cpu.c) reads and sets it a word at a time while it runs.    *)
(***************************************************************************)
EXTENDS Naturals

CONSTANTS
    Lo,         \* values of the low word, 2^32
    Hi,         \* and of the high one
    Times,      \* what the counter may be at the start, or is set to
    Delays,     \* clocks a delay is asked for
    MaxGap,     \* bound on the clocks from one access to the next
    MaxCalls    \* bound on the calls of the library

CounterAssumption ==
    /\ Lo \in Nat \ {0} /\ Hi \in Nat \ {0} /\ MaxCalls \in Nat
    /\ Times \subseteq 0 .. Lo * Hi - 1 /\ Delays \subseteq Nat
    \* reading twice takes less time than the low word needs to come round
    /\ MaxGap \in Nat \ {0} /\ 6 * (MaxGap + 1) < Lo

VARIABLES
    lo,             \* the low word with its carry bit
    msb_ff,         \* the carry bit of the clock before
    hi,             \* the high word
    pc, call,       \* what the library is at, and for whom
    cycles,         \* what it was given to set, or has read
    tmp1, tmp2,     \* the words read so far
    resume,         \* wait_cycles of a delay, and then its time_resume
    gap, count,     \* clocks since the last access, and calls begun
    now,            \* history: what the counter is worth
    begun,          \* history: when the reading began
    retries         \* history: how often it went back for the high word

vars == <<lo, msb_ff, hi, pc, call, cycles, tmp1, tmp2, resume, gap, count, now, begun, retries>>

Init ==
    /\ \E t \in Times : lo = t % Lo /\ hi = t \div Lo /\ now = t
    /\ msb_ff = 0
    /\ pc = "idle" /\ call = "none" /\ cycles = 0 /\ tmp1 = 0 /\ tmp2 = 0 /\ resume = 0
    /\ gap = 0 /\ count = 0 /\ begun = 0 /\ retries = 0

Carry == lo \div Lo
-----------------------------------------------------------------------------
(***************************************************************************)
(* A clock of the counter.  An access falls into one: what is read is      *)
(* what the words were before it, and a word that is written does not      *)
(* count in it.                                                            *)
(***************************************************************************)
CountLo == lo' = (lo + 1) % (2 * Lo) /\ msb_ff' = Carry
CountHi == hi' = IF msb_ff # Carry THEN (hi + 1) % Hi ELSE hi

\* the model ends where the two words do
Room == now < Lo * Hi - 1

Clock ==
    /\ Room
    /\ CountLo /\ CountHi
    /\ now' = now + 1

\* the clocks between two accesses
Wait ==
    /\ IF pc = "idle" THEN UNCHANGED gap ELSE gap < MaxGap /\ gap' = gap + 1
    /\ Clock
    /\ UNCHANGED <<pc, call, cycles, tmp1, tmp2, resume, count, begun, retries>>

Access(step) == pc = step /\ gap > 0 /\ gap' = 0

Begin(operation, step) ==
    /\ pc = "idle" /\ count < MaxCalls
    /\ pc' = step /\ call' = operation /\ count' = count + 1
    /\ begun' = now /\ retries' = 0 /\ gap' = 0
    /\ Clock
    /\ UNCHANGED <<tmp1, tmp2>>

\* neorv32_mtime_get_time, neorv32_cpu_get_cycle, neorv32_cpu_get_systime
GetTime ==
    /\ Begin("get", "read_hi")
    /\ UNCHANGED <<cycles, resume>>

ReadHi ==
    /\ Access("read_hi") /\ Clock
    /\ tmp1' = hi /\ pc' = "read_lo"
    /\ UNCHANGED <<call, cycles, tmp2, resume, count, begun, retries>>

ReadLo ==
    /\ Access("read_lo") /\ Clock
    /\ tmp2' = lo % Lo /\ pc' = "read_hi_again"
    /\ UNCHANGED <<call, cycles, tmp1, resume, count, begun, retries>>

\* Variant for the checks: the high word is not compared.
ReadHiAgain_TakesIt ==
    /\ Access("read_hi_again") /\ Clock
    /\ cycles' = Lo * hi + tmp2 /\ pc' = "got"
    /\ UNCHANGED <<call, tmp1, tmp2, resume, count, begun, retries>>

\* tmp3, which must be what tmp1 was
ReadHiAgain ==
    /\ Access("read_hi_again") /\ Clock
    /\ IF hi = tmp1
       THEN cycles' = Lo * hi + tmp2 /\ pc' = "got" /\ UNCHANGED retries
       ELSE pc' = "read_hi" /\ retries' = retries + 1 /\ UNCHANGED cycles
    /\ UNCHANGED <<call, tmp1, tmp2, resume, count, begun>>

\* neorv32_mtime_set_time, neorv32_cpu_set_mcycle
SetTime ==
    /\ Begin("set", "clear_lo")
    /\ cycles' \in Times
    /\ UNCHANGED resume

ClearLo ==
    /\ Access("clear_lo") /\ Room
    /\ lo' = 0 /\ msb_ff' = 0 /\ CountHi
    /\ now' = Lo * hi'
    /\ pc' = "write_hi"
    /\ UNCHANGED <<call, cycles, tmp1, tmp2, resume, count, begun, retries>>

WriteHi ==
    /\ Access("write_hi") /\ Room
    /\ CountLo /\ hi' = cycles \div Lo
    /\ now' = Lo * hi' + (lo' % Lo)
    /\ pc' = "write_lo"
    /\ UNCHANGED <<call, cycles, tmp1, tmp2, resume, count, begun, retries>>

\* with the last word the counter is worth what it was set to
WriteLo ==
    /\ Access("write_lo") /\ Room
    /\ lo' = cycles % Lo /\ msb_ff' = 0 /\ CountHi
    /\ now' = cycles
    /\ pc' = "idle"
    /\ UNCHANGED <<call, cycles, tmp1, tmp2, resume, count, begun, retries>>

\* neorv32_cpu_delay_ms: the time is read, and read again until it is over
Delay ==
    /\ Begin("delay", "read_hi")
    /\ resume' \in Delays
    /\ UNCHANGED cycles

Return ==
    /\ Access("got") /\ Clock
    /\ begun' = now /\ retries' = 0
    /\ resume' = IF call = "delay" THEN cycles + resume ELSE resume
    /\ IF call = "delay" \/ (call = "wait" /\ cycles < resume)
       THEN call' = "wait" /\ pc' = "read_hi"
       ELSE call' = "none" /\ pc' = "idle"
    /\ UNCHANGED <<cycles, tmp1, tmp2, count>>

End == ~Room /\ UNCHANGED vars

Next ==
    \/ Wait \/ GetTime \/ ReadHi \/ ReadLo \/ ReadHiAgain \/ SetTime \/ ClearLo
    \/ WriteHi \/ WriteLo \/ Delay \/ Return \/ End

Spec == Init /\ [][Next]_vars
-----------------------------------------------------------------------------
TypeOK ==
    /\ lo \in 0 .. 2 * Lo - 1 /\ msb_ff \in {0, 1} /\ hi \in 0 .. Hi - 1
    /\ pc \in {"idle", "read_hi", "read_lo", "read_hi_again", "got", "clear_lo", "write_hi",
               "write_lo"}
    /\ gap \in 0 .. MaxGap /\ now \in 0 .. Lo * Hi - 1

\* What is read is what the counter was worth at some clock of the reading,
\* with a carry anywhere in it, and it goes back for the high word once at most.
ReadWhole ==
    /\ pc = "got" => begun <= cycles /\ cycles <= now
    /\ retries <= 1

\* The words are worth what was last set and the clocks since, but for the
\* carry of the last clock, whatever the low word was about to do.
Exact == now = Lo * (hi + (IF msb_ff # Carry THEN 1 ELSE 0)) + (lo % Lo)
=============================================================================
