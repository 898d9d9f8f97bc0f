----------------------------- MODULE TimeCompare -----------------------------
(***************************************************************************)
(* The interrupt of the system time: the compare register, which the       *)
(* library sets a word at a time (neorv32_mtime_set_timecmp of             *)
(* mcu/lib/source/neorv32_mtime.c), and the comparator                     *)
(* (fpga/risc-v/neorv32_mtime.vhd), which looks at the two words apart.    *)
(* The time itself runs as in LongCounter and is not set.                  *)
(***************************************************************************)
EXTENDS LongCounter

VARIABLES
    mtimecmp_lo, mtimecmp_hi,           \* the compare register
    cmp_lo_ff, cmp_match_ff, irq_o,     \* the comparator, and its pulse
    todo,           \* words the library still has to write
    timecmp,        \* the time it was given
    since,          \* history: when it was written
    triggered       \* history: there was a pulse since the call

library == <<pc, call, cycles, tmp1, tmp2, resume, gap, begun, retries>>
timerVars ==
    <<vars, mtimecmp_lo, mtimecmp_hi, cmp_lo_ff, cmp_match_ff, irq_o, todo, timecmp, since,
      triggered>>

TimerInit ==
    /\ Init
    /\ mtimecmp_lo = 0 /\ mtimecmp_hi = 0
    /\ cmp_lo_ff = TRUE /\ cmp_match_ff = TRUE /\ irq_o = FALSE
    /\ todo = {} /\ timecmp = 0 /\ since = 0 /\ triggered = TRUE
-----------------------------------------------------------------------------
\* the processes of the comparator and of the time, in one clock
Compare ==
    LET cmp_hi == hi >= mtimecmp_hi
    IN  /\ Clock
        /\ cmp_lo_ff' = (lo % Lo >= mtimecmp_lo)
        /\ cmp_match_ff' = (cmp_lo_ff /\ cmp_hi)
        /\ irq_o' = (cmp_lo_ff /\ cmp_hi /\ ~cmp_match_ff)
        /\ UNCHANGED library

Rest ==
    /\ Compare
    /\ triggered' = (triggered \/ irq_o')
    /\ UNCHANGED <<count, mtimecmp_lo, mtimecmp_hi, todo, timecmp, since>>

\* neorv32_mtime_set_timecmp: ones in the low word first
SetTimecmp ==
    /\ todo = {} /\ count < MaxCalls
    /\ Compare
    /\ timecmp' \in Times
    /\ mtimecmp_lo' = Lo - 1 /\ todo' = {"lo", "hi"}
    /\ count' = count + 1 /\ triggered' = FALSE
    /\ UNCHANGED <<mtimecmp_hi, since>>

\* and then the two words, in the order the compiler chose
WriteWord(word) ==
    /\ word \in todo
    /\ Compare
    /\ mtimecmp_lo' = IF word = "lo" THEN timecmp % Lo ELSE mtimecmp_lo
    /\ mtimecmp_hi' = IF word = "hi" THEN timecmp \div Lo ELSE mtimecmp_hi
    /\ todo' = todo \ {word}
    /\ since' = now'
    /\ triggered' = (triggered \/ irq_o')
    /\ UNCHANGED <<count, timecmp>>

TimerEnd == ~Room /\ UNCHANGED timerVars

TimerNext == Rest \/ SetTimecmp \/ (\E word \in {"lo", "hi"} : WriteWord(word)) \/ TimerEnd

TimerSpec == TimerInit /\ [][TimerNext]_timerVars
-----------------------------------------------------------------------------
\* "The interrupt is triggered when MTIME >= MTIMECMP" (neorv32_mtime.c:121):
\* from some clocks after the register was written and its time has come,
\* there has been an interrupt since the call.
TriggeredWhenReached ==
    count > 0 /\ todo = {} /\ now >= since + 4 /\ now >= timecmp + 4 => triggered
=============================================================================
