----------------------------- MODULE MCMemories -----------------------------
(***************************************************************************)
(* The three memories of the processor side by side: the graphics memory   *)
(* (SdramIo), the flash memory (FlashIo), and its own (McuWram).  They     *)
(* share no state, so that TLC goes through them one after the other: in a *)
(* behaviour the one that "which" names is at work.                        *)
(***************************************************************************)
EXTENDS SdramIo

CONSTANTS Longs, Delays

VARIABLES
    which,
    flash_oe, flash_addr, flash_held, flash_cpu_oe_st, flash_addr0, flash_addr1,
    flash_cpu_ack, flash_cpu_delay, flash_cpu_dati_st, flash_pins, flash_age,
    flash_mem, flash_request, flash_mcu_ack, flash_delay, flash_state, flash_mcu_a1,
    flash_mcu_dati,
    SRM_DELAY, wram_request, ack, wram_state, wram_idle, wram_delay, wram_addr1,
    dati_lo, dati_hi, before, wram_mem, old, result

Flash == INSTANCE FlashIo WITH
    oe <- flash_oe, addr <- flash_addr, held <- flash_held,
    cpu_oe_st <- flash_cpu_oe_st, addr0 <- flash_addr0, addr1 <- flash_addr1,
    cpu_ack <- flash_cpu_ack, cpu_delay <- flash_cpu_delay,
    cpu_dati_st <- flash_cpu_dati_st, pins <- flash_pins, age <- flash_age,
    mem <- flash_mem, request <- flash_request, mcu_ack <- flash_mcu_ack,
    delay <- flash_delay, state <- flash_state, mcu_a1 <- flash_mcu_a1,
    mcu_dati <- flash_mcu_dati

Wram == INSTANCE McuWram WITH
    request <- wram_request, state <- wram_state, idle <- wram_idle,
    delay <- wram_delay, addr1 <- wram_addr1, mem <- wram_mem

ASSUME MemoriesAssumption == Wram!WramAssumption

flashVars ==
    <<flash_oe, flash_addr, flash_held, flash_cpu_oe_st, flash_addr0, flash_addr1,
      flash_cpu_ack, flash_cpu_delay, flash_cpu_dati_st, flash_pins, flash_age, flash_mem,
      flash_request, flash_mcu_ack, flash_delay, flash_state, flash_mcu_a1, flash_mcu_dati>>
wramVars ==
    <<SRM_DELAY, wram_request, ack, wram_state, wram_idle, wram_delay, wram_addr1,
      dati_lo, dati_hi, before, wram_mem, old, result>>
allVars == <<which, vars, flashVars, wramVars>>

\* the parameter of one memory is no choice for the others
MemoriesInit ==
    /\ which \in {"sdram", "flash", "wram"}
    /\ Init /\ Flash!Init /\ Wram!Init
    /\ which # "wram" => SRM_DELAY = 0

SdramClock == which = "sdram" /\ Clock /\ UNCHANGED <<which, flashVars, wramVars>>
FlashClock == which = "flash" /\ Flash!Clock /\ UNCHANGED <<which, vars, wramVars>>
WramClock == which = "wram" /\ Wram!Clock /\ UNCHANGED <<which, vars, flashVars>>

MemoriesNext == SdramClock \/ FlashClock \/ WramClock

MemoriesSpec ==
    /\ MemoriesInit /\ [][MemoriesNext]_allVars
    /\ WF_allVars(MemoriesNext)
-----------------------------------------------------------------------------
\* What the processor reads from the graphics memory and from the flash is
\* what is there, and a write of it is complete when it is acknowledged and
\* touches no other word, however often the console takes the memory away in
\* the middle of it.
ProcessorAccesses ==
    TypeOK /\ Flash!TypeOK /\ McuReads /\ Flash!McuReads /\ McuWrites /\ NothingElse

\* The console is given in time the words it asks for, one after the other
\* from where its pointer was set or at its addresses, whatever the processor
\* does.
ConsoleReads == CpuReads /\ Flash!CpuReads

\* The processor's own memory: a read gives the whole long word, a write
\* changes the words that are selected and no other, and the pins rest under
\* the write strobe.
OwnMemoryWhole ==
    [](Wram!TypeOK /\ Wram!StrobeApart) /\ Wram!ReadWhole /\ Wram!WriteWhole

\* A console that reads all the time does not keep the processor from either
\* memory.
ProcessorServed == McuServed /\ Flash!McuServed
=============================================================================
