-------------------------- MODULE MCMemories_proofs --------------------------
(***************************************************************************)
(* Proofs about the three memories of the processor, for memories of any   *)
(* size and speed, any addresses the console reads, any time it holds them *)
(* from BusAssumption on, and any accesses of the processor.               *)
(***************************************************************************)
EXTENDS MCMemories, TLAPS

USE BusAssumption

(***************************************************************************)
(* The graphics memory.                                                    *)
(***************************************************************************)
CpuPins == [addr |-> cpu_ptr, oe |-> TRUE, we |-> FALSE, data |-> Garbage]

\* What is typed, and an access and the pointer are for words there are.
Types ==
    /\ TypeOK
    /\ request.op # "none" => 2 * request.addr + 1 < Words
    /\ mem \in [Address -> Nat] /\ mcu_dati \in Nat \X Nat /\ expected \in Address
    /\ disturbed \in BOOLEAN

\* What cpu_rdx has seen of the bus, by the clocks since it last changed; and
\* the pointer is not set meanwhile.
BusSeen ==
    /\ oe =>
        /\ held = 1 => ~cpu_oe_st[1]
        /\ held >= 2 => cpu_oe_st[1] /\ request.op # "pointer"
        /\ held >= 3 => cpu_oe_st[2] /\ addr0 = addr
        /\ held >= 4 => cpu_oe_st[3] /\ addr1 = addr
    /\ ~oe =>
        /\ held = 1 => cpu_oe_st = <<TRUE, TRUE, TRUE>> /\ request.op # "pointer"
        /\ held = 2 => cpu_oe_st = <<FALSE, TRUE, TRUE>>
        /\ held >= 3 => ~cpu_oe_st[1] /\ ~cpu_oe_st[2]

\* The pointer follows the word the console ought to be given by two clocks.
Moving == (~oe /\ held = 1) \/ cpu_oe_st = <<FALSE, TRUE, TRUE>>
PointerFollows == expected = IF Moving THEN (cpu_ptr + 1) % Words ELSE cpu_ptr

\* How far a read of the console has come: the memory has its pins from the
\* second clock on, and what was latched after MemTime of them stays true.
ReadUnderWay ==
    /\ oe =>
        /\ held = 2 => ~cpu_ack /\ cpu_delay = MemTime
        /\ held = 3 => ~cpu_ack
        /\ held >= 2 /\ ~cpu_ack => cpu_delay + held >= MemTime + 2
        /\ held >= 3 /\ ~cpu_ack => pins = CpuPins /\ (age >= held - 2 \/ age = MemTime)
        /\ held >= 2 /\ cpu_ack /\ ~disturbed => cpu_dati_st = mem[expected]
    /\ request.op = "write" /\ expected \in Pair(request.addr) => disturbed

\* How far an access of the processor has come: its pins have been there since
\* the delay began, and a word that is done is done.
WordDone(k) ==
    /\ request.op = "read" => mcu_dati[k + 1] = mem[2 * request.addr + k]
    /\ request.op = "write" => mem[2 * request.addr + k] = New(2 * request.addr + k)

AccessUnderWay ==
    /\ ~mcu_ce => state \in {0, 4}
    /\ idle <=> state \in {2, 4}
    /\ state \in {0, 2, 4} => delay = 0
    /\ mcu_a1 = IF state \in {3, 4} THEN 1 ELSE 0
    /\ mcu_ce /\ state \in {1, 3} /\ delay < MemTime - 1 => pins = McuPins /\ age >= MemTime - 1 - delay
    /\ mcu_ce /\ state >= 2 => WordDone(0)
    /\ mcu_ce /\ state = 4 => WordDone(1)

SdramIInv ==
    Types /\ BusSeen /\ PointerFollows /\ ReadUnderWay /\ AccessUnderWay /\ NothingElse

LEMMA Bounds ==
    /\ MemTime \in Nat /\ MemTime > 0 /\ Words \in Nat /\ Words > 0
    /\ Hold \in Nat /\ Hold >= MemTime + 4 /\ Gap \in Nat
    /\ CpuAddress \subseteq Address /\ Garbage \in Nat
BY DEF Address, Garbage

\* The words of a pair that is in the memory.
LEMMA InAddress ==
    \A a \in Nat, k \in {0, 1} : 2 * a + 1 < Words => 2 * a + k \in Address
BY Bounds DEF Address

\* A clock less of the delay and a clock more of the read.
LEMMA Sums ==
    \A n \in Nat : /\ n >= 2 => MemTime + n >= MemTime + 2
                   /\ n >= MemTime - 1 => n + 3 >= MemTime + 2
BY Bounds

\* The pointer wraps at the end of the memory.
LEMMA NextWord == \A n \in Address : (n + 1) % Words \in Address
BY Bounds DEF Address

\* The memory has had its pins for a clock more, or for the first.
LEMMA AgeStep ==
    ASSUME age \in 1 .. MemTime, NEW now
    PROVE  /\ Age(now) \in 1 .. MemTime
           /\ now = pins => Age(now) > age \/ Age(now) = MemTime
BY Bounds DEF Age

\* Who has the memory decides what is at its pins.
LEMMA PinsBy ==
    /\ cpu_master /\ oe => Pins = CpuPins
    /\ cpu_master => ~Pins.we
    /\ ~cpu_master =>
           /\ Pins = McuPins
           /\ Pins.addr = 2 * request.addr + mcu_a1
           /\ Pins.oe = (~idle /\ request.op = "read")
           /\ Pins.we = (~idle /\ request.op = "write")
           /\ Pins.data = New(2 * request.addr + mcu_a1)
<1>1. ASSUME cpu_master, oe PROVE Pins = CpuPins
  BY <1>1 DEF Pins, NoPins, CpuPins
<1>2. ASSUME cpu_master PROVE ~Pins.we
  BY <1>2 DEF Pins, NoPins
<1>3. ASSUME ~cpu_master
      PROVE  /\ Pins = McuPins
             /\ Pins.addr = 2 * request.addr + mcu_a1
             /\ Pins.oe = (~idle /\ request.op = "read")
             /\ Pins.we = (~idle /\ request.op = "write")
             /\ Pins.data = New(2 * request.addr + mcu_a1)
  BY <1>3 DEF Pins, McuPins
<1> QED
  BY <1>1, <1>2, <1>3

\* Only a write of the processor changes the memory, one word of it, and that
\* word is written once it had its time.
LEMMA MemoryStep ==
    ASSUME Types, AccessUnderWay, MemoryClock(Pins)
    PROVE  /\ mem' \in [Address -> Nat]
           /\ \A a \in Address : mem'[a] # mem[a] =>
                  /\ request.op = "write" /\ ~idle /\ ~cpu_master
                  /\ a = 2 * request.addr + mcu_a1
                  /\ mem'[a] \in {New(a), Garbage}
           /\ request.op = "write" /\ ~idle /\ ~cpu_master /\ Age(Pins) >= MemTime =>
                  mem'[2 * request.addr + mcu_a1] = New(2 * request.addr + mcu_a1)
<1>T. /\ mem \in [Address -> Nat] /\ request.addr \in Nat
      /\ mcu_a1 \in {0, 1} /\ (request.op # "none" => 2 * request.addr + 1 < Words)
  BY DEF Types, TypeOK, Address
<1>1. mem' = IF Pins.we
             THEN [mem EXCEPT ![Pins.addr] = IF Age(Pins) >= MemTime THEN Pins.data ELSE Garbage]
             ELSE mem
  BY DEF MemoryClock
<1>2. CASE ~Pins.we
  <2>1. mem' = mem
    BY <1>1, <1>2
  <2>2. ~(request.op = "write" /\ ~idle /\ ~cpu_master)
    BY <1>2, PinsBy
  <2> QED
    BY <1>T, <2>1, <2>2
<1>3. CASE Pins.we
  <2>1. /\ request.op = "write" /\ ~idle /\ ~cpu_master
        /\ Pins.addr = 2 * request.addr + mcu_a1
        /\ Pins.data = New(2 * request.addr + mcu_a1)
    BY <1>3, PinsBy
  <2>2. PICK w \in Address : w = 2 * request.addr + mcu_a1
    <3>1. request.addr \in Nat /\ 2 * request.addr + 1 < Words /\ mcu_a1 \in {0, 1}
      BY <1>T, <2>1
    <3>2. 2 * request.addr + mcu_a1 \in Address
      BY <3>1, InAddress
    <3> QED
      BY <3>2
  <2>3. New(w) \in Nat
    BY Bounds DEF New, Address
  <2>4. PICK v \in Nat : v = IF Age(Pins) >= MemTime THEN New(w) ELSE Garbage
    BY <2>3, Bounds
  <2>5. mem' = [mem EXCEPT ![w] = v]
    BY <1>1, <1>3, <2>1, <2>2, <2>4
  <2>6. /\ mem' \in [Address -> Nat] /\ mem'[w] = v
        /\ \A a \in Address : mem'[a] # mem[a] => a = w
    BY <1>T, <2>5
  <2>7. v \in {New(w), Garbage} /\ (Age(Pins) >= MemTime => v = New(w))
    BY <2>4
  <2> QED
    BY <2>1, <2>2, <2>6, <2>7
<1> QED
  BY <1>2, <1>3

\* What the processor may ask for next.
LEMMA RequestStep ==
    ASSUME Types, AccessUnderWay, Processor
    PROVE  /\ request'.op \in {"none", "read", "write", "pointer"} /\ request'.addr \in Address
           /\ request'.op # "none" => 2 * request'.addr + 1 < Words
           /\ request'.op = "pointer" => ~oe
           /\ mcu_ce' => ~mcu_ack /\ (mcu_ce => request' = request)
           /\ ~mcu_ce' => mcu_ack \/ ~mcu_ce
<1>T. /\ request.op \in {"none", "read", "write", "pointer"} /\ request.addr \in Address
      /\ request.op # "none" => 2 * request.addr + 1 < Words
  BY DEF Types, TypeOK
<1>1. CASE (mcu_ack \/ request.op = "pointer") /\ request' = None
  <2>1. request'.op = "none" /\ request'.addr \in Address
    BY <1>1, Bounds DEF None, Address
  <2>2. ~mcu_ce' /\ (mcu_ack \/ ~mcu_ce)
    BY <1>1, <2>1 DEF mcu_ce
  <2> QED
    BY <2>1, <2>2
<1>2. CASE ~mcu_ack /\ mcu_ce /\ request' = request
  <2>1. request.op # "pointer" /\ (mcu_ce' <=> mcu_ce)
    BY <1>2 DEF mcu_ce
  <2> QED
    BY <1>2, <1>T, <2>1
<1>3. ASSUME ~mcu_ack, request.op = "none",
             NEW o \in {"none", "read", "write", "pointer"}, NEW a \in 0 .. Words \div 2 - 1,
             Accesses(o), request' = [op |-> o, addr |-> a]
      PROVE  /\ request'.op = o /\ request'.addr \in Address
             /\ 2 * request'.addr + 1 < Words
             /\ o = "pointer" => ~oe
             /\ ~mcu_ce /\ ~mcu_ack
  BY <1>3, Bounds DEF Address, Accesses, mcu_ce
<1> QED
  BY <1>1, <1>2, <1>3 DEF Processor

\* What a read gives is a word of the memory, or nothing.
LEMMA AnswerType ==
    ASSUME Types, cpu_ptr \in Address, mcu_a1 \in {0, 1}
    PROVE  Answer(Pins) \in Nat
<1>1. Garbage \in Nat
  BY Bounds
<1>2. CASE Pins.oe
  <2>1. Pins.addr \in Address
    <3>1. CASE cpu_master
      BY <3>1 DEF Pins
    <3>2. CASE ~cpu_master
      <4>1. request.op = "read" /\ Pins.addr = 2 * request.addr + mcu_a1
        BY <1>2, <3>2, PinsBy
      <4>2. request.op # "none"
        BY <4>1
      <4>3. request.addr \in Nat /\ 2 * request.addr + 1 < Words
        <5>1. request.addr \in Nat
          BY DEF Types, TypeOK, Address
        <5> QED
          BY <4>2, <5>1 DEF Types
      <4>4. 2 * request.addr + mcu_a1 \in Address
        BY <4>3, InAddress
      <4> QED
        BY <4>1, <4>4
    <3> QED
      BY <3>1, <3>2
  <2>2. mem[Pins.addr] \in Nat
    BY <2>1 DEF Types
  <2> QED
    BY <1>1, <2>2 DEF Answer
<1>3. CASE ~Pins.oe
  BY <1>1, <1>3 DEF Answer
<1> QED
  BY <1>2, <1>3

\* The clock of cpu_rdx and of the memory keeps to the types.
LEMMA RdxTypes ==
    ASSUME Types, AccessUnderWay, Clock
    PROVE  RdxTypeOK'
<1>T. /\ RdxTypeOK /\ cpu_ptr \in Address /\ mcu_a1 \in {0, 1}
  BY DEF Types, TypeOK
<1>1. RdxClock(Answer(Pins)) /\ MemoryClock(Pins) /\ Bus
  BY DEF Clock
<1>2. oe' \in BOOLEAN /\ addr' \in Address /\ held' \in 1 .. Hold
  <2>0. oe \in BOOLEAN /\ addr \in Address /\ held \in 1 .. Hold
    BY <1>T DEF RdxTypeOK
  <2>1. CASE BusStays
    BY <2>0, <2>1, Bounds DEF BusStays
  <2>2. CASE ReadBegins
    BY <2>2, Bounds DEF ReadBegins
  <2>3. CASE AddressSettles
    BY <2>0, <2>3, Bounds DEF AddressSettles
  <2>4. CASE ReadEnds
    <3>1. 1 \in 1 .. Hold
      BY Bounds
    <3> QED
      BY <2>0, <2>4, <3>1, Zenon DEF ReadEnds
  <2> QED
    BY <1>1, <2>1, <2>2, <2>3, <2>4 DEF Bus
<1>3. cpu_oe_st' \in BOOLEAN \X BOOLEAN \X BOOLEAN
  BY <1>1, <1>T DEF RdxClock, RdxTypeOK
<1>4. addr0' \in Address /\ addr1' \in Address
  BY <1>1, <1>T DEF RdxClock, RdxTypeOK
<1>5. cpu_ack' \in BOOLEAN /\ cpu_delay' \in 0 .. MemTime
  <2>0. cpu_ack \in BOOLEAN /\ cpu_delay \in 0 .. MemTime
    BY <1>T DEF RdxTypeOK
  <2>1. CASE ~cpu_oe_st[1] \/ addr1 # addr0
    <3>1. cpu_ack' = FALSE /\ cpu_delay' = MemTime
      BY <1>1, <2>1 DEF RdxClock
    <3>2. MemTime \in 0 .. MemTime
      BY Bounds
    <3> QED
      BY <3>1, <3>2, Zenon
  <2>2. CASE ~(~cpu_oe_st[1] \/ addr1 # addr0) /\ cpu_delay > 0
    <3>1. cpu_ack' = cpu_ack /\ cpu_delay' = cpu_delay - 1
      BY <1>1, <2>2 DEF RdxClock
    <3> QED
      BY <2>0, <2>2, <3>1, Bounds
  <2>3. CASE ~(~cpu_oe_st[1] \/ addr1 # addr0) /\ ~(cpu_delay > 0)
    <3>1. cpu_ack' = TRUE /\ cpu_delay' = cpu_delay
      BY <1>1, <2>3 DEF RdxClock
    <3> QED
      BY <2>0, <3>1
  <2> QED
    BY <2>1, <2>2, <2>3
<1>6. age' \in 1 .. MemTime
  BY <1>1, <1>T, AgeStep DEF MemoryClock, RdxTypeOK
<1> QED
  BY <1>2, <1>3, <1>4, <1>5, <1>6 DEF RdxTypeOK

\* The arbiter by its states: what each step does, whatever it is called.
LEMMA ArbiterStep ==
    ASSUME Types, AccessUnderWay, Arbiter
    PROVE  \/ /\ ~mcu_ce /\ state' = 0 /\ idle' = FALSE /\ mcu_ack' = FALSE
              /\ delay' = 0 /\ mcu_a1' = 0 /\ mcu_dati' = mcu_dati
           \/ /\ mcu_ce /\ state' = state /\ idle' = idle /\ mcu_ack' = mcu_ack
              /\ mcu_a1' = mcu_a1 /\ mcu_dati' = mcu_dati
              /\ \/ state # 0 /\ delay' = (IF idle THEN 0 ELSE MemTime - 1)
                 \/ state \in {1, 3} /\ ~cpu_master /\ delay > 0 /\ delay' = delay - 1
                 \/ state = 4 /\ delay' = delay
           \/ /\ mcu_ce /\ state \in {0, 2} /\ state' = state + 1 /\ idle' = FALSE
              /\ delay' = MemTime - 1 /\ mcu_a1' = (IF state = 0 THEN 0 ELSE 1)
              /\ mcu_ack' = mcu_ack /\ ~mcu_ack /\ mcu_dati' = mcu_dati
           \/ /\ mcu_ce /\ state \in {1, 3} /\ state' = state + 1 /\ idle' = TRUE
              /\ ~cpu_master /\ delay = 0 /\ delay' = 0 /\ mcu_a1' = mcu_a1
              /\ mcu_ack' = (state = 3) /\ ~mcu_ack
              /\ mcu_dati' = [mcu_dati EXCEPT ![IF state = 1 THEN 1 ELSE 2] = Answer(Pins)]
<1>T. /\ mcu_ack \in BOOLEAN /\ idle \in BOOLEAN /\ delay \in 0 .. MemTime - 1
      /\ state \in 0 .. 4 /\ (mcu_ack <=> state = 4) /\ (idle <=> state \in {2, 4})
      /\ (state \in {0, 2, 4} => delay = 0)
  BY DEF Types, TypeOK, AccessUnderWay
<1>1. CASE NoAccess
  BY <1>1 DEF NoAccess
<1>2. CASE Interrupted
  BY <1>2 DEF Interrupted
<1>3. CASE Waiting
  <2>1. state \in {1, 3} /\ ~cpu_master
    BY <1>3, <1>T, Bounds DEF Waiting
  <2> QED
    BY <1>3, <2>1 DEF Waiting
<1>4. CASE Begin(0, 0)
  BY <1>4, <1>T DEF Begin, Step
<1>5. CASE Begin(2, 1)
  BY <1>5, <1>T DEF Begin, Step
<1>6. CASE End(1, 1)
  BY <1>6, <1>T DEF End, Step
<1>7. CASE End(3, 2)
  BY <1>7, <1>T DEF End, Step
<1>8. CASE Over
  BY <1>8, <1>T DEF Over, Step, arbiterVars
<1> QED
  BY <1>1, <1>2, <1>3, <1>4, <1>5, <1>6, <1>7, <1>8 DEF Arbiter

LEMMA TypesStep ==
    ASSUME Types, AccessUnderWay, Clock
    PROVE  Types'
<1>T. /\ RdxTypeOK /\ cpu_ptr \in Address /\ mcu_a1 \in {0, 1} /\ expected \in Address
      /\ mcu_ack \in BOOLEAN /\ idle \in BOOLEAN /\ delay \in 0 .. MemTime - 1
      /\ state \in 0 .. 4 /\ (mcu_ack <=> state = 4) /\ mcu_dati \in Nat \X Nat
      /\ disturbed \in BOOLEAN
      /\ request.op # "none" => 2 * request.addr \in Address
  BY Bounds DEF Types, TypeOK, Address
<1>1. Arbiter /\ Pointer /\ MemoryClock(Pins) /\ Processor /\ Bus
  BY DEF Clock
<1>2. RdxTypeOK'
  BY RdxTypes
<1>3. /\ request'.op \in {"none", "read", "write", "pointer"} /\ request'.addr \in Address
      /\ request'.op # "none" => 2 * request'.addr + 1 < Words
  BY <1>1, RequestStep
<1>4. /\ mcu_ack' \in BOOLEAN /\ idle' \in BOOLEAN /\ mcu_a1' \in {0, 1}
      /\ delay' \in 0 .. MemTime - 1 /\ state' \in 0 .. 4
      /\ (mcu_ack' <=> state' = 4)
  <2> DEFINE d == delay' \in 0 .. MemTime - 1
  <2>1. 0 \in 0 .. MemTime - 1 /\ MemTime - 1 \in 0 .. MemTime - 1
        /\ (delay > 0 => delay - 1 \in 0 .. MemTime - 1)
    BY <1>T, Bounds
  <2>2. d
    BY <1>1, <1>T, <2>1, ArbiterStep
  <2>3. /\ mcu_ack' \in BOOLEAN /\ idle' \in BOOLEAN /\ mcu_a1' \in {0, 1}
        /\ state' \in 0 .. 4 /\ (mcu_ack' <=> state' = 4)
    <3>1. \/ state' = 0 /\ ~mcu_ack' /\ mcu_ack' \in BOOLEAN
          \/ state' = state /\ mcu_ack' = mcu_ack
          \/ state \in {0, 2} /\ state' = state + 1 /\ mcu_ack' = mcu_ack /\ ~mcu_ack
          \/ /\ state \in {1, 3} /\ state' = state + 1 /\ mcu_ack' \in BOOLEAN
             /\ mcu_ack' <=> state = 3
      BY <1>1, ArbiterStep, Zenon
    <3>2. idle' \in BOOLEAN /\ mcu_a1' \in {0, 1}
      BY <1>1, <1>T, ArbiterStep, Zenon
    <3>3. state' \in 0 .. 4 /\ (mcu_ack' <=> state' = 4)
      BY <1>T, <3>1
    <3>4. mcu_ack' \in BOOLEAN
      BY <1>T, <3>1, Zenon
    <3> QED
      BY <3>2, <3>3, <3>4
  <2> QED
    BY <2>2, <2>3
<1>5. cpu_ptr' \in Address
  BY <1>1, <1>T, NextWord DEF Pointer
<1>6. mem' \in [Address -> Nat]
  BY <1>1, MemoryStep
<1>7. mcu_dati' \in Nat \X Nat
  <2>1. PICK v \in Nat : v = Answer(Pins)
    BY <1>T, AnswerType
  <2>2. \/ mcu_dati' = mcu_dati
        \/ mcu_dati' = [mcu_dati EXCEPT ![1] = v]
        \/ mcu_dati' = [mcu_dati EXCEPT ![2] = v]
    BY <1>1, <2>1, ArbiterStep
  <2> QED
    BY <1>T, <2>1, <2>2
<1>8. expected' \in Address /\ disturbed' \in BOOLEAN
  BY <1>1, <1>T, NextWord DEF Bus
<1> QED
  BY <1>2, <1>3, <1>4, <1>5, <1>6, <1>7, <1>8 DEF Types, TypeOK

\* What the clock does to what cpu_rdx has seen.
LEMMA SeenStep ==
    ASSUME RdxTypeOK, RdxClock(Answer(Pins))
    PROVE  /\ cpu_oe_st' = <<oe, cpu_oe_st[1], cpu_oe_st[2]>>
           /\ cpu_oe_st'[1] = oe /\ cpu_oe_st'[2] = cpu_oe_st[1] /\ cpu_oe_st'[3] = cpu_oe_st[2]
           /\ addr0' = addr /\ addr1' = addr0
           /\ oe \in BOOLEAN /\ held \in 1 .. Hold
           /\ cpu_oe_st[1] \in BOOLEAN /\ cpu_oe_st[2] \in BOOLEAN /\ cpu_oe_st[3] \in BOOLEAN
           /\ cpu_oe_st = <<cpu_oe_st[1], cpu_oe_st[2], cpu_oe_st[3]>>
BY DEF RdxClock, RdxTypeOK

\* The bus in a clock: it goes on, or a read begins, settles or ends.
LEMMA BusStep ==
    ASSUME RdxTypeOK, Bus
    PROVE  \/ /\ oe' = oe /\ addr' = addr /\ (held < Hold => held' = held + 1)
              /\ (held = Hold => held' = held)
           \/ ~oe /\ oe' /\ held' = 1
           \/ oe /\ held = 1 /\ oe' /\ held' = 2
           \/ oe /\ held = Hold /\ ~oe' /\ held' = 1 /\ addr' = addr
<1>T. held \in 1 .. Hold /\ oe \in BOOLEAN
  BY DEF RdxTypeOK
<1>1. CASE BusStays
  BY <1>1, <1>T, Bounds DEF BusStays
<1>2. CASE ReadBegins
  BY <1>2 DEF ReadBegins
<1>3. CASE AddressSettles
  BY <1>3 DEF AddressSettles
<1>4. CASE ReadEnds
  BY <1>4 DEF ReadEnds
<1> QED
  BY <1>1, <1>2, <1>3, <1>4 DEF Bus

LEMMA BusSeenStep ==
    ASSUME Types, AccessUnderWay, BusSeen, Clock
    PROVE  BusSeen'
<1>T. RdxTypeOK /\ RdxClock(Answer(Pins)) /\ Bus /\ Processor
  BY DEF Types, TypeOK, Clock
<1>S. /\ cpu_oe_st' = <<oe, cpu_oe_st[1], cpu_oe_st[2]>>
      /\ cpu_oe_st'[1] = oe /\ cpu_oe_st'[2] = cpu_oe_st[1] /\ cpu_oe_st'[3] = cpu_oe_st[2]
      /\ addr0' = addr /\ addr1' = addr0
      /\ oe \in BOOLEAN /\ held \in 1 .. Hold
      /\ cpu_oe_st[1] \in BOOLEAN /\ cpu_oe_st[2] \in BOOLEAN /\ cpu_oe_st[3] \in BOOLEAN
  BY <1>T, SeenStep
<1>P. oe => request'.op # "pointer"
  BY <1>T, RequestStep
<1>1. CASE /\ oe' = oe /\ addr' = addr /\ (held < Hold => held' = held + 1)
           /\ (held = Hold => held' = held)
  <2>1. CASE oe
    <3>1. held' >= 2
      BY <1>1, <1>S, Bounds
    <3>2. held' >= 3 => held >= 2
      BY <1>1, <1>S, Bounds
    <3>3. held' >= 4 => held >= 3
      BY <1>1, <1>S, Bounds
    <3>4. oe'
      BY <1>1, <2>1
    <3>5. held' >= 3 => cpu_oe_st'[2] /\ addr0' = addr'
      BY <1>1, <1>S, <2>1, <3>2 DEF BusSeen
    <3>6. held' >= 4 => cpu_oe_st'[3] /\ addr1' = addr'
      BY <1>1, <1>S, <2>1, <3>3, <3>2, Bounds DEF BusSeen
    <3>7. held' # 1
      BY <3>1
    <3> QED
      BY <2>1, <1>S, <1>P, <3>4, <3>5, <3>6, <3>7 DEF BusSeen
  <2>2. CASE ~oe
    <3>1. held' # 1
      BY <1>1, <1>S, Bounds
    <3>2. held' = 2 => held = 1
      BY <1>1, <1>S, Bounds
    <3>3. held' >= 3 => held >= 2
      BY <1>1, <1>S, Bounds
    <3>4. held' = 2 => cpu_oe_st' = <<FALSE, TRUE, TRUE>>
      <4>1. ASSUME held = 1 PROVE cpu_oe_st[1] = TRUE /\ cpu_oe_st[2] = TRUE
        <5>1. cpu_oe_st = <<TRUE, TRUE, TRUE>>
          BY <2>2, <4>1 DEF BusSeen
        <5> QED
          BY <5>1
      <4> QED
        BY <4>1, <3>2, <1>S, <2>2
    <3>5. held >= 2 => ~cpu_oe_st[1]
      <4>1. held >= 2 => held = 2 \/ held >= 3
        BY <1>S
      <4>2. ASSUME held = 2 PROVE cpu_oe_st[1] = FALSE
        <5>1. cpu_oe_st = <<FALSE, TRUE, TRUE>>
          BY <2>2, <4>2 DEF BusSeen
        <5> QED
          BY <5>1
      <4> QED
        BY <4>1, <4>2, <2>2 DEF BusSeen
    <3>6. ~oe'
      BY <1>1, <2>2
    <3> QED
      BY <1>S, <2>2, <3>1, <3>3, <3>4, <3>5, <3>6 DEF BusSeen
  <2> QED
    BY <1>S, <2>1, <2>2
<1>2. CASE ~oe /\ oe' /\ held' = 1
  BY <1>2, <1>S DEF BusSeen
<1>3. CASE oe /\ held = 1 /\ oe' /\ held' = 2
  BY <1>3, <1>S, <1>P DEF BusSeen
<1>4. CASE oe /\ held = Hold /\ ~oe' /\ held' = 1
  <2>1. held >= 4 /\ held >= 3 /\ held >= 2
    BY <1>4, Bounds
  <2>2. cpu_oe_st[1] /\ cpu_oe_st[2]
    BY <1>4, <2>1 DEF BusSeen
  <2>3. cpu_oe_st' = <<TRUE, TRUE, TRUE>>
    BY <1>4, <1>S, <2>2
  <2> QED
    BY <1>4, <1>P, <2>3 DEF BusSeen
<1> QED
  BY <1>T, <1>1, <1>2, <1>3, <1>4, BusStep

\* The pointer is set for both at once, and moves on two clocks after the end
\* of a read: before the next read needs it.
LEMMA PointerStep ==
    ASSUME Types, AccessUnderWay, BusSeen, PointerFollows, Clock
    PROVE  PointerFollows'
<1>T. RdxTypeOK /\ RdxClock(Answer(Pins)) /\ Bus /\ Pointer
  BY DEF Types, TypeOK, Clock
<1>S. /\ cpu_oe_st' = <<oe, cpu_oe_st[1], cpu_oe_st[2]>>
      /\ oe \in BOOLEAN /\ held \in 1 .. Hold
      /\ cpu_oe_st[1] \in BOOLEAN /\ cpu_oe_st[2] \in BOOLEAN
      /\ cpu_oe_st = <<cpu_oe_st[1], cpu_oe_st[2], cpu_oe_st[3]>>
  BY <1>T, SeenStep
<1>1. ReadEnds => oe /\ held = Hold /\ ~oe' /\ held' = 1
  BY DEF ReadEnds
<1>2. ~oe' /\ held' = 1 => ReadEnds
  <2>1. BusStays /\ ~oe' => held' # 1
    BY <1>S, Bounds DEF BusStays
  <2> QED
    BY <1>T, <2>1 DEF Bus, ReadBegins, AddressSettles
<1>3. cpu_oe_st' = <<FALSE, TRUE, TRUE>> <=> ~oe /\ cpu_oe_st[1] /\ cpu_oe_st[2]
  BY <1>S
<1>4. ~oe /\ cpu_oe_st[1] /\ cpu_oe_st[2] <=> ~oe /\ held = 1
  <2>1. ASSUME ~oe, held = 1 PROVE cpu_oe_st[1] /\ cpu_oe_st[2]
    <3>1. cpu_oe_st = <<TRUE, TRUE, TRUE>>
      BY <2>1 DEF BusSeen
    <3> QED
      BY <3>1
  <2>2. ASSUME ~oe, held = 2 PROVE ~cpu_oe_st[1]
    <3>1. cpu_oe_st = <<FALSE, TRUE, TRUE>>
      BY <2>2 DEF BusSeen
    <3> QED
      BY <3>1
  <2>3. ASSUME ~oe, held >= 3 PROVE ~cpu_oe_st[1]
    BY <2>3 DEF BusSeen
  <2>4. held = 1 \/ held = 2 \/ held >= 3
    BY <1>S
  <2> QED
    BY <2>1, <2>2, <2>3, <2>4
<1>5. Moving' <=> ReadEnds \/ (~oe /\ held = 1)
  BY <1>1, <1>2, <1>3, <1>4 DEF Moving
<1>6. expected' = IF request.op = "pointer" THEN 2 * request.addr
                  ELSE IF ReadEnds THEN (expected + 1) % Words
                  ELSE expected
  BY <1>T DEF Bus
<1>7. cpu_ptr' = IF request.op = "pointer" THEN 2 * request.addr
                 ELSE IF cpu_oe_st = <<FALSE, TRUE, TRUE>> THEN (cpu_ptr + 1) % Words
                 ELSE cpu_ptr
  BY <1>T DEF Pointer
<1>8. ReadEnds \/ (~oe /\ held = 1) => request.op # "pointer" /\ cpu_oe_st # <<FALSE, TRUE, TRUE>>
  <2>1. ASSUME ReadEnds PROVE request.op # "pointer" /\ cpu_oe_st # <<FALSE, TRUE, TRUE>>
    <3>1. oe /\ held >= 2
      BY <1>1, <2>1, Bounds
    <3>2. cpu_oe_st[1] /\ request.op # "pointer"
      BY <3>1 DEF BusSeen
    <3>3. ASSUME cpu_oe_st = <<FALSE, TRUE, TRUE>> PROVE cpu_oe_st[1] = FALSE
      BY <3>3
    <3> QED
      BY <3>2, <3>3
  <2>2. ASSUME ~oe, held = 1 PROVE request.op # "pointer" /\ cpu_oe_st # <<FALSE, TRUE, TRUE>>
    <3>1. cpu_oe_st = <<TRUE, TRUE, TRUE>> /\ request.op # "pointer"
      BY <2>2 DEF BusSeen
    <3> QED
      BY <3>1
  <2> QED
    BY <2>1, <2>2
<1>9. CASE request.op = "pointer"
  BY <1>5, <1>6, <1>7, <1>8, <1>9 DEF PointerFollows
<1>10. CASE request.op # "pointer" /\ ReadEnds
  <2>1. ~Moving
    BY <1>1, <1>8, <1>10 DEF Moving
  <2> QED
    BY <1>5, <1>6, <1>7, <1>8, <1>10, <2>1 DEF PointerFollows
<1>11. CASE request.op # "pointer" /\ ~ReadEnds /\ ~oe /\ held = 1
  <2>1. Moving
    BY <1>11 DEF Moving
  <2> QED
    BY <1>5, <1>6, <1>7, <1>8, <1>11, <2>1 DEF PointerFollows
<1>12. CASE request.op # "pointer" /\ ~ReadEnds /\ ~(~oe /\ held = 1)
  <2>1. Moving <=> cpu_oe_st = <<FALSE, TRUE, TRUE>>
    BY <1>12 DEF Moving
  <2> QED
    BY <1>5, <1>6, <1>7, <1>12, <2>1 DEF PointerFollows
<1> QED
  BY <1>9, <1>10, <1>11, <1>12

LEMMA ReadStep ==
    ASSUME Types, AccessUnderWay, BusSeen, PointerFollows, ReadUnderWay, Clock
    PROVE  ReadUnderWay'
<1>T. /\ RdxTypeOK /\ RdxClock(Answer(Pins)) /\ MemoryClock(Pins) /\ Bus /\ Pointer
      /\ age \in 1 .. MemTime /\ cpu_ack \in BOOLEAN /\ cpu_delay \in 0 .. MemTime
      /\ disturbed \in BOOLEAN /\ expected \in Address
  BY DEF Types, TypeOK, RdxTypeOK, Clock
<1>S. /\ oe \in BOOLEAN /\ held \in 1 .. Hold /\ cpu_oe_st[1] \in BOOLEAN
      /\ cpu_oe_st'[1] = oe
  BY <1>T, SeenStep
<1>D. request'.op = "write" /\ expected' \in Pair(request'.addr) => disturbed'
  BY <1>T DEF Bus
<1>M. /\ \A a \in Address : mem'[a] # mem[a] =>
             request.op = "write" /\ ~cpu_master /\ a = 2 * request.addr + mcu_a1
  BY <1>T, MemoryStep
<1>1. CASE oe /\ oe'
  <2>1. (held < Hold => held' = held + 1) /\ (held = Hold => held' = Hold)
    BY <1>T, <1>1, BusStep, Bounds
  <2>2. held' >= 2 /\ (held' = 2 <=> held = 1) /\ (held' = 3 <=> held = 2)
        /\ (held' >= 3 <=> held >= 2)
    BY <1>S, <2>1, Bounds
  <2>3. (expected' = expected /\ cpu_ptr' = cpu_ptr /\ expected = cpu_ptr) \/ held = 1
    <3> SUFFICES ASSUME held # 1 PROVE expected' = expected /\ cpu_ptr' = cpu_ptr /\ expected = cpu_ptr
      OBVIOUS
    <3>1. held >= 2
      BY <1>S
    <3>2. cpu_oe_st[1] /\ request.op # "pointer"
      BY <1>1, <3>1 DEF BusSeen
    <3>3. cpu_oe_st # <<FALSE, TRUE, TRUE>>
      <4>1. ASSUME cpu_oe_st = <<FALSE, TRUE, TRUE>> PROVE cpu_oe_st[1] = FALSE
        BY <4>1
      <4> QED
        BY <3>2, <4>1
    <3>4. ~ReadEnds
      BY <1>1 DEF ReadEnds
    <3>5. expected = cpu_ptr
      BY <1>1, <3>3 DEF PointerFollows, Moving
    <3> QED
      BY <1>T, <3>2, <3>3, <3>4, <3>5 DEF Bus, Pointer
  <2>4. CASE held = 1
    <3>1. ~cpu_oe_st[1]
      BY <1>1, <2>4 DEF BusSeen
    <3>2. ~cpu_ack' /\ cpu_delay' = MemTime
      BY <1>T, <3>1 DEF RdxClock
    <3>3. held' = 2
      BY <2>2, <2>4
    <3>4. cpu_delay' + held' >= MemTime + 2
      BY <3>2, <3>3, Bounds
    <3> QED
      BY <1>D, <3>2, <3>3, <3>4 DEF ReadUnderWay
  <2>5. CASE held >= 2 /\ ~cpu_ack
    <3>1. cpu_oe_st[1]
      BY <1>1, <2>5 DEF BusSeen
    <3>2. cpu_master
      BY <2>5, <3>1 DEF cpu_master
    <3>3. Pins = CpuPins
      BY <1>1, <3>2, PinsBy
    <3>4. CpuPins' = CpuPins /\ expected' = expected /\ expected = cpu_ptr
      <4>1. expected' = expected /\ cpu_ptr' = cpu_ptr /\ expected = cpu_ptr
        BY <1>S, <2>3, <2>5
      <4> QED
        BY <4>1 DEF CpuPins, Garbage
    <3>5. pins' = CpuPins' /\ age' = Age(CpuPins)
      BY <1>T, <3>3, <3>4 DEF MemoryClock
    <3>6. Age(CpuPins) \in 1 .. MemTime /\ (CpuPins = pins => Age(CpuPins) > age \/ Age(CpuPins) = MemTime)
      BY <1>T, AgeStep
    <3>7. (age' >= held' - 2 \/ age' = MemTime) /\ (held >= MemTime + 2 => Age(CpuPins) >= MemTime)
      <4>1. CASE held >= 3
        <5>1. pins = CpuPins /\ (age >= held - 2 \/ age = MemTime)
          BY <1>1, <2>5, <4>1 DEF ReadUnderWay
        <5>2. Age(CpuPins) >= held - 1 \/ Age(CpuPins) = MemTime
          BY <1>T, <1>S, <3>6, <5>1
        <5>3. held' <= held + 1 /\ held' \in Nat
          BY <1>S, <2>1, Bounds
        <5>4. age' >= held' - 2 \/ age' = MemTime
          BY <1>S, <3>5, <3>6, <5>2, <5>3
        <5>5. held >= MemTime + 2 => Age(CpuPins) >= MemTime
          BY <1>S, <3>6, <5>2, Bounds
        <5> QED
          BY <5>4, <5>5
      <4>2. CASE held = 2
        <5>1. held' = 3 /\ age' >= 1
          BY <2>2, <3>5, <3>6, <4>2, Bounds
        <5>2. ~(held >= MemTime + 2)
          BY <4>2, Bounds
        <5> QED
          BY <5>1, <5>2
      <4> QED
        BY <1>S, <2>5, <4>1, <4>2
    <3>8. mem'[expected] = mem[expected]
      BY <1>M, <1>T, <3>2
    <3>9. cpu_delay + held >= MemTime + 2
      BY <1>1, <2>5 DEF ReadUnderWay
    <3>10. held' >= held /\ held' \in Nat /\ held \in Nat /\ held' # 2
      BY <1>S, <2>1, <2>2, <2>5, Bounds
    <3>11. CASE addr1 # addr0
      <4>1. ~cpu_ack' /\ cpu_delay' = MemTime
        BY <1>T, <3>11 DEF RdxClock
      <4>2. MemTime + held' >= MemTime + 2
        <5>1. held' \in Nat /\ held' >= 2
          BY <2>5, <3>10
        <5> QED
          BY <5>1, Sums
      <4>3. cpu_delay' + held' >= MemTime + 2
        BY <4>1, <4>2
      <4> QED
        BY <1>D, <3>5, <3>7, <3>10, <4>1, <4>3 DEF ReadUnderWay
    <3>12. CASE addr1 = addr0 /\ cpu_delay > 0
      <4>1. ~cpu_ack' /\ cpu_delay' = cpu_delay - 1
        BY <1>T, <2>5, <3>1, <3>12 DEF RdxClock
      <4>2. cpu_delay' + held' >= MemTime + 2
        BY <1>T, <1>S, <2>1, <3>9, <4>1, Bounds
      <4> QED
        BY <1>D, <3>5, <3>7, <3>10, <4>1, <4>2 DEF ReadUnderWay
    <3>13. CASE addr1 = addr0 /\ cpu_delay = 0
      <4>1. cpu_ack'
        BY <1>T, <3>1, <3>13 DEF RdxClock
      <4>2. held >= MemTime + 2
        BY <1>S, <3>9, <3>13, Bounds
      <4>3. held' # 3
        BY <2>2, <4>2, Bounds
      <4>4. Answer(Pins) = mem[expected]
        <5>1. CpuPins.oe /\ CpuPins.addr = cpu_ptr
          BY DEF CpuPins
        <5> QED
          BY <3>3, <3>4, <3>7, <4>2, <5>1 DEF Answer
      <4>5. cpu_dati_st' = mem'[expected']
        BY <1>T, <2>5, <3>4, <3>8, <4>4 DEF RdxClock
      <4> QED
        BY <1>D, <3>10, <4>1, <4>3, <4>5 DEF ReadUnderWay
    <3> QED
      BY <1>T, <3>11, <3>12, <3>13
  <2>6. CASE held >= 2 /\ cpu_ack
    <3>1. held >= 4
      BY <1>1, <1>S, <2>6 DEF ReadUnderWay
    <3>2. cpu_oe_st[1] /\ addr0 = addr /\ addr1 = addr
      BY <1>1, <1>S, <3>1 DEF BusSeen
    <3>3. cpu_ack' /\ cpu_dati_st' = cpu_dati_st
      BY <1>T, <2>6, <3>2 DEF RdxClock
    <3>4. held' # 2 /\ held' # 3
      BY <2>2, <3>1
    <3>5. expected' = expected
      BY <2>3, <3>1
    <3>6. ~disturbed' => ~disturbed
      BY <1>T, <1>1 DEF Bus, ReadBegins
    <3>7. ~disturbed => mem'[expected] = mem[expected]
      <4>1. mem'[expected] # mem[expected] =>
                request.op = "write" /\ expected = 2 * request.addr + mcu_a1
        BY <1>M, <1>T
      <4>2. mcu_a1 \in {0, 1} /\ request.addr \in Nat
        BY DEF Types, TypeOK, Address
      <4> QED
        BY <4>1, <4>2 DEF ReadUnderWay, Pair
    <3>8. ~disturbed => cpu_dati_st = mem[expected]
      BY <1>1, <2>6 DEF ReadUnderWay
    <3> QED
      BY <1>D, <3>3, <3>4, <3>5, <3>6, <3>7, <3>8 DEF ReadUnderWay
  <2> QED
    BY <1>S, <1>T, <2>4, <2>5, <2>6
<1>2. CASE ~oe /\ oe'
  <2>1. held' = 1
    BY <1>T, <1>2, BusStep
  <2> QED
    BY <1>D, <2>1 DEF ReadUnderWay
<1>3. CASE ~oe'
  BY <1>3, <1>D DEF ReadUnderWay
<1> QED
  BY <1>1, <1>2, <1>3

\* The arbiter keeps the pins of an access as long as they have to be there,
\* and begins the word anew when the console takes the memory away.
LEMMA AccessStep ==
    ASSUME Types, AccessUnderWay, Clock
    PROVE  AccessUnderWay'
<1>T. /\ mcu_ack \in BOOLEAN /\ idle \in BOOLEAN /\ delay \in 0 .. MemTime - 1
      /\ state \in 0 .. 4 /\ mcu_a1 \in {0, 1} /\ (mcu_ack <=> state = 4)
      /\ age \in 1 .. MemTime /\ request.addr \in Nat /\ mcu_dati \in Nat \X Nat
      /\ request.op # "none" => 2 * request.addr + 1 < Words
  BY DEF Types, TypeOK, RdxTypeOK, Address
<1>I. /\ ~mcu_ce => state \in {0, 4}
      /\ idle <=> state \in {2, 4}
      /\ state \in {0, 2, 4} => delay = 0
      /\ mcu_a1 = IF state \in {3, 4} THEN 1 ELSE 0
  BY DEF AccessUnderWay
<1>R. /\ mcu_ce' => ~mcu_ack /\ (mcu_ce => request' = request)
      /\ ~mcu_ce' => mcu_ack \/ ~mcu_ce
  BY RequestStep DEF Clock
<1>M. /\ \A a \in Address : mem'[a] # mem[a] =>
             /\ request.op = "write" /\ ~idle /\ ~cpu_master
             /\ a = 2 * request.addr + mcu_a1
      /\ request.op = "write" /\ ~idle /\ ~cpu_master /\ Age(Pins) >= MemTime =>
             mem'[2 * request.addr + mcu_a1] = New(2 * request.addr + mcu_a1)
  BY MemoryStep DEF Clock
<1>P. pins' = Pins /\ age' = Age(Pins)
  BY DEF Clock, MemoryClock
<1>1. CASE /\ ~mcu_ce /\ state' = 0 /\ idle' = FALSE /\ mcu_ack' = FALSE
           /\ delay' = 0 /\ mcu_a1' = 0 /\ mcu_dati' = mcu_dati
  BY <1>1 DEF AccessUnderWay
<1>2. CASE /\ mcu_ce /\ state' = state /\ idle' = idle /\ mcu_ack' = mcu_ack
           /\ mcu_a1' = mcu_a1 /\ mcu_dati' = mcu_dati
           /\ \/ state # 0 /\ delay' = (IF idle THEN 0 ELSE MemTime - 1)
              \/ state \in {1, 3} /\ ~cpu_master /\ delay > 0 /\ delay' = delay - 1
              \/ state = 4 /\ delay' = delay
  <2>1. ~mcu_ce' => state' \in {0, 4}
    BY <1>2, <1>R, <1>T
  <2>2. /\ idle' <=> state' \in {2, 4}
        /\ state' \in {0, 2, 4} => delay' = 0
        /\ mcu_a1' = IF state' \in {3, 4} THEN 1 ELSE 0
    BY <1>2, <1>I
  <2>3. ASSUME mcu_ce', state' \in {1, 3}, delay' < MemTime - 1
        PROVE  pins' = McuPins' /\ age' >= MemTime - 1 - delay'
    <3>1. state \in {1, 3} /\ ~cpu_master /\ delay > 0 /\ delay' = delay - 1
      BY <1>2, <1>I, <2>3, Bounds
    <3>2. Pins = McuPins
      BY <3>1, PinsBy
    <3>3. request' = request
      BY <1>2, <1>R, <2>3
    <3>4. McuPins' = McuPins
      BY <1>2, <3>3 DEF McuPins, New
    <3>5. Age(Pins) \in 1 .. MemTime /\ (Pins = pins => Age(Pins) > age \/ Age(Pins) = MemTime)
      BY <1>T, AgeStep
    <3>6. CASE delay < MemTime - 1
      <4>1. pins = McuPins /\ age >= MemTime - 1 - delay
        BY <1>2, <3>1, <3>6 DEF AccessUnderWay
      <4> QED
        BY <1>P, <1>T, <3>1, <3>2, <3>4, <3>5, <4>1, Bounds
    <3>7. CASE delay = MemTime - 1
      BY <1>P, <1>T, <3>1, <3>2, <3>4, <3>5, <3>7, Bounds
    <3> QED
      BY <1>T, <3>6, <3>7, Bounds
  <2>4. ASSUME mcu_ce', state' >= 2
        PROVE  WordDone(0)'
    <3>1. request' = request /\ state \in {2, 3}
      BY <1>2, <1>R, <1>T, <2>4
    <3>2. WordDone(0)
      BY <1>2, <3>1 DEF AccessUnderWay
    <3>3. request.op # "none"
      BY <1>2 DEF mcu_ce
    <3>4. 2 * request.addr \in Address
      BY <1>T, <3>3, Bounds DEF Address
    <3>5. mem'[2 * request.addr] = mem[2 * request.addr]
      <4>1. state = 2 => idle
        BY <1>I
      <4>2. state = 3 => 2 * request.addr # 2 * request.addr + mcu_a1
        BY <1>I, <1>T
      <4> QED
        BY <1>M, <3>1, <3>4, <4>1, <4>2
    <3>6. 2 * request.addr + 0 = 2 * request.addr
      BY <1>T
    <3> QED
      BY <1>2, <3>1, <3>2, <3>5, <3>6 DEF WordDone, New
  <2>5. ~(mcu_ce' /\ state' = 4)
    BY <1>2, <1>R, <1>T
  <2> QED
    BY <2>1, <2>2, <2>3, <2>4, <2>5 DEF AccessUnderWay
<1>3. CASE /\ mcu_ce /\ state \in {0, 2} /\ state' = state + 1 /\ idle' = FALSE
           /\ delay' = MemTime - 1 /\ mcu_a1' = (IF state = 0 THEN 0 ELSE 1)
           /\ mcu_ack' = mcu_ack /\ ~mcu_ack /\ mcu_dati' = mcu_dati
  <2>1. mcu_ce' /\ request' = request
    BY <1>3, <1>R
  <2>2. /\ idle' <=> state' \in {2, 4}
        /\ state' \notin {0, 2, 4}
        /\ mcu_a1' = IF state' \in {3, 4} THEN 1 ELSE 0
        /\ ~(delay' < MemTime - 1)
    BY <1>3, <1>T, Bounds
  <2>3. ASSUME state' >= 2
        PROVE  WordDone(0)'
    <3>1. state = 2 /\ idle
      BY <1>3, <1>I, <2>3
    <3>2. WordDone(0)
      BY <1>3, <3>1 DEF AccessUnderWay
    <3>3. 2 * request.addr \in Address
      BY <1>T, <1>3, Bounds DEF Address, mcu_ce
    <3>4. mem'[2 * request.addr] = mem[2 * request.addr]
      BY <1>M, <3>1, <3>3
    <3>5. 2 * request.addr + 0 = 2 * request.addr
      BY <1>T
    <3> QED
      BY <1>3, <2>1, <3>2, <3>4, <3>5 DEF WordDone, New
  <2> QED
    BY <2>1, <2>2, <2>3 DEF AccessUnderWay
<1>4. CASE /\ mcu_ce /\ state \in {1, 3} /\ state' = state + 1 /\ idle' = TRUE
           /\ ~cpu_master /\ delay = 0 /\ delay' = 0 /\ mcu_a1' = mcu_a1
           /\ mcu_ack' = (state = 3) /\ ~mcu_ack
           /\ mcu_dati' = [mcu_dati EXCEPT ![IF state = 1 THEN 1 ELSE 2] = Answer(Pins)]
  <2>1. mcu_ce' /\ request' = request
    BY <1>4, <1>R
  <2>2. /\ idle' <=> state' \in {2, 4}
        /\ mcu_a1' = IF state' \in {3, 4} THEN 1 ELSE 0
        /\ state' \notin {1, 3}
    BY <1>4, <1>I
  <2>3. Age(Pins) >= MemTime
    <3>1. Age(Pins) \in 1 .. MemTime /\ (Pins = pins => Age(Pins) > age \/ Age(Pins) = MemTime)
      BY <1>T, AgeStep
    <3>2. Pins = McuPins
      BY <1>4, PinsBy
    <3>3. CASE 0 < MemTime - 1
      <4>1. pins = McuPins /\ age >= MemTime - 1
        BY <1>4, <3>3, Bounds DEF AccessUnderWay
      <4> QED
        BY <1>T, <3>1, <3>2, <4>1, Bounds
    <3>4. CASE ~(0 < MemTime - 1)
      BY <3>1, <3>4, Bounds
    <3> QED
      BY <3>3, <3>4
  <2>4. PICK w \in Address : w = 2 * request.addr + mcu_a1
    BY <1>4, <1>T, Bounds DEF mcu_ce, Address
  <2>5. request.op = "read" => Answer(Pins) = mem[w] /\ mem'[w] = mem[w]
    <3>1. ASSUME request.op = "read" PROVE Pins.oe /\ Pins.addr = w
      <4>1. ~idle /\ ~cpu_master
        BY <1>4, <1>I
      <4>2. Pins.oe = (~idle /\ request.op = "read") /\ Pins.addr = 2 * request.addr + mcu_a1
        BY <4>1, PinsBy
      <4> QED
        BY <2>4, <3>1, <4>1, <4>2
    <3>2. request.op = "read" => mem'[w] = mem[w]
      BY <1>M
    <3> QED
      BY <2>3, <3>1, <3>2 DEF Answer
  <2>6. request.op = "write" => mem'[w] = New(w)
    BY <1>4, <1>I, <1>M, <2>3, <2>4
  <2>7. CASE state = 1
    <3>1. w = 2 * request.addr + 0
      BY <1>I, <2>4, <2>7
    <3>2. mcu_dati'[0 + 1] = Answer(Pins)
      BY <1>4, <1>T, <2>7
    <3>3. WordDone(0)'
      BY <2>1, <2>5, <2>6, <3>1, <3>2 DEF WordDone, New
    <3>4. state' = 2
      BY <1>4, <2>7
    <3> QED
      BY <1>4, <2>1, <2>2, <3>3, <3>4 DEF AccessUnderWay
  <2>8. CASE state = 3
    <3>1. w = 2 * request.addr + 1
      BY <1>I, <2>4, <2>8
    <3>2. mcu_dati'[1 + 1] = Answer(Pins) /\ mcu_dati'[0 + 1] = mcu_dati[0 + 1]
      BY <1>4, <1>T, <2>8
    <3>3. WordDone(1)'
      BY <2>1, <2>5, <2>6, <3>1, <3>2 DEF WordDone, New
    <3>4. WordDone(0)
      BY <1>4, <2>8 DEF AccessUnderWay
    <3>5. PICK v \in Address : v = 2 * request.addr + 0 /\ v # w
      BY <1>T, <1>4, <2>4, <3>1, Bounds DEF Address, mcu_ce
    <3>6. mem'[v] = mem[v]
      BY <1>M, <2>4, <3>5
    <3>7. WordDone(0)'
      BY <2>1, <3>2, <3>4, <3>5, <3>6 DEF WordDone, New
    <3>8. state' = 4
      BY <1>4, <2>8
    <3> QED
      BY <1>4, <2>1, <2>2, <3>3, <3>7, <3>8 DEF AccessUnderWay
  <2> QED
    BY <1>4, <2>7, <2>8
<1> QED
  BY <1>1, <1>2, <1>3, <1>4, ArbiterStep DEF Clock

LEMMA NothingElseStep ==
    ASSUME Types, AccessUnderWay, NothingElse, Clock
    PROVE  NothingElse'
<1>T. /\ mcu_ack \in BOOLEAN /\ state \in 0 .. 4 /\ mcu_a1 \in {0, 1} /\ (mcu_ack <=> state = 4)
      /\ request.addr \in Nat /\ (idle <=> state \in {2, 4})
  BY DEF Types, TypeOK, Address, AccessUnderWay
<1>R. mcu_ce /\ ~mcu_ack => request' = request
  BY RequestStep DEF Clock
<1>M. \A a \in Address : mem'[a] # mem[a] =>
          /\ request.op = "write" /\ ~idle /\ ~cpu_master
          /\ a = 2 * request.addr + mcu_a1
  BY MemoryStep DEF Clock
<1> SUFFICES ASSUME NEW a \in Address, mem'[a] \notin {a, New(a)}
             PROVE  request'.op = "write" /\ a \in Pair(request'.addr)
  BY DEF NothingElse, New
<1>1. CASE mem'[a] # mem[a]
  <2>1. request.op = "write" /\ ~mcu_ack /\ a \in Pair(request.addr)
    BY <1>1, <1>M, <1>T DEF Pair
  <2>2. request' = request
    BY <2>1, <1>R DEF mcu_ce
  <2> QED
    BY <2>1, <2>2
<1>2. CASE mem'[a] = mem[a]
  <2>1. request.op = "write" /\ a \in Pair(request.addr)
    BY <1>2 DEF NothingElse
  <2>2. CASE mcu_ack
    <3>1. WordDone(0) /\ WordDone(1)
      BY <2>1, <2>2, <1>T DEF AccessUnderWay, mcu_ce
    <3>2. 2 * request.addr + 0 = 2 * request.addr
      BY <1>T
    <3>3. mem[a] = New(a)
      BY <2>1, <3>1, <3>2 DEF WordDone, Pair
    <3> QED
      BY <1>2, <3>3
  <2>3. CASE ~mcu_ack
    <3>1. request' = request
      BY <2>1, <2>3, <1>R DEF mcu_ce
    <3> QED
      BY <2>1, <3>1
  <2> QED
    BY <1>T, <2>2, <2>3
<1> QED
  BY <1>1, <1>2

LEMMA InitSdram == Init => SdramIInv
<1> SUFFICES ASSUME Init PROVE SdramIInv
  OBVIOUS
<1> USE Bounds DEF Init, InitRdx
<1>1. 0 \in Address /\ Hold \in 1 .. Hold /\ MemTime \in 1 .. MemTime /\ 0 \in 0 .. MemTime
      /\ 0 \in 0 .. MemTime - 1 /\ Hold >= 3
  BY DEF Address
<1>2. mem \in [Address -> Nat]
  BY DEF Address
<1>3. Types
  <2>1. RdxTypeOK
    BY <1>1, Zenon DEF RdxTypeOK
  <2>2. request.op = "none" /\ request.addr = 0
    BY DEF None
  <2>3. /\ mcu_ack \in BOOLEAN /\ idle \in BOOLEAN /\ mcu_a1 \in {0, 1}
        /\ (mcu_ack <=> state = 4) /\ state \in 0 .. 4 /\ delay \in 0 .. MemTime - 1
    <3>1. mcu_ack \in BOOLEAN /\ idle \in BOOLEAN /\ ~mcu_ack
      BY Zenon
    <3> QED
      BY <1>1, <3>1
  <2>4. mcu_dati \in Nat \X Nat
    OBVIOUS
  <2> QED
    BY <1>1, <1>2, <2>1, <2>2, <2>3, <2>4 DEF Types, TypeOK
<1>4. BusSeen
  <2>1. held # 1 /\ held # 2
    OBVIOUS
  <2> QED
    BY <2>1 DEF BusSeen
<1>5. PointerFollows
  <2>1. held # 1 /\ cpu_oe_st # <<FALSE, TRUE, TRUE>>
    OBVIOUS
  <2>2. ~Moving
    BY <2>1 DEF Moving
  <2> QED
    BY <2>2 DEF PointerFollows
<1>6. ReadUnderWay /\ AccessUnderWay
  BY DEF ReadUnderWay, AccessUnderWay, mcu_ce, None
<1>7. NothingElse
  BY DEF NothingElse
<1> QED
  BY <1>3, <1>4, <1>5, <1>6, <1>7 DEF SdramIInv

LEMMA NextSdram == SdramIInv /\ [Clock]_vars => SdramIInv'
<1> SUFFICES ASSUME SdramIInv, [Clock]_vars PROVE SdramIInv'
  OBVIOUS
<1>1. CASE Clock
  BY <1>1, TypesStep, BusSeenStep, PointerStep, ReadStep, AccessStep, NothingElseStep DEF SdramIInv
<1>2. CASE UNCHANGED vars
  <2>1. Types'
    BY <1>2 DEF vars, SdramIInv, Types, TypeOK, RdxTypeOK, Address
  <2>4. BusSeen' /\ PointerFollows'
    BY <1>2 DEF vars, SdramIInv, BusSeen, PointerFollows, Moving
  <2>2. ReadUnderWay'
    BY <1>2 DEF vars, SdramIInv, ReadUnderWay, CpuPins, Garbage, Pair
  <2>3. AccessUnderWay' /\ NothingElse'
    BY <1>2 DEF vars, SdramIInv, AccessUnderWay, McuPins, WordDone, NothingElse, New, Pair, mcu_ce,
       Address
  <2> QED
    BY <2>1, <2>2, <2>3, <2>4 DEF SdramIInv
<1> QED
  BY <1>1, <1>2

\* What the runs check of it.
LEMMA SdramKept ==
    SdramIInv => TypeOK /\ McuReads /\ McuWrites /\ NothingElse /\ CpuReads
<1> SUFFICES ASSUME SdramIInv PROVE TypeOK /\ McuReads /\ McuWrites /\ NothingElse /\ CpuReads
  OBVIOUS
<1> USE DEF SdramIInv
<1>1. TypeOK /\ NothingElse /\ request.addr \in Nat /\ 2 * request.addr + 0 = 2 * request.addr
      /\ (mcu_ack <=> state = 4) /\ mcu_dati = <<mcu_dati[1], mcu_dati[2]>>
  BY DEF Types, TypeOK, Address
<1>2. mcu_ack /\ mcu_ce => WordDone(0) /\ WordDone(1)
  BY <1>1 DEF AccessUnderWay
<1>3. McuReads
  <2> SUFFICES ASSUME mcu_ack, request.op = "read"
               PROVE  mcu_dati = <<mem[2 * request.addr], mem[2 * request.addr + 1]>>
    BY DEF McuReads
  <2>1. WordDone(0) /\ WordDone(1)
    BY <1>2 DEF mcu_ce
  <2>2. mcu_dati[1] = mem[2 * request.addr] /\ mcu_dati[2] = mem[2 * request.addr + 1]
    BY <1>1, <2>1 DEF WordDone
  <2> QED
    BY <1>1, <2>2
<1>4. McuWrites
  BY <1>1, <1>2 DEF McuWrites, WordDone, Pair, mcu_ce
<1>5. CpuReads
  <2> SUFFICES ASSUME oe, held >= MemTime + 3, ~disturbed
               PROVE  CpuData(Answer(Pins)) = mem[expected]
    BY DEF CpuReads
  <2>0. held \in 1 .. Hold /\ age \in 1 .. MemTime
    BY DEF Types, TypeOK, RdxTypeOK
  <2>1. held >= 3 /\ held >= 2
    BY <2>0, Bounds
  <2>2. cpu_oe_st[1]
    BY <2>1 DEF BusSeen
  <2>3. CASE cpu_ack
    BY <2>1, <2>3 DEF ReadUnderWay, CpuData
  <2>4. CASE ~cpu_ack
    <3>1. Pins = CpuPins /\ pins = CpuPins /\ (age >= held - 2 \/ age = MemTime)
      BY <2>1, <2>2, <2>4, PinsBy DEF cpu_master, ReadUnderWay
    <3>2. Age(CpuPins) >= MemTime
      BY <2>0, <3>1, AgeStep, Bounds
    <3>3. cpu_oe_st # <<FALSE, TRUE, TRUE>>
      <4>1. ASSUME cpu_oe_st = <<FALSE, TRUE, TRUE>> PROVE cpu_oe_st[1] = FALSE
        BY <4>1
      <4> QED
        BY <2>2, <4>1
    <3>4. expected = cpu_ptr
      BY <3>3 DEF PointerFollows, Moving
    <3>5. CpuPins.oe /\ CpuPins.addr = cpu_ptr
      BY DEF CpuPins
    <3> QED
      BY <2>4, <3>1, <3>2, <3>4, <3>5 DEF CpuData, Answer
  <2> QED
    BY <2>3, <2>4
<1> QED
  BY <1>1, <1>3, <1>4, <1>5
-----------------------------------------------------------------------------
(***************************************************************************)
(* The flash memory.                                                       *)
(***************************************************************************)
FlashCpuPins == [addr |-> flash_addr, oe |-> TRUE, we |-> FALSE, data |-> Garbage]
FlashMcuPins ==
    [addr |-> 2 * flash_request.addr + flash_mcu_a1,
     oe |-> flash_request.op = "read" /\ ~flash_mcu_ack, we |-> FALSE, data |-> Garbage]

FlashTypes ==
    /\ Flash!TypeOK
    /\ flash_request.op # "none" => 2 * flash_request.addr + 1 < Words
    /\ flash_mem \in [Address -> Nat] /\ flash_mcu_dati \in Nat \X Nat

\* How far a read of the console has come: cpu_rdx has forgotten the address
\* of before by the third clock, the memory has its pins from then on, and
\* what was latched after MemTime of them is the word.
FlashReadUnderWay ==
    flash_oe =>
        /\ flash_held = 1 => ~flash_cpu_oe_st[1] \/ flash_addr0 # flash_addr
        /\ flash_held = 2 => /\ flash_cpu_oe_st[1]
                             /\ \/ flash_addr1 # flash_addr0
                                \/ ~flash_cpu_ack /\ flash_cpu_delay = MemTime
        /\ flash_held = 3 => ~flash_cpu_ack
        /\ flash_held >= 3 =>
               /\ flash_cpu_oe_st[1] /\ flash_addr0 = flash_addr
               /\ ~flash_cpu_ack => flash_cpu_delay + flash_held >= MemTime + 2
               /\ flash_cpu_ack => flash_cpu_dati_st = flash_mem[flash_addr]
        /\ flash_held >= 4 =>
               /\ flash_addr1 = flash_addr
               /\ ~flash_cpu_ack =>
                      flash_pins = FlashCpuPins /\ (flash_age >= flash_held - 3 \/ flash_age = MemTime)

\* How far an access of the processor has come.
FlashAccessUnderWay ==
    /\ ~Flash!mcu_ce => flash_state \in {0, 3}
    /\ flash_state \in {0, 3} => flash_delay = 0
    /\ flash_mcu_a1 = IF flash_state \in {2, 3} THEN 1 ELSE 0
    /\ Flash!mcu_ce /\ flash_state \in {1, 2} /\ flash_delay < MemTime - 1 =>
           flash_pins = FlashMcuPins /\ flash_age >= MemTime - 1 - flash_delay
    /\ flash_request.op = "read" =>
           /\ flash_state >= 2 => flash_mcu_dati[1] = flash_mem[2 * flash_request.addr]
           /\ flash_state = 3 => flash_mcu_dati[2] = flash_mem[2 * flash_request.addr + 1]

FlashIInv == FlashTypes /\ FlashReadUnderWay /\ FlashAccessUnderWay

LEMMA FlashPinsBy ==
    /\ Flash!cpu_master /\ flash_oe => Flash!Pins = FlashCpuPins
    /\ ~Flash!cpu_master => Flash!Pins = FlashMcuPins
    /\ ~Flash!Pins.we
<1>1. ASSUME Flash!cpu_master PROVE /\ flash_oe => Flash!Pins = FlashCpuPins
                                    /\ ~Flash!Pins.we
  BY <1>1 DEF Flash!Pins, Flash!NoPins, FlashCpuPins, Garbage, Flash!Garbage
<1>2. ASSUME ~Flash!cpu_master PROVE Flash!Pins = FlashMcuPins /\ ~Flash!Pins.we
  BY <1>2 DEF Flash!Pins, Flash!NoPins, FlashMcuPins, Garbage, Flash!Garbage
<1> QED
  BY <1>1, <1>2

LEMMA FlashAgeStep ==
    ASSUME flash_age \in 1 .. MemTime, NEW now
    PROVE  /\ Flash!Age(now) \in 1 .. MemTime
           /\ now = flash_pins => Flash!Age(now) > flash_age \/ Flash!Age(now) = MemTime
BY Bounds DEF Flash!Age

\* The flash is not written by an access.
LEMMA FlashMemory ==
    ASSUME Flash!MemoryClock(Flash!Pins)
    PROVE  flash_mem' = flash_mem /\ flash_pins' = Flash!Pins /\ flash_age' = Flash!Age(Flash!Pins)
BY FlashPinsBy DEF Flash!MemoryClock

LEMMA FlashRequestStep ==
    ASSUME FlashTypes, Flash!Processor
    PROVE  /\ flash_request'.op \in {"none", "read", "write"} /\ flash_request'.addr \in Address
           /\ flash_request'.op # "none" => 2 * flash_request'.addr + 1 < Words
           /\ Flash!mcu_ce' => ~flash_mcu_ack /\ (Flash!mcu_ce => flash_request' = flash_request)
           /\ ~Flash!mcu_ce' => flash_mcu_ack \/ ~Flash!mcu_ce
<1>T. /\ flash_request.op \in {"none", "read", "write"} /\ flash_request.addr \in Address
      /\ flash_request.op # "none" => 2 * flash_request.addr + 1 < Words
  BY DEF FlashTypes, Flash!TypeOK, Address, Flash!Address
<1>1. CASE flash_mcu_ack /\ flash_request' = Flash!Idle
  <2>1. flash_request'.op = "none" /\ flash_request'.addr \in Address
    BY <1>1, Bounds DEF Flash!Idle, Address
  <2>2. ~Flash!mcu_ce'
    BY <1>1, <2>1 DEF Flash!mcu_ce
  <2> QED
    BY <1>1, <2>1, <2>2
<1>2. CASE ~flash_mcu_ack /\ Flash!mcu_ce /\ flash_request' = flash_request
  <2>1. Flash!mcu_ce' <=> Flash!mcu_ce
    BY <1>2 DEF Flash!mcu_ce
  <2> QED
    BY <1>2, <1>T, <2>1
<1>3. ASSUME ~flash_mcu_ack, ~Flash!mcu_ce,
             NEW o \in {"none", "read", "write"}, NEW a \in 0 .. Words \div 2 - 1,
             flash_request' = [op |-> o, addr |-> a]
      PROVE  /\ flash_request'.op = o /\ flash_request'.addr \in Address
             /\ 2 * flash_request'.addr + 1 < Words
  BY <1>3, Bounds DEF Address
<1> QED
  BY <1>1, <1>2, <1>3 DEF Flash!Processor

LEMMA FlashAnswerType ==
    ASSUME FlashTypes, flash_mcu_a1 \in {0, 1}
    PROVE  Flash!Answer(Flash!Pins) \in Nat
<1>1. Flash!Garbage \in Nat
  BY Bounds DEF Flash!Garbage
<1>2. CASE Flash!Pins.oe
  <2>1. Flash!Pins.addr \in Address
    <3>1. CASE Flash!cpu_master
      BY <3>1 DEF Flash!Pins, FlashTypes, Flash!TypeOK, Flash!RdxTypeOK, Flash!Address, Address
    <3>2. CASE ~Flash!cpu_master
      <4>1. FlashMcuPins.oe /\ Flash!Pins.addr = FlashMcuPins.addr
        BY <1>2, <3>2, FlashPinsBy
      <4>2. flash_request.op = "read" /\ Flash!Pins.addr = 2 * flash_request.addr + flash_mcu_a1
        BY <4>1 DEF FlashMcuPins
      <4>3. flash_request.addr \in Nat /\ 2 * flash_request.addr + 1 < Words
        BY <4>2 DEF FlashTypes, Flash!TypeOK, Flash!Address
      <4> QED
        BY <4>2, <4>3, Bounds DEF Address
    <3> QED
      BY <3>1, <3>2
  <2>2. flash_mem[Flash!Pins.addr] \in Nat
    BY <2>1 DEF FlashTypes
  <2> QED
    BY <1>1, <2>2 DEF Flash!Answer
<1>3. CASE ~Flash!Pins.oe
  BY <1>1, <1>3 DEF Flash!Answer
<1> QED
  BY <1>2, <1>3

\* The bus: also the next read without an end of this one.
LEMMA FlashBusStep ==
    ASSUME Flash!RdxTypeOK, Flash!Bus
    PROVE  \/ /\ flash_oe' = flash_oe /\ flash_addr' = flash_addr
              /\ flash_held < Hold => flash_held' = flash_held + 1
              /\ flash_held = Hold => flash_held' = flash_held
           \/ ~flash_oe /\ flash_oe' = TRUE /\ flash_held' = 1 /\ flash_addr' \in Address
           \/ flash_oe /\ flash_held = 1 /\ flash_oe' = flash_oe /\ flash_held' = 2 /\ flash_addr' \in Address
           \/ /\ flash_oe /\ flash_held = Hold /\ flash_oe' = flash_oe /\ flash_held' = 1
              /\ flash_addr' \in Address /\ flash_addr' # flash_addr
           \/ flash_oe /\ flash_oe' = FALSE /\ flash_held' = 1 /\ flash_addr' = flash_addr
<1>T. flash_held \in 1 .. Hold /\ flash_oe \in BOOLEAN /\ CpuAddress \subseteq Address
  BY Bounds DEF Flash!RdxTypeOK
<1>1. CASE Flash!BusStays
  BY <1>1, <1>T, Bounds DEF Flash!BusStays
<1>2. CASE Flash!ReadBegins
  BY <1>2, <1>T DEF Flash!ReadBegins
<1>3. CASE Flash!AddressSettles
  BY <1>3, <1>T DEF Flash!AddressSettles
<1>4. CASE Flash!AddressChanges
  BY <1>4, <1>T DEF Flash!AddressChanges
<1>5. CASE Flash!ReadEnds
  BY <1>5 DEF Flash!ReadEnds
<1> QED
  BY <1>1, <1>2, <1>3, <1>4, <1>5 DEF Flash!Bus

\* What a clock of cpu_rdx does.
LEMMA FlashRdxStep ==
    ASSUME Flash!RdxTypeOK, Flash!RdxClock(Flash!Answer(Flash!Pins))
    PROVE  /\ flash_cpu_oe_st' \in BOOLEAN \X BOOLEAN \X BOOLEAN
           /\ flash_cpu_oe_st'[1] = flash_oe
           /\ flash_addr0' = flash_addr /\ flash_addr1' = flash_addr0
           /\ flash_cpu_dati_st' = (IF flash_cpu_ack THEN flash_cpu_dati_st
                                    ELSE Flash!Answer(Flash!Pins))
           /\ flash_cpu_ack' \in BOOLEAN /\ flash_cpu_delay' \in 0 .. MemTime
           /\ ~flash_cpu_oe_st[1] \/ flash_addr1 # flash_addr0 =>
                  ~flash_cpu_ack' /\ flash_cpu_delay' = MemTime
           /\ flash_cpu_oe_st[1] /\ flash_addr1 = flash_addr0 =>
                  /\ flash_cpu_delay > 0 => /\ flash_cpu_ack' = flash_cpu_ack
                                            /\ flash_cpu_delay' = flash_cpu_delay - 1
                  /\ flash_cpu_delay = 0 => flash_cpu_ack' = TRUE
<1>T. /\ flash_oe \in BOOLEAN /\ flash_cpu_oe_st \in BOOLEAN \X BOOLEAN \X BOOLEAN
      /\ flash_cpu_ack \in BOOLEAN /\ flash_cpu_delay \in 0 .. MemTime
  BY DEF Flash!RdxTypeOK
<1>1. /\ flash_cpu_oe_st' \in BOOLEAN \X BOOLEAN \X BOOLEAN
      /\ flash_cpu_oe_st'[1] = flash_oe
      /\ flash_addr0' = flash_addr /\ flash_addr1' = flash_addr0
      /\ flash_cpu_dati_st' = (IF flash_cpu_ack THEN flash_cpu_dati_st
                               ELSE Flash!Answer(Flash!Pins))
  BY <1>T DEF Flash!RdxClock
<1>2. CASE ~flash_cpu_oe_st[1] \/ flash_addr1 # flash_addr0
  <2>1. flash_cpu_ack' = FALSE /\ flash_cpu_delay' = MemTime
    BY <1>2 DEF Flash!RdxClock
  <2>2. MemTime \in 0 .. MemTime
    BY Bounds
  <2>3. flash_cpu_ack' \in BOOLEAN /\ flash_cpu_delay' \in 0 .. MemTime
    BY <2>1, <2>2, Zenon
  <2> QED
    BY <1>1, <1>2, <2>1, <2>3
<1>3. CASE ~(~flash_cpu_oe_st[1] \/ flash_addr1 # flash_addr0) /\ flash_cpu_delay > 0
  <2>1. flash_cpu_ack' = flash_cpu_ack /\ flash_cpu_delay' = flash_cpu_delay - 1
    BY <1>3 DEF Flash!RdxClock
  <2>2. flash_cpu_ack' \in BOOLEAN /\ flash_cpu_delay' \in 0 .. MemTime
    BY <1>T, <1>3, <2>1, Bounds
  <2> QED
    BY <1>1, <1>3, <2>1, <2>2
<1>4. CASE ~(~flash_cpu_oe_st[1] \/ flash_addr1 # flash_addr0) /\ ~(flash_cpu_delay > 0)
  <2>1. flash_cpu_ack' = TRUE /\ flash_cpu_delay' = flash_cpu_delay
    BY <1>4 DEF Flash!RdxClock
  <2>2. flash_cpu_ack' \in BOOLEAN /\ flash_cpu_delay' \in 0 .. MemTime
    BY <1>T, <2>1, Zenon
  <2> QED
    BY <1>1, <1>4, <2>1, <2>2
<1> QED
  BY <1>2, <1>3, <1>4

\* The arbiter by its states.
LEMMA FlashArbiterStep ==
    ASSUME FlashTypes, FlashAccessUnderWay, Flash!Arbiter
    PROVE  \/ /\ ~Flash!mcu_ce /\ flash_state' = 0 /\ flash_mcu_ack' = FALSE
              /\ flash_delay' = 0 /\ flash_mcu_a1' = 0 /\ flash_mcu_dati' = flash_mcu_dati
           \/ /\ Flash!mcu_ce /\ flash_state' = flash_state /\ flash_mcu_ack' = flash_mcu_ack
              /\ flash_mcu_a1' = flash_mcu_a1 /\ flash_mcu_dati' = flash_mcu_dati
              /\ \/ flash_state \in {1, 2} /\ flash_delay' = MemTime - 1
                 \/ /\ flash_state \in {1, 2} /\ ~Flash!cpu_master
                    /\ flash_delay > 0 /\ flash_delay' = flash_delay - 1
                 \/ flash_state = 3 /\ flash_delay' = flash_delay
           \/ /\ Flash!mcu_ce /\ flash_state = 0 /\ flash_state' = 1
              /\ flash_delay' = MemTime - 1 /\ flash_mcu_a1' = 0
              /\ flash_mcu_ack' = flash_mcu_ack /\ ~flash_mcu_ack /\ flash_mcu_dati' = flash_mcu_dati
           \/ /\ Flash!mcu_ce /\ flash_state = 1 /\ flash_state' = 2
              /\ ~Flash!cpu_master /\ flash_delay = 0
              /\ flash_delay' = MemTime - 1 /\ flash_mcu_a1' = 1
              /\ flash_mcu_ack' = flash_mcu_ack /\ ~flash_mcu_ack
              /\ flash_mcu_dati' = [flash_mcu_dati EXCEPT ![1] = Flash!Answer(Flash!Pins)]
           \/ /\ Flash!mcu_ce /\ flash_state = 2 /\ flash_state' = 3
              /\ ~Flash!cpu_master /\ flash_delay = 0
              /\ flash_delay' = flash_delay /\ flash_mcu_a1' = flash_mcu_a1
              /\ flash_mcu_ack' = TRUE /\ ~flash_mcu_ack
              /\ flash_mcu_dati' = [flash_mcu_dati EXCEPT ![2] = Flash!Answer(Flash!Pins)]
<1>T. /\ flash_mcu_ack \in BOOLEAN /\ flash_delay \in 0 .. MemTime - 1
      /\ flash_state \in 0 .. 3 /\ (flash_mcu_ack <=> flash_state = 3)
      /\ (flash_state \in {0, 3} => flash_delay = 0)
  BY DEF FlashTypes, Flash!TypeOK, FlashAccessUnderWay
<1>1. CASE Flash!NoAccess
  BY <1>1 DEF Flash!NoAccess
<1>2. CASE Flash!Interrupted
  BY <1>2, <1>T DEF Flash!Interrupted
<1>3. CASE Flash!Waiting
  <2>1. flash_state \in {1, 2} /\ ~Flash!cpu_master
    BY <1>3, <1>T, Bounds DEF Flash!Waiting
  <2> QED
    BY <1>3, <2>1 DEF Flash!Waiting
<1>4. CASE Flash!FirstWord
  BY <1>4, <1>T DEF Flash!FirstWord, Flash!Step
<1>5. CASE Flash!SecondWord
  BY <1>5, <1>T DEF Flash!SecondWord, Flash!Step
<1>6. CASE Flash!Done
  BY <1>6, <1>T DEF Flash!Done, Flash!Step
<1>7. CASE Flash!Over
  BY <1>7, <1>T DEF Flash!Over, Flash!Step, Flash!arbiterVars
<1> QED
  BY <1>1, <1>2, <1>3, <1>4, <1>5, <1>6, <1>7 DEF Flash!Arbiter

LEMMA FlashTypesStep ==
    ASSUME FlashTypes, FlashAccessUnderWay, Flash!Clock
    PROVE  FlashTypes'
<1>A. Address = Flash!Address
  BY DEF Address, Flash!Address
<1>T. /\ Flash!RdxTypeOK /\ flash_mcu_a1 \in {0, 1}
      /\ flash_mcu_ack \in BOOLEAN /\ flash_delay \in 0 .. MemTime - 1
      /\ flash_state \in 0 .. 3 /\ (flash_mcu_ack <=> flash_state = 3) /\ flash_mcu_dati \in Nat \X Nat
  BY DEF FlashTypes, Flash!TypeOK
<1>C. /\ Flash!Arbiter /\ Flash!MemoryClock(Flash!Pins) /\ Flash!Processor /\ Flash!Bus
      /\ Flash!RdxClock(Flash!Answer(Flash!Pins))
  BY DEF Flash!Clock
<1>1. Flash!RdxTypeOK'
  <2>0. /\ flash_oe \in BOOLEAN /\ flash_addr \in Address /\ flash_held \in 1 .. Hold
        /\ flash_addr0 \in Address /\ flash_age \in 1 .. MemTime
    BY <1>T, <1>A DEF Flash!RdxTypeOK
  <2>1. flash_oe' \in BOOLEAN /\ flash_addr' \in Address
    BY <1>C, <1>T, <2>0, FlashBusStep, Zenon
  <2>2. flash_held' \in 1 .. Hold
    <3>1. \/ /\ flash_held < Hold => flash_held' = flash_held + 1
             /\ flash_held = Hold => flash_held' = flash_held
          \/ flash_held' \in {1, 2}
      BY <1>C, <1>T, FlashBusStep, Zenon
    <3> QED
      BY <2>0, <3>1, Bounds
  <2>3. flash_age' \in 1 .. MemTime
    BY <1>C, <2>0, FlashMemory, FlashAgeStep
  <2>4. /\ flash_cpu_oe_st' \in BOOLEAN \X BOOLEAN \X BOOLEAN
        /\ flash_addr0' = flash_addr /\ flash_addr1' = flash_addr0
        /\ flash_cpu_ack' \in BOOLEAN /\ flash_cpu_delay' \in 0 .. MemTime
    BY <1>C, <1>T, FlashRdxStep
  <2> QED
    BY <1>A, <2>0, <2>1, <2>2, <2>3, <2>4 DEF Flash!RdxTypeOK
<1>2. /\ flash_request'.op \in {"none", "read", "write"} /\ flash_request'.addr \in Address
      /\ flash_request'.op # "none" => 2 * flash_request'.addr + 1 < Words
  BY <1>C, FlashRequestStep
<1>3. /\ flash_mcu_ack' \in BOOLEAN /\ flash_mcu_a1' \in {0, 1}
      /\ flash_delay' \in 0 .. MemTime - 1 /\ flash_state' \in 0 .. 3
      /\ (flash_mcu_ack' <=> flash_state' = 3)
  <2>1. 0 \in 0 .. MemTime - 1 /\ MemTime - 1 \in 0 .. MemTime - 1
        /\ (flash_delay > 0 => flash_delay - 1 \in 0 .. MemTime - 1)
    BY <1>T, Bounds
  <2>2. flash_delay' \in 0 .. MemTime - 1 /\ flash_mcu_a1' \in {0, 1}
    BY <1>C, <1>T, <2>1, FlashArbiterStep, Zenon
  <2>3. flash_mcu_ack' \in BOOLEAN
    BY <1>C, <1>T, FlashArbiterStep, Zenon
  <2>4. \/ flash_state' = 0 /\ ~flash_mcu_ack'
        \/ flash_state' = flash_state /\ flash_mcu_ack' = flash_mcu_ack
        \/ flash_state' \in {1, 2} /\ ~flash_mcu_ack'
        \/ flash_state' = 3 /\ flash_mcu_ack'
    BY <1>C, FlashArbiterStep, Zenon
  <2>5. flash_state' \in 0 .. 3 /\ (flash_mcu_ack' <=> flash_state' = 3)
    BY <1>T, <2>4
  <2> QED
    BY <2>2, <2>3, <2>5
<1>4. flash_mem' \in [Address -> Nat]
  BY <1>C, FlashMemory DEF FlashTypes
<1>5. flash_mcu_dati' \in Nat \X Nat
  <2>1. PICK v \in Nat : v = Flash!Answer(Flash!Pins)
    BY <1>T, FlashAnswerType
  <2>2. \/ flash_mcu_dati' = flash_mcu_dati
        \/ flash_mcu_dati' = [flash_mcu_dati EXCEPT ![1] = v]
        \/ flash_mcu_dati' = [flash_mcu_dati EXCEPT ![2] = v]
    BY <1>C, <2>1, FlashArbiterStep
  <2> QED
    BY <1>T, <2>1, <2>2
<1> QED
  BY <1>A, <1>1, <1>2, <1>3, <1>4, <1>5 DEF FlashTypes, Flash!TypeOK

LEMMA FlashReadStep ==
    ASSUME FlashTypes, FlashReadUnderWay, Flash!Clock
    PROVE  FlashReadUnderWay'
<1>T. /\ Flash!RdxTypeOK /\ flash_oe \in BOOLEAN /\ flash_held \in 1 .. Hold
      /\ flash_age \in 1 .. MemTime /\ flash_cpu_ack \in BOOLEAN /\ flash_cpu_delay \in 0 .. MemTime
      /\ flash_cpu_oe_st[1] \in BOOLEAN
  BY DEF FlashTypes, Flash!TypeOK, Flash!RdxTypeOK
<1>C. /\ Flash!MemoryClock(Flash!Pins) /\ Flash!Bus
      /\ Flash!RdxClock(Flash!Answer(Flash!Pins))
  BY DEF Flash!Clock
<1>M. flash_mem' = flash_mem /\ flash_pins' = Flash!Pins /\ flash_age' = Flash!Age(Flash!Pins)
  BY <1>C, FlashMemory
<1>R. /\ flash_cpu_oe_st'[1] = flash_oe
      /\ flash_addr0' = flash_addr /\ flash_addr1' = flash_addr0
      /\ flash_cpu_dati_st' = (IF flash_cpu_ack THEN flash_cpu_dati_st
                               ELSE Flash!Answer(Flash!Pins))
      /\ ~flash_cpu_oe_st[1] \/ flash_addr1 # flash_addr0 =>
             ~flash_cpu_ack' /\ flash_cpu_delay' = MemTime
      /\ flash_cpu_oe_st[1] /\ flash_addr1 = flash_addr0 =>
             /\ flash_cpu_delay > 0 => /\ flash_cpu_ack' = flash_cpu_ack
                                       /\ flash_cpu_delay' = flash_cpu_delay - 1
             /\ flash_cpu_delay = 0 => flash_cpu_ack' = TRUE
  BY <1>C, <1>T, FlashRdxStep
<1>1. CASE ~flash_oe'
  BY <1>1 DEF FlashReadUnderWay
<1>2. CASE ~flash_oe /\ flash_oe' /\ flash_held' = 1
  BY <1>2, <1>R DEF FlashReadUnderWay
<1>3. CASE flash_oe /\ flash_oe' /\ flash_held' = 1 /\ flash_addr' # flash_addr
  BY <1>3, <1>R DEF FlashReadUnderWay
<1>4. CASE flash_oe /\ flash_oe' /\ flash_held = 1 /\ flash_held' = 2
  BY <1>4, <1>R DEF FlashReadUnderWay
<1>5. CASE flash_oe /\ flash_oe' /\ flash_held = 2 /\ flash_held' = 3 /\ flash_addr' = flash_addr
  <2>1. /\ flash_cpu_oe_st[1]
        /\ \/ flash_addr1 # flash_addr0
           \/ ~flash_cpu_ack /\ flash_cpu_delay = MemTime
    BY <1>5 DEF FlashReadUnderWay
  <2>2. ~flash_cpu_ack' /\ flash_cpu_delay' >= MemTime - 1 /\ flash_cpu_delay' \in Nat
    BY <1>R, <2>1, Bounds
  <2>3. flash_cpu_delay' + flash_held' >= MemTime + 2
    <3>1. flash_cpu_delay' + 3 >= MemTime + 2
      BY <2>2, Sums
    <3> QED
      BY <1>5, <3>1
  <2>4. flash_addr0' = flash_addr' /\ flash_cpu_oe_st'[1]
    BY <1>5, <1>R
  <2>5. ~(flash_held' >= 4) /\ flash_held' # 1 /\ flash_held' # 2
    BY <1>5
  <2> QED
    BY <1>5, <2>2, <2>3, <2>4, <2>5 DEF FlashReadUnderWay
<1>6. CASE /\ flash_oe /\ flash_oe' /\ flash_held >= 3 /\ flash_addr' = flash_addr
           /\ flash_held < Hold => flash_held' = flash_held + 1
           /\ flash_held = Hold => flash_held' = flash_held
  <2>1. /\ flash_cpu_oe_st[1] /\ flash_addr0 = flash_addr
        /\ ~flash_cpu_ack => flash_cpu_delay + flash_held >= MemTime + 2
        /\ flash_cpu_ack => flash_cpu_dati_st = flash_mem[flash_addr]
    BY <1>6 DEF FlashReadUnderWay
  <2>2. flash_held' >= 4 /\ flash_held' <= flash_held + 1 /\ flash_held' >= flash_held
        /\ flash_held' \in Nat
    BY <1>6, <1>T, Bounds
  <2>3. flash_addr0' = flash_addr' /\ flash_addr1' = flash_addr' /\ flash_cpu_oe_st'[1]
    BY <1>6, <1>R, <2>1
  <2>4. CASE flash_cpu_ack
    <3>1. flash_held >= 4
      <4>1. flash_held # 3
        BY <1>6, <2>4 DEF FlashReadUnderWay
      <4> QED
        BY <1>6, <1>T, <4>1
    <3>2. flash_addr1 = flash_addr
      BY <1>6, <3>1 DEF FlashReadUnderWay
    <3>3. flash_cpu_ack' /\ flash_cpu_dati_st' = flash_cpu_dati_st
      <4>1. flash_cpu_delay > 0 \/ flash_cpu_delay = 0
        BY <1>T
      <4>2. flash_cpu_oe_st[1] /\ flash_addr1 = flash_addr0
        BY <2>1, <3>2
      <4> QED
        BY <1>R, <2>4, <4>1, <4>2, Zenon
    <3> QED
      BY <1>6, <1>M, <2>1, <2>2, <2>3, <2>4, <3>3 DEF FlashReadUnderWay
  <2>5. CASE ~flash_cpu_ack
    <3>1. Flash!Pins = FlashCpuPins
      BY <1>6, <2>1, <2>5, FlashPinsBy DEF Flash!cpu_master
    <3>2. FlashCpuPins' = FlashCpuPins
      BY <1>6 DEF FlashCpuPins, Garbage
    <3>3. /\ Flash!Age(FlashCpuPins) \in 1 .. MemTime
          /\ FlashCpuPins = flash_pins =>
                 Flash!Age(FlashCpuPins) > flash_age \/ Flash!Age(FlashCpuPins) = MemTime
      BY <1>T, FlashAgeStep
    <3>4. Flash!Age(FlashCpuPins) >= flash_held - 2 \/ Flash!Age(FlashCpuPins) = MemTime
      <4>1. CASE flash_held = 3
        BY <3>3, <4>1, Bounds
      <4>2. CASE flash_held >= 4
        <5>1. flash_pins = FlashCpuPins /\ (flash_age >= flash_held - 3 \/ flash_age = MemTime)
          BY <1>6, <2>5, <4>2 DEF FlashReadUnderWay
        <5> QED
          BY <1>T, <3>3, <5>1, Bounds
      <4> QED
        BY <1>6, <1>T, <4>1, <4>2
    <3>5. flash_pins' = FlashCpuPins' /\ (flash_age' >= flash_held' - 3 \/ flash_age' = MemTime)
      <4>1. Flash!Age(FlashCpuPins) >= flash_held' - 3 \/ Flash!Age(FlashCpuPins) = MemTime
        BY <1>T, <2>2, <3>3, <3>4, Bounds
      <4> QED
        BY <1>M, <3>1, <3>2, <4>1
    <3>K. ASSUME ~flash_cpu_ack', flash_cpu_delay' + flash_held' >= MemTime + 2
          PROVE  FlashReadUnderWay'
      <4>1. flash_held' # 1 /\ flash_held' # 2 /\ flash_held' # 3
        BY <2>2
      <4> QED
        BY <2>3, <3>5, <3>K, <4>1 DEF FlashReadUnderWay
    <3>6. CASE flash_addr1 # flash_addr0
      <4>1. ~flash_cpu_ack' /\ flash_cpu_delay' = MemTime
        BY <1>R, <3>6
      <4>2. MemTime + flash_held' >= MemTime + 2
        <5>1. flash_held' \in Nat /\ flash_held' >= 2
          BY <2>2
        <5> QED
          BY <5>1, Sums
      <4>3. flash_cpu_delay' + flash_held' >= MemTime + 2
        BY <4>1, <4>2
      <4> QED
        BY <3>K, <4>1, <4>3
    <3>7. CASE flash_addr1 = flash_addr0 /\ flash_cpu_delay > 0
      <4>1. ~flash_cpu_ack' /\ flash_cpu_delay' = flash_cpu_delay - 1
        BY <1>R, <2>1, <2>5, <3>7
      <4>2. flash_cpu_delay' + flash_held' >= MemTime + 2
        BY <1>T, <1>6, <2>1, <2>5, <4>1, Bounds
      <4> QED
        BY <3>K, <4>1, <4>2
    <3>8. CASE flash_addr1 = flash_addr0 /\ flash_cpu_delay = 0
      <4>1. flash_cpu_ack'
        BY <1>R, <2>1, <3>8
      <4>2. flash_held >= MemTime + 2
        BY <1>T, <2>1, <2>5, <3>8, Bounds
      <4>3. Flash!Age(FlashCpuPins) >= MemTime
        BY <1>T, <3>3, <3>4, <4>2, Bounds
      <4>4. FlashCpuPins.oe /\ FlashCpuPins.addr = flash_addr
        BY DEF FlashCpuPins
      <4>5. Flash!Answer(Flash!Pins) = flash_mem[flash_addr]
        BY <3>1, <4>3, <4>4 DEF Flash!Answer
      <4>6. flash_cpu_dati_st' = flash_mem'[flash_addr']
        BY <1>6, <1>M, <1>R, <2>5, <4>5
      <4> QED
        BY <1>6, <2>2, <2>3, <4>1, <4>6 DEF FlashReadUnderWay
    <3> QED
      BY <1>T, <3>6, <3>7, <3>8
  <2> QED
    BY <1>T, <2>4, <2>5
<1>7. flash_held = 1 \/ flash_held = 2 \/ flash_held >= 3
  BY <1>T
<1>8. (flash_held = 1 => flash_held < Hold) /\ (flash_held = 2 => flash_held < Hold)
  BY Bounds
<1>9. CASE /\ flash_oe' = flash_oe /\ flash_addr' = flash_addr
           /\ flash_held < Hold => flash_held' = flash_held + 1
           /\ flash_held = Hold => flash_held' = flash_held
  <2>1. (flash_held = 1 => flash_held' = 2) /\ (flash_held = 2 => flash_held' = 3)
    BY <1>8, <1>9
  <2> QED
    BY <1>1, <1>4, <1>5, <1>6, <1>7, <1>9, <2>1
<1> QED
  BY <1>C, <1>T, <1>1, <1>2, <1>3, <1>4, <1>9, FlashBusStep

LEMMA FlashAccessStep ==
    ASSUME FlashTypes, FlashAccessUnderWay, Flash!Clock
    PROVE  FlashAccessUnderWay'
<1>T. /\ flash_mcu_ack \in BOOLEAN /\ flash_delay \in 0 .. MemTime - 1
      /\ flash_state \in 0 .. 3 /\ flash_mcu_a1 \in {0, 1} /\ (flash_mcu_ack <=> flash_state = 3)
      /\ flash_age \in 1 .. MemTime /\ flash_mcu_dati \in Nat \X Nat
  BY DEF FlashTypes, Flash!TypeOK, Flash!RdxTypeOK
<1>I. /\ ~Flash!mcu_ce => flash_state \in {0, 3}
      /\ flash_state \in {0, 3} => flash_delay = 0
      /\ flash_mcu_a1 = IF flash_state \in {2, 3} THEN 1 ELSE 0
      /\ flash_request.op = "read" =>
             /\ flash_state >= 2 => flash_mcu_dati[1] = flash_mem[2 * flash_request.addr]
             /\ flash_state = 3 => flash_mcu_dati[2] = flash_mem[2 * flash_request.addr + 1]
  BY DEF FlashAccessUnderWay
<1>R. /\ Flash!mcu_ce' => ~flash_mcu_ack /\ (Flash!mcu_ce => flash_request' = flash_request)
      /\ ~Flash!mcu_ce' => flash_mcu_ack \/ ~Flash!mcu_ce
      /\ flash_request'.op = "read" => Flash!mcu_ce'
  BY FlashRequestStep DEF Flash!Clock, Flash!mcu_ce
<1>M. flash_mem' = flash_mem /\ flash_pins' = Flash!Pins /\ flash_age' = Flash!Age(Flash!Pins)
  BY FlashMemory DEF Flash!Clock
<1>N. /\ Flash!Age(Flash!Pins) \in 1 .. MemTime
      /\ Flash!Pins = flash_pins => Flash!Age(Flash!Pins) > flash_age \/ Flash!Age(Flash!Pins) = MemTime
  BY <1>T, FlashAgeStep
\* a word whose delay is over has been at the pins for MemTime clocks
<1>W. ASSUME Flash!mcu_ce, flash_state \in {1, 2}, ~Flash!cpu_master, flash_delay = 0,
             flash_request.op = "read"
      PROVE  Flash!Answer(Flash!Pins) = flash_mem[2 * flash_request.addr + flash_mcu_a1]
  <2>1. Flash!Pins = FlashMcuPins
    BY <1>W, FlashPinsBy
  <2>2. FlashMcuPins.oe /\ FlashMcuPins.addr = 2 * flash_request.addr + flash_mcu_a1
    <3>1. ~flash_mcu_ack
      BY <1>T, <1>W
    <3> QED
      BY <1>W, <3>1 DEF FlashMcuPins
  <2>3. Flash!Age(Flash!Pins) >= MemTime
    <3>1. CASE 0 < MemTime - 1
      <4>1. flash_pins = FlashMcuPins /\ flash_age >= MemTime - 1
        BY <1>W, <3>1, Bounds DEF FlashAccessUnderWay
      <4> QED
        BY <1>N, <1>T, <2>1, <4>1, Bounds
    <3>2. CASE ~(0 < MemTime - 1)
      BY <1>N, <3>2, Bounds
    <3> QED
      BY <3>1, <3>2
  <2> QED
    BY <2>1, <2>2, <2>3 DEF Flash!Answer
<1>1. CASE /\ ~Flash!mcu_ce /\ flash_state' = 0 /\ flash_mcu_ack' = FALSE
           /\ flash_delay' = 0 /\ flash_mcu_a1' = 0 /\ flash_mcu_dati' = flash_mcu_dati
  BY <1>1 DEF FlashAccessUnderWay
<1>2. CASE /\ Flash!mcu_ce /\ flash_state' = flash_state /\ flash_mcu_ack' = flash_mcu_ack
           /\ flash_mcu_a1' = flash_mcu_a1 /\ flash_mcu_dati' = flash_mcu_dati
           /\ \/ flash_state \in {1, 2} /\ flash_delay' = MemTime - 1
              \/ /\ flash_state \in {1, 2} /\ ~Flash!cpu_master
                 /\ flash_delay > 0 /\ flash_delay' = flash_delay - 1
              \/ flash_state = 3 /\ flash_delay' = flash_delay
  <2>1. ~Flash!mcu_ce' => flash_state' \in {0, 3}
    BY <1>2, <1>R, <1>T
  <2>2. /\ flash_state' \in {0, 3} => flash_delay' = 0
        /\ flash_mcu_a1' = IF flash_state' \in {2, 3} THEN 1 ELSE 0
    BY <1>2, <1>I
  <2>3. ASSUME Flash!mcu_ce', flash_state' \in {1, 2}, flash_delay' < MemTime - 1
        PROVE  flash_pins' = FlashMcuPins' /\ flash_age' >= MemTime - 1 - flash_delay'
    <3>1. /\ flash_state \in {1, 2} /\ ~Flash!cpu_master
          /\ flash_delay > 0 /\ flash_delay' = flash_delay - 1
      BY <1>2, <2>3, Bounds
    <3>2. Flash!Pins = FlashMcuPins
      BY <3>1, FlashPinsBy
    <3>3. flash_request' = flash_request
      BY <1>2, <1>R, <2>3
    <3>4. FlashMcuPins' = FlashMcuPins
      BY <1>2, <3>3 DEF FlashMcuPins, Garbage
    <3>5. CASE flash_delay < MemTime - 1
      <4>1. flash_pins = FlashMcuPins /\ flash_age >= MemTime - 1 - flash_delay
        BY <1>2, <3>1, <3>5 DEF FlashAccessUnderWay
      <4>2. Flash!Age(Flash!Pins) >= MemTime - flash_delay
        BY <1>N, <1>T, <3>2, <4>1, Bounds
      <4> QED
        BY <1>M, <1>T, <3>1, <3>2, <3>4, <4>2, Bounds
    <3>6. CASE flash_delay = MemTime - 1
      BY <1>M, <1>N, <1>T, <3>1, <3>2, <3>4, <3>6, Bounds
    <3> QED
      BY <1>T, <3>5, <3>6, Bounds
  <2>4. ASSUME flash_request'.op = "read"
        PROVE  /\ flash_state' >= 2 => flash_mcu_dati'[1] = flash_mem'[2 * flash_request'.addr]
               /\ flash_state' # 3
    BY <1>2, <1>I, <1>M, <1>R, <1>T, <2>4
  <2> QED
    BY <2>1, <2>2, <2>3, <2>4 DEF FlashAccessUnderWay
<1>3. CASE /\ Flash!mcu_ce /\ flash_state = 0 /\ flash_state' = 1
           /\ flash_delay' = MemTime - 1 /\ flash_mcu_a1' = 0
           /\ flash_mcu_ack' = flash_mcu_ack /\ ~flash_mcu_ack /\ flash_mcu_dati' = flash_mcu_dati
  <2>1. Flash!mcu_ce'
    BY <1>3, <1>R
  <2>2. ~(flash_delay' < MemTime - 1)
    BY <1>3, Bounds
  <2> QED
    BY <1>3, <2>1, <2>2 DEF FlashAccessUnderWay
<1>4. CASE /\ Flash!mcu_ce /\ flash_state = 1 /\ flash_state' = 2
           /\ ~Flash!cpu_master /\ flash_delay = 0
           /\ flash_delay' = MemTime - 1 /\ flash_mcu_a1' = 1
           /\ flash_mcu_ack' = flash_mcu_ack /\ ~flash_mcu_ack
           /\ flash_mcu_dati' = [flash_mcu_dati EXCEPT ![1] = Flash!Answer(Flash!Pins)]
  <2>1. Flash!mcu_ce' /\ flash_request' = flash_request
    BY <1>4, <1>R
  <2>2. ~(flash_delay' < MemTime - 1)
    BY <1>4, Bounds
  <2>3. flash_mcu_dati'[1] = Flash!Answer(Flash!Pins)
    BY <1>4, <1>T
  <2>4. flash_request.op = "read" =>
            Flash!Answer(Flash!Pins) = flash_mem[2 * flash_request.addr + flash_mcu_a1]
    BY <1>4, <1>W
  <2>5. 2 * flash_request.addr + flash_mcu_a1 = 2 * flash_request.addr
    BY <1>4, <1>I DEF FlashTypes, Flash!TypeOK, Flash!Address
  <2> QED
    BY <1>4, <1>M, <2>1, <2>2, <2>3, <2>4, <2>5 DEF FlashAccessUnderWay
<1>5. CASE /\ Flash!mcu_ce /\ flash_state = 2 /\ flash_state' = 3
           /\ ~Flash!cpu_master /\ flash_delay = 0
           /\ flash_delay' = flash_delay /\ flash_mcu_a1' = flash_mcu_a1
           /\ flash_mcu_ack' = TRUE /\ ~flash_mcu_ack
           /\ flash_mcu_dati' = [flash_mcu_dati EXCEPT ![2] = Flash!Answer(Flash!Pins)]
  <2>1. Flash!mcu_ce' /\ flash_request' = flash_request
    BY <1>5, <1>R
  <2>2. flash_mcu_dati'[2] = Flash!Answer(Flash!Pins) /\ flash_mcu_dati'[1] = flash_mcu_dati[1]
    BY <1>5, <1>T
  <2>3. flash_request.op = "read" =>
            Flash!Answer(Flash!Pins) = flash_mem[2 * flash_request.addr + flash_mcu_a1]
    BY <1>5, <1>W
  <2>4. flash_mcu_a1 = 1
    BY <1>5, <1>I
  <2> QED
    BY <1>5, <1>I, <1>M, <2>1, <2>2, <2>3, <2>4 DEF FlashAccessUnderWay
<1> QED
  BY <1>1, <1>2, <1>3, <1>4, <1>5, FlashArbiterStep DEF Flash!Clock

LEMMA InitFlash == Flash!Init => FlashIInv
<1> SUFFICES ASSUME Flash!Init PROVE FlashIInv
  OBVIOUS
<1> USE Bounds DEF Flash!Init, Flash!InitRdx
<1>A. Address = Flash!Address
  BY DEF Address, Flash!Address
<1>1. 0 \in Address /\ Hold \in 1 .. Hold /\ MemTime \in 1 .. MemTime /\ 0 \in 0 .. MemTime
      /\ 0 \in 0 .. MemTime - 1
  BY DEF Address
<1>2. flash_mem \in [Address -> Nat]
  BY <1>A DEF Address
<1>3. FlashTypes
  <2>1. Flash!RdxTypeOK
    BY <1>A, <1>1, Zenon DEF Flash!RdxTypeOK
  <2>2. flash_request.op = "none" /\ flash_request.addr = 0
    BY DEF Flash!Idle
  <2>3. /\ flash_mcu_ack \in BOOLEAN /\ flash_mcu_a1 \in {0, 1}
        /\ (flash_mcu_ack <=> flash_state = 3) /\ flash_state \in 0 .. 3
        /\ flash_delay \in 0 .. MemTime - 1
    <3>1. flash_mcu_ack \in BOOLEAN /\ ~flash_mcu_ack
      BY Zenon
    <3> QED
      BY <1>1, <3>1
  <2>4. flash_mcu_dati \in Nat \X Nat
    BY DEF Flash!Garbage
  <2> QED
    BY <1>A, <1>1, <1>2, <2>1, <2>2, <2>3, <2>4 DEF FlashTypes, Flash!TypeOK
<1>4. FlashReadUnderWay /\ FlashAccessUnderWay
  BY DEF FlashReadUnderWay, FlashAccessUnderWay, Flash!mcu_ce, Flash!Idle
<1> QED
  BY <1>3, <1>4 DEF FlashIInv

LEMMA NextFlash == FlashIInv /\ [Flash!Clock]_flashVars => FlashIInv'
<1> SUFFICES ASSUME FlashIInv, [Flash!Clock]_flashVars PROVE FlashIInv'
  OBVIOUS
<1>1. CASE Flash!Clock
  BY <1>1, FlashTypesStep, FlashReadStep, FlashAccessStep DEF FlashIInv
<1>2. CASE UNCHANGED flashVars
  <2>1. FlashTypes'
    BY <1>2 DEF flashVars, FlashIInv, FlashTypes, Flash!TypeOK, Flash!RdxTypeOK
  <2>2. FlashReadUnderWay'
    BY <1>2 DEF flashVars, FlashIInv, FlashReadUnderWay, FlashCpuPins, Garbage
  <2>3. FlashAccessUnderWay'
    BY <1>2 DEF flashVars, FlashIInv, FlashAccessUnderWay, FlashMcuPins, Garbage, Flash!mcu_ce
  <2> QED
    BY <2>1, <2>2, <2>3 DEF FlashIInv
<1> QED
  BY <1>1, <1>2

\* What the runs check of it.
LEMMA FlashKept ==
    FlashIInv => Flash!TypeOK /\ Flash!McuReads /\ Flash!CpuReads
<1> SUFFICES ASSUME FlashIInv PROVE Flash!TypeOK /\ Flash!McuReads /\ Flash!CpuReads
  OBVIOUS
<1> USE DEF FlashIInv
<1>1. Flash!TypeOK /\ (flash_mcu_ack <=> flash_state = 3)
      /\ flash_mcu_dati = <<flash_mcu_dati[1], flash_mcu_dati[2]>>
  BY DEF FlashTypes, Flash!TypeOK
<1>2. Flash!McuReads
  BY <1>1 DEF FlashAccessUnderWay, Flash!McuReads
<1>3. Flash!CpuReads
  <2> SUFFICES ASSUME flash_oe, flash_held >= MemTime + 3
               PROVE  Flash!CpuData(Flash!Answer(Flash!Pins)) = flash_mem[flash_addr]
    BY DEF Flash!CpuReads
  <2>0. flash_held \in 1 .. Hold /\ flash_age \in 1 .. MemTime
    BY DEF FlashTypes, Flash!TypeOK, Flash!RdxTypeOK
  <2>1. flash_held >= 4 /\ flash_held >= 3
    BY <2>0, Bounds
  <2>2. CASE flash_cpu_ack
    BY <2>1, <2>2 DEF FlashReadUnderWay, Flash!CpuData
  <2>3. CASE ~flash_cpu_ack
    <3>1. /\ Flash!Pins = FlashCpuPins /\ flash_pins = FlashCpuPins
          /\ (flash_age >= flash_held - 3 \/ flash_age = MemTime)
      BY <2>1, <2>3, FlashPinsBy DEF Flash!cpu_master, FlashReadUnderWay
    <3>2. Flash!Age(FlashCpuPins) >= MemTime
      BY <2>0, <3>1, FlashAgeStep, Bounds
    <3>3. FlashCpuPins.oe /\ FlashCpuPins.addr = flash_addr
      BY DEF FlashCpuPins
    <3> QED
      BY <2>3, <3>1, <3>2, <3>3 DEF Flash!CpuData, Flash!Answer
  <2> QED
    BY <2>2, <2>3
<1> QED
  BY <1>1, <1>2, <1>3
-----------------------------------------------------------------------------
(***************************************************************************)
(* The processor's own memory.                                             *)
(***************************************************************************)
\* The memory with the selected words of the long word written, those of the
\* halves given.
WithHalves(halves) ==
    [w \in Wram!Cells |->
        IF /\ w[1] = "ram" /\ w[1] = wram_request.bank /\ w[2] = wram_request.long
           /\ w[3] \in wram_request.sel \cap halves
        THEN 1 - old[w] ELSE old[w]]

WramTypes ==
    /\ Wram!TypeOK
    /\ SRM_DELAY \in {0, 1} /\ wram_delay \in {0, 1}
    /\ old \in [Wram!Cells -> Wram!Values]
    /\ before = [we |-> before.we, word |-> before.word] /\ before.we \in BOOLEAN

\* By its state: what is at the pins, and what is read or written already.
WramUnderWay ==
    Wram!wram_ce =>
        /\ wram_delay > 0 => wram_state = 0
        /\ wram_state = 0 => /\ ~wram_idle /\ ~ack /\ wram_addr1 = 0
                             /\ before.we => before.word = Wram!word
        /\ wram_request.op = "read" =>
               /\ wram_state \in {0, 1} /\ wram_mem = old
               /\ wram_state = 1 => /\ ack /\ ~wram_idle /\ wram_addr1 = 1
                                    /\ dati_lo = old[<<wram_request.bank, wram_request.long, 0>>]
        /\ wram_request.op = "write" =>
               /\ wram_state \in 0 .. 3
               /\ wram_state = 0 => wram_mem \in {old, WithHalves({0})}
               /\ wram_state = 1 => wram_idle /\ ~ack /\ wram_addr1 = 0
               /\ wram_state = 2 => wram_idle /\ ~ack /\ wram_addr1 = 1
               /\ wram_state = 3 => ~wram_idle /\ ack /\ wram_addr1 = 1 /\ ~before.we
               /\ wram_state > 0 => wram_mem = WithHalves({0})

WramIInv == WramTypes /\ WramUnderWay /\ Wram!StrobeApart

MemoriesIInv == SdramIInv /\ FlashIInv /\ WramIInv

\* An access is for a long word there is.
LEMMA RequestParts ==
    ASSUME NEW r \in Wram!Requests
    PROVE  /\ r.op \in {"read", "write"} /\ r.bank \in Wram!Banks /\ r.long \in 0 .. Longs - 1
           /\ r.sel \subseteq Wram!Halves /\ r # Wram!None
           /\ \A h \in Wram!Halves : <<r.bank, r.long, h>> \in Wram!Cells
BY DEF Wram!Requests, Wram!None, Wram!Cells

LEMMA CellParts ==
    ASSUME NEW w \in Wram!Cells, NEW v \in Wram!Cells
    PROVE  w[3] \in Wram!Halves /\ (w = v <=> w[1] = v[1] /\ w[2] = v[2] /\ w[3] = v[3])
BY DEF Wram!Cells

\* The memory in a clock without the strobe, and with it.
LEMMA WramMemory ==
    ASSUME WramTypes, Wram!Memory
    PROVE  /\ wram_mem' \in [Wram!Cells -> Wram!Values]
           /\ ~Wram!we => wram_mem' = wram_mem
           /\ before'.we = Wram!we /\ before'.word = Wram!word
           /\ before' = [we |-> before'.we, word |-> before'.word] /\ before'.we \in BOOLEAN
<1>1. before'.we = Wram!we /\ before'.word = Wram!word
      /\ before' = [we |-> before'.we, word |-> before'.word]
  BY DEF Wram!Memory
<1>2. Wram!we \in BOOLEAN
  BY DEF Wram!we
<1>3. CASE ~Wram!we
  BY <1>1, <1>2, <1>3 DEF Wram!Memory, WramTypes, Wram!TypeOK
<1>4. CASE Wram!we
  <2>1. wram_request \in Wram!Requests /\ wram_addr1 \in Wram!Halves
    BY <1>4 DEF WramTypes, Wram!TypeOK, Wram!we, Wram!wram_ce
  <2>2. PICK w \in Wram!Cells : w = Wram!word
    BY <2>1, RequestParts DEF Wram!word
  <2>3. PICK v \in Wram!Values : v = 1 - old[w]
    <3>1. old[w] \in {0, 1}
      BY DEF WramTypes, Wram!Values
    <3>2. 1 - old[w] \in {0, 1}
      BY <3>1
    <3> QED
      BY <3>2 DEF Wram!Values
  <2>4. wram_mem' = [wram_mem EXCEPT ![w] = v]
    BY <1>4, <2>2, <2>3 DEF Wram!Memory
  <2>5. wram_mem' \in [Wram!Cells -> Wram!Values]
    BY <2>4 DEF WramTypes, Wram!TypeOK
  <2> QED
    BY <1>1, <1>2, <1>4, <2>5
<1> QED
  BY <1>3, <1>4

\* The half at the pins is written if it is selected.
LEMMA HalfWritten ==
    ASSUME WramTypes, Wram!Memory, wram_request \in Wram!Requests, wram_request.op = "write",
           ~wram_idle, NEW halves \in SUBSET Wram!Halves, wram_mem = WithHalves(halves)
    PROVE  wram_mem' = WithHalves(halves \cup {wram_addr1})
<1>1. wram_addr1 \in Wram!Halves /\ wram_mem \in [Wram!Cells -> Wram!Values]
  BY DEF WramTypes, Wram!TypeOK
<1>2. PICK v \in Wram!Cells : v = <<wram_request.bank, wram_request.long, wram_addr1>>
  BY <1>1, RequestParts
<1>3. v = Wram!word /\ v[1] = wram_request.bank /\ v[2] = wram_request.long /\ v[3] = wram_addr1
  BY <1>2 DEF Wram!word
<1>4. Wram!we <=> wram_request.bank = "ram" /\ wram_addr1 \in wram_request.sel
  BY RequestParts DEF Wram!we, Wram!wram_ce
<1>5. wram_mem' = IF Wram!we THEN [wram_mem EXCEPT ![v] = 1 - old[v]] ELSE wram_mem
  BY <1>3 DEF Wram!Memory
<1>6. wram_mem' = [w \in Wram!Cells |-> IF Wram!we /\ w = v THEN 1 - old[w] ELSE wram_mem[w]]
  BY <1>1, <1>5
<1>7. ASSUME NEW w \in Wram!Cells
      PROVE  (IF Wram!we /\ w = v THEN 1 - old[w] ELSE wram_mem[w])
                 = IF /\ w[1] = "ram" /\ w[1] = wram_request.bank /\ w[2] = wram_request.long
                      /\ w[3] \in wram_request.sel \cap (halves \cup {wram_addr1})
                   THEN 1 - old[w] ELSE old[w]
  <2>1. w = v <=> w[1] = v[1] /\ w[2] = v[2] /\ w[3] = v[3]
    BY CellParts
  <2>2. wram_mem[w] = IF /\ w[1] = "ram" /\ w[1] = wram_request.bank /\ w[2] = wram_request.long
                         /\ w[3] \in wram_request.sel \cap halves
                      THEN 1 - old[w] ELSE old[w]
    BY DEF WithHalves
  <2> QED
    BY <1>3, <1>4, <2>1, <2>2
<1> QED
  BY <1>6, <1>7 DEF WithHalves

LEMMA NoHalves == WramTypes => old = WithHalves({})
<1> SUFFICES ASSUME WramTypes PROVE old = WithHalves({})
  OBVIOUS
<1>1. old = [w \in Wram!Cells |-> old[w]]
  BY DEF WramTypes
<1> QED
  BY <1>1 DEF WithHalves

\* What the processor does in a clock.
LEMMA WramProcessor ==
    ASSUME WramTypes, Wram!Processor
    PROVE  \/ ~Wram!wram_ce /\ wram_request' = wram_request /\ old' = old
           \/ ~Wram!wram_ce /\ wram_request' \in Wram!Requests /\ old' = wram_mem
           \/ Wram!wram_ce /\ ~ack /\ wram_request' = wram_request /\ old' = old
           \/ /\ Wram!wram_ce /\ ack /\ wram_request' = Wram!None /\ old' = old
              /\ result' = Wram!mcu_dati
BY DEF Wram!Processor

\* What the clock does to an access that waits, and to one that does not.
LEMMA WramSteps ==
    ASSUME WramTypes, WramUnderWay, Wram!Clock, Wram!wram_ce
    PROVE  /\ wram_request \in Wram!Requests
           /\ wram_delay = 1 =>
                 /\ wram_state' = wram_state /\ wram_delay' = 0 /\ ack' = ack
                 /\ wram_idle' = wram_idle /\ wram_addr1' = wram_addr1
           /\ wram_delay = 0 => wram_state' = wram_state + 1 /\ wram_delay' = 0
           /\ wram_delay = 0 /\ wram_request.op = "read" =>
                 \/ /\ wram_state = 0 /\ dati_lo' = Wram!wram_dato
                    /\ ack' = TRUE /\ wram_idle' = wram_idle /\ wram_addr1' = 1
                 \/ wram_state = 1 /\ ack' = ack /\ wram_idle' = TRUE /\ wram_addr1' = wram_addr1
           /\ wram_delay = 0 /\ wram_request.op = "write" =>
                 \/ wram_state = 0 /\ ack' = ack /\ wram_idle' = TRUE /\ wram_addr1' = wram_addr1
                 \/ wram_state = 1 /\ ack' = ack /\ wram_idle' = wram_idle /\ wram_addr1' = 1
                 \/ wram_state = 2 /\ ack' = TRUE /\ wram_idle' = FALSE /\ wram_addr1' = wram_addr1
                 \/ wram_state = 3 /\ ack' = ack /\ wram_idle' = TRUE /\ wram_addr1' = wram_addr1
<1>1. wram_request \in Wram!Requests /\ wram_delay \in {0, 1}
  BY DEF WramTypes, Wram!TypeOK, Wram!wram_ce
<1>2. CASE Wram!NoAccess
  BY <1>2 DEF Wram!NoAccess
<1>3. CASE Wram!Delay
  BY <1>1, <1>3 DEF Wram!Delay
<1>4. CASE Wram!ReadStep
  BY <1>1, <1>4 DEF Wram!ReadStep, Wram!Step
<1>5. CASE Wram!WriteStep
  BY <1>1, <1>5 DEF Wram!WriteStep, Wram!Step
<1> QED
  BY <1>2, <1>3, <1>4, <1>5 DEF Wram!Clock

\* A clock without an access, or before one.
LEMMA WramRest ==
    ASSUME WramIInv, Wram!Clock, ~Wram!wram_ce
    PROVE  /\ wram_state' = 0 /\ wram_idle' = FALSE /\ ack' = FALSE /\ wram_addr1' = 0
           /\ wram_delay' = SRM_DELAY /\ wram_mem' = wram_mem /\ before'.we = FALSE
<1>1. Wram!NoAccess
  BY DEF Wram!Clock, Wram!Delay, Wram!ReadStep, Wram!WriteStep, Wram!Step
<1>2. Wram!we = FALSE
  BY DEF Wram!we
<1> QED
  BY <1>1, <1>2, WramMemory DEF Wram!NoAccess, Wram!Clock, WramIInv

LEMMA WramTypesStep == WramIInv /\ Wram!Clock => WramTypes'
<1> SUFFICES ASSUME WramIInv, Wram!Clock PROVE WramTypes'
  OBVIOUS
<1>1. WramTypes /\ WramUnderWay
  BY DEF WramIInv
<1>2. /\ wram_mem' \in [Wram!Cells -> Wram!Values]
      /\ before' = [we |-> before'.we, word |-> before'.word] /\ before'.we \in BOOLEAN
      /\ SRM_DELAY' = SRM_DELAY
  BY <1>1, WramMemory DEF Wram!Clock
<1>3. wram_request' \in Wram!Requests \cup {Wram!None} /\ old' \in [Wram!Cells -> Wram!Values]
  BY <1>1, WramProcessor DEF Wram!Clock, WramTypes, Wram!TypeOK
<1>4. /\ wram_state' \in 0 .. 4 /\ wram_addr1' \in Wram!Halves /\ {ack', wram_idle'} \subseteq BOOLEAN
      /\ ack' => wram_state' > 0
      /\ wram_delay' \in {0, 1}
  <2>1. CASE ~Wram!wram_ce
    BY <1>1, <2>1, WramRest DEF WramTypes, Wram!Halves
  <2>2. CASE Wram!wram_ce
    <3>1. wram_request \in Wram!Requests /\ wram_request.op \in {"read", "write"}
      BY <1>1, <2>2, WramSteps, RequestParts
    <3>2. wram_state \in 0 .. 3 /\ (ack => wram_state > 0)
          /\ ack \in BOOLEAN /\ wram_idle \in BOOLEAN /\ wram_addr1 \in {0, 1} /\ wram_delay \in {0, 1}
      BY <1>1, <2>2, <3>1 DEF WramTypes, Wram!TypeOK, WramUnderWay, Wram!Halves
    <3>3. CASE wram_delay = 1
      <4>1. wram_state' = wram_state /\ wram_delay' = 0 /\ ack' = ack /\ wram_idle' = wram_idle
            /\ wram_addr1' = wram_addr1
        BY <1>1, <2>2, <3>3, WramSteps
      <4> QED
        BY <3>2, <4>1 DEF Wram!Halves
    <3>4. CASE wram_delay = 0
      <4>1. wram_state' = wram_state + 1 /\ wram_delay' = 0
        BY <1>1, <2>2, <3>4, WramSteps
      <4>2. ack' \in BOOLEAN /\ wram_idle' \in BOOLEAN
        BY <1>1, <2>2, <3>1, <3>2, <3>4, WramSteps, Zenon
      <4>3. wram_addr1' \in {0, 1}
        BY <1>1, <2>2, <3>1, <3>2, <3>4, WramSteps, Zenon
      <4> QED
        BY <3>2, <4>1, <4>2, <4>3 DEF Wram!Halves
    <3> QED
      BY <3>2, <3>3, <3>4
  <2> QED
    BY <2>1, <2>2
<1>5. SRM_DELAY' \in {0, 1}
  BY <1>1, <1>2 DEF WramTypes
<1> QED
  BY <1>2, <1>3, <1>4, <1>5 DEF WramTypes, Wram!TypeOK

\* The memory in the course of a write: the first word is written while the
\* state is 0, nothing while the pins change, and the second one after that.
LEMMA WramWrites ==
    ASSUME WramIInv, Wram!Clock, Wram!wram_ce, wram_request.op = "write"
    PROVE  /\ wram_state = 0 => wram_mem' = WithHalves({0})
           /\ wram_state \in {1, 2} => wram_mem' = WithHalves({0})
           /\ wram_state = 3 => wram_mem' = WithHalves({0, 1})
<1>1. WramTypes /\ WramUnderWay /\ Wram!Memory /\ wram_request \in Wram!Requests
  BY WramSteps DEF WramIInv, Wram!Clock
<1>2. {0} \subseteq Wram!Halves /\ {} \subseteq Wram!Halves /\ {0} \cup {0} = {0} /\ {} \cup {0} = {0}
      /\ {0} \cup {1} = {0, 1}
  BY DEF Wram!Halves
<1>3. CASE wram_state = 0
  <2>1. ~wram_idle /\ wram_addr1 = 0 /\ wram_mem \in {old, WithHalves({0})}
    BY <1>1, <1>3 DEF WramUnderWay
  <2>2. CASE wram_mem = WithHalves({})
    <3>1. wram_mem' = WithHalves({} \cup {wram_addr1})
      BY <1>1, <1>2, <2>1, <2>2, HalfWritten
    <3> QED
      BY <1>2, <1>3, <2>1, <3>1
  <2>3. CASE wram_mem = WithHalves({0})
    <3>1. wram_mem' = WithHalves({0} \cup {wram_addr1})
      BY <1>1, <1>2, <2>1, <2>3, HalfWritten
    <3> QED
      BY <1>2, <1>3, <2>1, <3>1
  <2> QED
    BY <1>1, <2>1, <2>2, <2>3, NoHalves
<1>4. CASE wram_state \in {1, 2}
  <2>1. wram_idle /\ wram_mem = WithHalves({0})
    BY <1>1, <1>4 DEF WramUnderWay
  <2>2. ~Wram!we
    BY <2>1 DEF Wram!we
  <2> QED
    BY <1>1, <1>4, <2>1, <2>2, WramMemory
<1>5. CASE wram_state = 3
  <2>1. ~wram_idle /\ wram_addr1 = 1 /\ wram_mem = WithHalves({0})
    BY <1>1, <1>5 DEF WramUnderWay
  <2>2. wram_mem' = WithHalves({0} \cup {wram_addr1})
    BY <1>1, <1>2, <2>1, HalfWritten
  <2> QED
    BY <1>2, <1>5, <2>1, <2>2
<1> QED
  BY <1>3, <1>4, <1>5

LEMMA WramUnderWayStep == WramIInv /\ Wram!Clock => WramUnderWay'
<1> SUFFICES ASSUME WramIInv, Wram!Clock PROVE WramUnderWay'
  OBVIOUS
<1>1. WramTypes /\ WramUnderWay /\ Wram!Processor /\ Wram!Memory
  BY DEF WramIInv, Wram!Clock
<1>2. CASE ~Wram!wram_ce
  <2>1. /\ wram_state' = 0 /\ wram_idle' = FALSE /\ ack' = FALSE /\ wram_addr1' = 0
        /\ wram_mem' = wram_mem /\ before'.we = FALSE
    BY <1>2, WramRest
  <2>2. (Wram!wram_ce)' => wram_request' \in Wram!Requests /\ old' = wram_mem
    BY <1>1, <1>2, WramProcessor DEF Wram!wram_ce
  <2> QED
    BY <2>1, <2>2 DEF WramUnderWay
<1>3. CASE Wram!wram_ce /\ ack
  BY <1>1, <1>3, WramProcessor DEF WramUnderWay, Wram!wram_ce
<1>4. CASE Wram!wram_ce /\ ~ack
  <2>1. wram_request \in Wram!Requests /\ wram_request.op \in {"read", "write"}
        /\ wram_request' = wram_request /\ old' = old
    BY <1>1, <1>4, WramSteps, WramProcessor, RequestParts
  <2>2. WithHalves({0})' = WithHalves({0})
    BY <2>1 DEF WithHalves
  <2>3. before'.we = Wram!we /\ before'.word = Wram!word /\ (~Wram!we => wram_mem' = wram_mem)
    BY <1>1, WramMemory
  <2>4. CASE wram_request.op = "read"
    <3>1. ~Wram!we /\ before'.we = FALSE
      BY <2>3, <2>4 DEF Wram!we
    <3>2. wram_mem' = old' /\ wram_mem = old
      BY <1>1, <1>4, <2>1, <2>3, <2>4, <3>1 DEF WramUnderWay
    <3>3. CASE wram_delay = 1
      <4>1. wram_state = 0 /\ wram_state' = wram_state /\ wram_idle' = wram_idle /\ ack' = ack
            /\ wram_addr1' = wram_addr1 /\ wram_delay' = 0
        BY <1>1, <1>4, <3>3, WramSteps DEF WramUnderWay
      <4> QED
        BY <1>1, <1>4, <2>1, <2>4, <3>1, <3>2, <3>3, <4>1 DEF WramUnderWay
    <3>4. CASE wram_delay = 0
      <4>1. wram_state = 0 /\ ~wram_idle /\ wram_addr1 = 0
        BY <1>1, <1>4, <2>4 DEF WramUnderWay
      <4>2. wram_state' = 1 /\ wram_delay' = 0 /\ dati_lo' = Wram!wram_dato /\ wram_addr1' = 1 /\ ack' = TRUE
            /\ wram_idle' = wram_idle
        BY <1>1, <1>4, <2>4, <3>4, <4>1, WramSteps
      <4>3. dati_lo' = old[<<wram_request.bank, wram_request.long, 0>>]
        BY <1>4, <2>4, <3>2, <4>1, <4>2 DEF Wram!wram_dato, Wram!oe, Wram!word
      <4> QED
        BY <2>1, <2>4, <3>1, <3>2, <4>1, <4>2, <4>3 DEF WramUnderWay
    <3> QED
      BY <1>1, <3>3, <3>4 DEF WramTypes
  <2>5. CASE wram_request.op = "write"
    <3>1. /\ wram_state = 0 => wram_mem' = WithHalves({0})
          /\ wram_state \in {1, 2} => wram_mem' = WithHalves({0})
      BY <1>4, <2>5, WramWrites
    <3>2. wram_state \in 0 .. 2
      BY <1>1, <1>4, <2>5 DEF WramUnderWay
    <3>3. CASE wram_delay = 1
      <4>1. wram_state = 0 /\ wram_state' = wram_state /\ wram_delay' = 0 /\ wram_idle' = wram_idle
            /\ ack' = ack /\ wram_addr1' = wram_addr1
        BY <1>1, <1>4, <3>3, WramSteps DEF WramUnderWay
      <4>2. Wram!word' = Wram!word
        BY <2>1, <4>1 DEF Wram!word
      <4> QED
        BY <1>1, <1>4, <2>1, <2>2, <2>3, <2>5, <3>1, <4>1, <4>2 DEF WramUnderWay
    <3>4. CASE wram_delay = 0
      <4>1. wram_state' = wram_state + 1 /\ wram_delay' = 0
        BY <1>1, <1>4, <2>5, <3>4, WramSteps
      <4>2. CASE wram_state = 0
        <5>1. wram_idle' = TRUE /\ ack' = ack /\ wram_addr1' = wram_addr1
          BY <1>1, <1>4, <2>5, <3>4, <4>2, WramSteps
        <5>2. ~ack /\ wram_addr1 = 0
          BY <1>1, <1>4, <2>5, <4>2 DEF WramUnderWay
        <5> QED
          BY <2>1, <2>2, <2>5, <3>1, <4>1, <4>2, <5>1, <5>2 DEF WramUnderWay
      <4>3. CASE wram_state = 1
        <5>1. wram_idle' = wram_idle /\ ack' = ack /\ wram_addr1' = 1 /\ ~ack /\ wram_idle
          BY <1>1, <1>4, <2>5, <3>4, <4>3, WramSteps DEF WramUnderWay
        <5> QED
          BY <2>1, <2>2, <2>5, <3>1, <4>1, <4>3, <5>1 DEF WramUnderWay
      <4>4. CASE wram_state = 2
        <5>1. wram_idle' = FALSE /\ ack' = TRUE /\ wram_addr1' = wram_addr1 /\ wram_idle /\ wram_addr1 = 1
          BY <1>1, <1>4, <2>5, <3>4, <4>4, WramSteps DEF WramUnderWay
        <5>2. before'.we = FALSE
          BY <2>3, <5>1 DEF Wram!we
        <5> QED
          BY <2>1, <2>2, <2>5, <3>1, <4>1, <4>4, <5>1, <5>2 DEF WramUnderWay
      <4> QED
        BY <3>2, <4>2, <4>3, <4>4
    <3> QED
      BY <1>1, <3>3, <3>4 DEF WramTypes
  <2> QED
    BY <2>1, <2>4, <2>5
<1> QED
  BY <1>2, <1>3, <1>4

\* Under the strobe of two clocks in a row, the pins are the same.
LEMMA WramStrobeStep == WramIInv /\ Wram!Clock => (Wram!StrobeApart)'
<1> SUFFICES ASSUME WramIInv, Wram!Clock, (Wram!we)', before'.we
             PROVE  before'.word = (Wram!word)'
  BY DEF Wram!StrobeApart
<1>1. WramTypes /\ WramUnderWay /\ Wram!Processor /\ Wram!Memory
  BY DEF WramIInv, Wram!Clock
<1>2. Wram!we /\ before'.word = Wram!word /\ (Wram!wram_ce)' /\ ~wram_idle'
  BY <1>1, WramMemory DEF Wram!we
<1>3. Wram!wram_ce /\ ~wram_idle /\ wram_request.op = "write"
  BY <1>2 DEF Wram!we
<1>4. ~ack /\ wram_request' = wram_request
  BY <1>1, <1>2, <1>3, WramProcessor DEF Wram!wram_ce
<1>5. wram_state = 0
  BY <1>1, <1>3, <1>4 DEF WramUnderWay
<1>6. wram_addr1' = wram_addr1
  <2>1. wram_delay \in {0, 1} /\ wram_idle' # TRUE
    BY <1>1, <1>2 DEF WramTypes
  <2>2. CASE wram_delay = 1
    BY <1>1, <1>3, <2>2, WramSteps
  <2>3. CASE wram_delay = 0
    BY <1>1, <1>3, <1>5, <2>1, <2>3, WramSteps
  <2> QED
    BY <2>1, <2>2, <2>3
<1> QED
  BY <1>2, <1>4, <1>6 DEF Wram!word

LEMMA InitWram == Wram!Init => WramIInv
<1> SUFFICES ASSUME Wram!Init PROVE WramIInv
  OBVIOUS
<1>1. SRM_DELAY \in {0, 1} /\ wram_delay \in {0, 1}
  BY MemoriesAssumption DEF Wram!Init, Wram!WramAssumption
<1>2. WramTypes
  <2>1. Wram!TypeOK
    <3>1. wram_mem \in [Wram!Cells -> Wram!Values]
      BY DEF Wram!Init, Wram!Values
    <3>2. wram_request \in Wram!Requests \cup {Wram!None} /\ ~ack /\ {ack, wram_idle} \subseteq BOOLEAN
      BY DEF Wram!Init
    <3>3. wram_state \in 0 .. 4 /\ wram_addr1 \in Wram!Halves
      BY DEF Wram!Init, Wram!Halves
    <3> QED
      BY <3>1, <3>2, <3>3 DEF Wram!TypeOK
  <2>2. old \in [Wram!Cells -> Wram!Values]
    BY DEF Wram!Init, Wram!Values
  <2>3. before = [we |-> before.we, word |-> before.word] /\ before.we \in BOOLEAN
    BY DEF Wram!Init
  <2> QED
    BY <1>1, <2>1, <2>2, <2>3 DEF WramTypes
<1>3. ~Wram!wram_ce
  BY DEF Wram!Init, Wram!wram_ce
<1> QED
  BY <1>2, <1>3 DEF WramIInv, WramUnderWay, Wram!StrobeApart, Wram!we

LEMMA NextWram == WramIInv /\ [Wram!Clock]_wramVars => WramIInv'
<1> SUFFICES ASSUME WramIInv, [Wram!Clock]_wramVars PROVE WramIInv'
  OBVIOUS
<1>1. CASE UNCHANGED wramVars
  BY <1>1 DEF wramVars, WramIInv, WramTypes, Wram!TypeOK, WramUnderWay, WithHalves, Wram!StrobeApart,
     Wram!we, Wram!wram_ce, Wram!word
<1>2. CASE Wram!Clock
  BY <1>2, WramTypesStep, WramUnderWayStep, WramStrobeStep DEF WramIInv
<1> QED
  BY <1>1, <1>2

\* What the processor is given when a read ends.
LEMMA WramReads ==
    ASSUME WramIInv, Wram!Clock, wram_request.op = "read", wram_request' = Wram!None
    PROVE  result' = Wram!Whole(wram_request) /\ wram_mem' = old
<1>1. WramTypes /\ WramUnderWay /\ Wram!Processor /\ Wram!Memory /\ Wram!wram_ce
  BY DEF WramIInv, Wram!Clock, Wram!wram_ce, Wram!None
<1>2. wram_request \in Wram!Requests /\ wram_request # Wram!None
  BY <1>1, WramSteps, RequestParts
<1>3. ack /\ result' = Wram!mcu_dati
  BY <1>1, <1>2, WramProcessor
<1>4. wram_state = 1 /\ ~wram_idle /\ wram_addr1 = 1 /\ wram_mem = old
      /\ dati_lo = old[<<wram_request.bank, wram_request.long, 0>>]
  BY <1>1, <1>3 DEF WramUnderWay
<1>5. ~Wram!we
  BY DEF Wram!we
<1> QED
  BY <1>1, <1>3, <1>4, <1>5, WramMemory DEF Wram!mcu_dati, Wram!wram_dato, Wram!oe, Wram!word, Wram!Whole

\* What the memory is when a write ends.
LEMMA WramWritten ==
    ASSUME WramIInv, Wram!Clock, wram_request.op = "write", wram_request' = Wram!None
    PROVE  wram_mem' = WithHalves({0, 1})
<1>1. WramTypes /\ WramUnderWay /\ Wram!Processor /\ Wram!Memory /\ Wram!wram_ce
  BY DEF WramIInv, Wram!Clock, Wram!wram_ce, Wram!None
<1>2. wram_request \in Wram!Requests /\ wram_request # Wram!None
  BY <1>1, WramSteps, RequestParts
<1>3. ack
  BY <1>1, <1>2, WramProcessor
<1>4. wram_state = 3
  BY <1>1, <1>3 DEF WramUnderWay
<1> QED
  BY <1>1, <1>4, WramWrites
-----------------------------------------------------------------------------
(***************************************************************************)
(* The three memories.                                                     *)
(***************************************************************************)
\* They share no state: a clock of the one leaves the invariants of the others.
THEOREM MemoriesInvariant == MemoriesSpec => []MemoriesIInv
<1>1. MemoriesInit => MemoriesIInv
  BY InitSdram, InitFlash, InitWram DEF MemoriesInit, MemoriesIInv
<1>2. MemoriesIInv /\ [MemoriesNext]_allVars => MemoriesIInv'
  <2>1. [MemoriesNext]_allVars =>
            [Clock]_vars /\ [Flash!Clock]_flashVars /\ [Wram!Clock]_wramVars
    BY DEF MemoriesNext, SdramClock, FlashClock, WramClock, allVars
  <2> QED
    BY <2>1, NextSdram, NextFlash, NextWram DEF MemoriesIInv
<1> QED
  BY <1>1, <1>2, PTL DEF MemoriesSpec

\* What the processor reads from the graphics memory and from the flash is
\* what is there, and its writes are complete and touch nothing else, in
\* whatever clocks the console takes the memory away.
THEOREM ProcessorAccessesKept == MemoriesSpec => []ProcessorAccesses
<1>1. MemoriesIInv => ProcessorAccesses
  BY SdramKept, FlashKept DEF MemoriesIInv, ProcessorAccesses
<1> QED
  BY <1>1, MemoriesInvariant, PTL

\* The console gets the word it asks for in time, from both memories, whatever
\* the processor's accesses.
THEOREM ConsoleReadsKept == MemoriesSpec => []ConsoleReads
<1>1. MemoriesIInv => ConsoleReads
  BY SdramKept, FlashKept DEF MemoriesIInv, ConsoleReads
<1> QED
  BY <1>1, MemoriesInvariant, PTL

\* The processor's own memory: reads are of the whole long word, writes of the
\* selected words only, and the pins rest under the strobe.
THEOREM OwnMemoryKept == MemoriesSpec => OwnMemoryWhole
<1>1. MemoriesIInv => Wram!TypeOK /\ Wram!StrobeApart
  BY DEF MemoriesIInv, WramIInv, WramTypes
<1>2. [MemoriesNext]_allVars => [Wram!Clock]_wramVars
  BY DEF MemoriesNext, SdramClock, FlashClock, WramClock, allVars
<1>3. MemoriesIInv /\ [MemoriesNext]_allVars =>
          [wram_request.op = "read" /\ wram_request' = Wram!None =>
               result' = Wram!Whole(wram_request) /\ wram_mem' = old]_(Wram!vars)
  <2> SUFFICES ASSUME MemoriesIInv, [MemoriesNext]_allVars, Wram!vars' # Wram!vars,
                      wram_request.op = "read", wram_request' = Wram!None
               PROVE  result' = Wram!Whole(wram_request) /\ wram_mem' = old
    OBVIOUS
  <2>1. Wram!Clock
    BY <1>2 DEF wramVars, Wram!vars
  <2> QED
    BY <2>1, WramReads DEF MemoriesIInv
<1>4. MemoriesIInv /\ [MemoriesNext]_allVars =>
          [wram_request.op = "write" /\ wram_request' = Wram!None =>
               wram_mem' = [w \in Wram!Cells |->
                   IF w[1] = "ram" /\ w[1] = wram_request.bank /\ w[2] = wram_request.long
                      /\ w[3] \in wram_request.sel
                   THEN 1 - old[w] ELSE old[w]]]_(Wram!vars)
  <2> SUFFICES ASSUME MemoriesIInv, [MemoriesNext]_allVars, Wram!vars' # Wram!vars,
                      wram_request.op = "write", wram_request' = Wram!None
               PROVE  wram_mem' = [w \in Wram!Cells |->
                          IF w[1] = "ram" /\ w[1] = wram_request.bank /\ w[2] = wram_request.long
                             /\ w[3] \in wram_request.sel
                          THEN 1 - old[w] ELSE old[w]]
    OBVIOUS
  <2>1. Wram!Clock
    BY <1>2 DEF wramVars, Wram!vars
  <2>2. wram_mem' = WithHalves({0, 1})
    BY <2>1, WramWritten DEF MemoriesIInv
  <2>3. ASSUME NEW w \in Wram!Cells
        PROVE  w[3] \in wram_request.sel \cap {0, 1} <=> w[3] \in wram_request.sel
    BY CellParts DEF Wram!Halves
  <2> QED
    BY <2>2, <2>3 DEF WithHalves
<1> QED
  BY <1>1, <1>3, <1>4, MemoriesInvariant, PTL
     DEF MemoriesSpec, OwnMemoryWhole, Wram!ReadWhole, Wram!WriteWhole
=============================================================================
