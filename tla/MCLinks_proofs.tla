---------------------------- MODULE MCLinks_proofs ----------------------------
(***************************************************************************)
(* Proofs about the way between the firmware and the cartridge and about   *)
(* the processor's devices: every call gets the answer to its own command, *)
(* the queue keeps the order and counts what it holds, the serial line     *)
(* does a transfer whole, a message comes out as it is to be read and a    *)
(* line comes in as it was typed, and a counter is read whole and set      *)
(* exactly.                                                                *)
(***************************************************************************)
EXTENDS MCLinks, SequenceTheorems, WellFoundedInduction, TLAPS

(***************************************************************************)
(* The long counters, for words of any size and for any times.             *)
(***************************************************************************)
\* The carry that the high word has still to take.
Pending == IF msb_ff # Counter!Carry THEN 1 ELSE 0

Setting == counter_pc \in {"clear_lo", "write_hi", "write_lo"}
Reading == counter_pc \in {"read_hi", "read_lo", "read_hi_again", "got"}

CounterTyped ==
    /\ Counter!TypeOK
    /\ cycles \in Nat /\ tmp1 \in Nat /\ tmp2 \in Nat /\ begun \in Nat
    /\ retries \in {0, 1}

\* While it is set the low word stays clear of its end.
SetParts ==
    /\ Setting => cycles \in 0 .. Lo * Hi - 1
    /\ counter_pc = "write_hi" => lo <= gap /\ msb_ff = 0
    /\ counter_pc = "write_lo" => lo <= MaxGap + 1 + gap /\ msb_ff = 0 /\ hi = cycles \div Lo

\* Accesses since the reading began.
Accesses ==
    3 * retries + (IF counter_pc = "read_hi" THEN 0
                   ELSE IF counter_pc = "read_lo" THEN 1
                   ELSE IF counter_pc = "read_hi_again" THEN 2 ELSE 3)

\* How long a reading takes, and what it began with.
ReadTime ==
    Reading =>
        /\ begun <= now
        /\ begun < Lo * (hi + 1)
        /\ now <= begun + 1 + Accesses * (MaxGap + 1) + gap

\* What the words read so far are worth.
ReadParts ==
    /\ counter_pc = "read_hi" /\ retries = 1 => begun < Lo * hi
    /\ counter_pc \in {"read_lo", "read_hi_again"} =>
           /\ tmp1 <= hi
           /\ begun < Lo * (tmp1 + 1)
           /\ retries = 1 => begun < Lo * tmp1
    /\ counter_pc = "read_hi_again" /\ hi = tmp1 =>
           begun <= Lo * tmp1 + tmp2 /\ Lo * tmp1 + tmp2 <= now
    /\ counter_pc = "got" => begun <= cycles /\ cycles <= now

CounterIInv == CounterTyped /\ Counter!Exact /\ SetParts /\ ReadTime /\ ReadParts
-----------------------------------------------------------------------------
(***************************************************************************)
(* Arithmetic.                                                             *)
(***************************************************************************)
\* The low word is below its range or, with the carry bit, once more.
LEMMA LowWord ==
    ASSUME NEW n \in Nat, n > 0, NEW x \in 0 .. 2 * n - 1
    PROVE  /\ x < n => x \div n = 0 /\ x % n = x
           /\ x >= n => x \div n = 1 /\ x % n = x - n
           /\ (x + 1) % (2 * n) = IF x + 1 = 2 * n THEN 0 ELSE x + 1
<1>1. CASE x < n
  BY <1>1, SMT
<1>2. CASE x >= n
  BY <1>2, SMT
<1> QED
  BY <1>1, <1>2, SMT

LEMMA Words ==
    ASSUME NEW n \in Nat, n > 0, NEW t \in Nat
    PROVE  /\ t \div n \in Nat /\ t % n \in 0 .. n - 1
           /\ t = n * (t \div n) + (t % n)
BY SMT

LEMMA OneMore ==
    ASSUME NEW n \in Nat, NEW a \in Nat
    PROVE  n * (a + 1) = n * a + n /\ n * a \in Nat
BY SMT

LEMMA Monotone ==
    ASSUME NEW n \in Nat, NEW a \in Nat, NEW b \in Nat, a <= b
    PROVE  n * a <= n * b /\ n * a \in Nat /\ n * b \in Nat
BY SMT

\* What is below the product has a high word below its factor.
LEMMA HighWord ==
    ASSUME NEW n \in Nat, n > 0, NEW m \in Nat, NEW a \in Nat, n * a < n * m
    PROVE  a < m /\ n * a + n <= n * m
<1>1. a < m
  <2>1. CASE m <= a
    BY <2>1, Monotone
  <2> QED
    BY <2>1
<1>2. n * (a + 1) <= n * m
  BY <1>1, Monotone
<1> QED
  BY <1>1, <1>2, OneMore

\* Constants as the proofs use them.
LEMMA Constants ==
    ASSUME Counter!CounterAssumption
    PROVE  /\ Lo \in Nat /\ Lo > 0 /\ Hi \in Nat /\ Hi > 0
           /\ MaxGap \in Nat /\ MaxGap > 0 /\ 6 * (MaxGap + 1) < Lo
           /\ Lo * Hi \in Nat /\ Times \subseteq 0 .. Lo * Hi - 1
<1>1. Lo \in Nat /\ Hi \in Nat
  BY DEF Counter!CounterAssumption
<1>2. Lo * Hi \in Nat
  BY <1>1, OneMore
<1> QED
  BY <1>2 DEF Counter!CounterAssumption
-----------------------------------------------------------------------------
(***************************************************************************)
(* A clock.                                                                *)
(***************************************************************************)
\* The high word and its carry are within what the model goes to.
LEMMA HighRoom ==
    ASSUME Counter!CounterAssumption, CounterIInv, Counter!Room
    PROVE  /\ hi + Pending < Hi /\ Pending \in {0, 1}
           /\ (Counter!CountHi => hi' = hi + Pending)
<1>1. Pending \in {0, 1} /\ hi \in Nat /\ hi + Pending \in Nat
  BY Constants DEF Pending, CounterIInv, CounterTyped, Counter!TypeOK
<1>2. now = Lo * (hi + Pending) + (lo % Lo)
  BY DEF CounterIInv, Counter!Exact, Pending
<1>3. lo % Lo \in 0 .. Lo - 1
  <2>1. lo \in Nat
    BY Constants DEF CounterIInv, CounterTyped, Counter!TypeOK
  <2> QED
    BY <2>1, Constants, Words
<1>4. Lo * (hi + Pending) \in Nat
  BY <1>1, Constants, OneMore
<1>5. Lo * (hi + Pending) < Lo * Hi
  BY <1>2, <1>3, <1>4, Constants DEF Counter!Room
<1>6. hi + Pending < Hi
  BY <1>1, <1>5, Constants, HighWord
<1>7. ASSUME Counter!CountHi PROVE hi' = hi + Pending
  <2>1. CASE msb_ff # Counter!Carry
    <3>1. hi + 1 < Hi /\ hi + 1 \in Nat
      BY <1>1, <1>6, <2>1 DEF Pending
    <3>2. (hi + 1) % Hi = hi + 1
      BY <3>1, Constants, SMT
    <3> QED
      BY <1>7, <2>1, <3>2 DEF Counter!CountHi, Pending
  <2>2. CASE msb_ff = Counter!Carry
    BY <1>1, <1>7, <2>2 DEF Counter!CountHi, Pending
  <2> QED
    BY <2>1, <2>2
<1> QED
  BY <1>1, <1>6, <1>7

\* How the low word and its carry bit go on.
LEMMA LowCounts ==
    ASSUME Counter!CounterAssumption, CounterIInv, Counter!CountLo
    PROVE  /\ lo' \in 0 .. 2 * Lo - 1 /\ msb_ff' \in {0, 1}
           /\ lo' = IF lo + 1 = 2 * Lo THEN 0 ELSE lo + 1
           /\ msb_ff' = IF lo < Lo THEN 0 ELSE 1
<1>1. lo \in 0 .. 2 * Lo - 1 /\ Lo \in Nat /\ Lo > 0
  BY Constants DEF CounterIInv, CounterTyped, Counter!TypeOK
<1>2. lo' = IF lo + 1 = 2 * Lo THEN 0 ELSE lo + 1
  BY <1>1, LowWord DEF Counter!CountLo
<1>3. msb_ff' = IF lo < Lo THEN 0 ELSE 1
  BY <1>1, LowWord DEF Counter!CountLo, Counter!Carry
<1> QED
  BY <1>1, <1>2, <1>3

\* A clock in which nothing is written keeps the worth of the words.
LEMMA ClockCounts ==
    ASSUME Counter!CounterAssumption, CounterIInv, Counter!Clock
    PROVE  /\ Counter!Exact' /\ hi' = hi + Pending /\ hi' \in 0 .. Hi - 1
           /\ lo' \in 0 .. 2 * Lo - 1 /\ msb_ff' \in {0, 1}
           /\ now' = now + 1 /\ now' \in 0 .. Lo * Hi - 1
<1> DEFINE P1 == IF msb_ff' # lo' \div Lo THEN 1 ELSE 0
<1>1. lo \in 0 .. 2 * Lo - 1 /\ Lo \in Nat /\ Lo > 0 /\ hi \in 0 .. Hi - 1 /\ Hi \in Nat
  BY Constants DEF CounterIInv, CounterTyped, Counter!TypeOK
<1>2. hi' = hi + Pending /\ hi + Pending < Hi /\ Pending \in {0, 1}
  BY HighRoom DEF Counter!Clock
<1>3. /\ lo' \in 0 .. 2 * Lo - 1 /\ msb_ff' \in {0, 1}
      /\ lo' = IF lo + 1 = 2 * Lo THEN 0 ELSE lo + 1
      /\ msb_ff' = IF lo < Lo THEN 0 ELSE 1
  BY LowCounts DEF Counter!Clock
<1>4. now' = now + 1 /\ now = Lo * hi' + (lo % Lo) /\ now \in Nat
  BY <1>2 DEF Counter!Clock, CounterIInv, Counter!Exact, Pending, CounterTyped, Counter!TypeOK
<1>5. Lo * (hi' + 1) = Lo * hi' + Lo /\ Lo * hi' \in Nat /\ hi' \in Nat
  BY <1>1, <1>2, OneMore
<1>6. /\ lo < Lo => lo % Lo = lo
      /\ lo >= Lo => lo % Lo = lo - Lo
  BY <1>1, LowWord
<1>7. /\ lo' < Lo => lo' \div Lo = 0 /\ lo' % Lo = lo'
      /\ lo' >= Lo => lo' \div Lo = 1 /\ lo' % Lo = lo' - Lo
  BY <1>1, <1>3, LowWord
<1>8. /\ msb_ff' = lo' \div Lo => P1 = 0
      /\ msb_ff' # lo' \div Lo => P1 = 1
  OBVIOUS
<1> HIDE DEF P1
<1>9. now' = Lo * (hi' + P1) + (lo' % Lo)
  <2>1. CASE lo = Lo - 1
    <3>1. lo' = Lo /\ msb_ff' = 0 /\ lo' \div Lo = 1 /\ lo' % Lo = 0
      BY <1>1, <1>3, <1>7, <2>1
    <3>2. P1 = 1
      BY <1>8, <3>1
    <3>3. now' = Lo * hi' + Lo
      BY <1>1, <1>4, <1>5, <1>6, <2>1
    <3> QED
      BY <1>5, <3>1, <3>2, <3>3
  <2>2. CASE lo = 2 * Lo - 1
    <3>1. lo' = 0 /\ msb_ff' = 1 /\ lo' \div Lo = 0 /\ lo' % Lo = 0
      BY <1>1, <1>3, <1>7, <2>2
    <3>2. P1 = 1
      BY <1>8, <3>1
    <3>3. now' = Lo * hi' + Lo
      BY <1>1, <1>4, <1>5, <1>6, <2>2
    <3> QED
      BY <1>5, <3>1, <3>2, <3>3
  <2>3. CASE lo # Lo - 1 /\ lo # 2 * Lo - 1
    <3>1. lo' = lo + 1 /\ (lo < Lo => lo' < Lo) /\ (lo >= Lo => lo' >= Lo)
      BY <1>1, <1>3, <2>3
    <3>2. msb_ff' = lo' \div Lo /\ lo' % Lo = (lo % Lo) + 1
      BY <1>1, <1>3, <1>6, <1>7, <3>1
    <3>3. P1 = 0
      BY <1>8, <3>2
    <3>4. lo % Lo \in Nat
      BY <1>1, <1>6
    <3> QED
      BY <1>4, <1>5, <3>2, <3>3, <3>4
  <2> QED
    BY <2>1, <2>2, <2>3
<1>10. Counter!Exact'
  BY <1>9 DEF Counter!Exact, Counter!Carry, P1
<1> QED
  BY <1>1, <1>2, <1>3, <1>4, <1>10, Constants DEF Counter!Clock, Counter!Room

\* The high word only grows, and the low one is what it lacks.
LEMMA HighOnlyGrows ==
    ASSUME Counter!CounterAssumption, CounterIInv, Counter!Clock
    PROVE  /\ hi \in Nat /\ hi' \in Nat /\ hi <= hi' /\ hi' = hi + Pending
           /\ Lo * hi \in Nat /\ Lo * hi' \in Nat /\ Lo * hi <= Lo * hi'
           /\ Lo * (hi + 1) \in Nat /\ Lo * (hi' + 1) \in Nat /\ Lo * (hi + 1) <= Lo * (hi' + 1)
           /\ now = Lo * hi' + (lo % Lo) /\ lo % Lo \in Nat
           /\ now < Lo * (hi' + 1)
           /\ now \in Nat /\ now' = now + 1
<1>1. hi \in Nat /\ Pending \in {0, 1} /\ hi' = hi + Pending /\ Lo \in Nat /\ Lo > 0
  BY Constants, HighRoom, ClockCounts DEF Counter!Clock, CounterIInv, CounterTyped, Counter!TypeOK
<1>2. hi <= hi' /\ hi' \in Nat /\ hi + 1 <= hi' + 1 /\ hi + 1 \in Nat /\ hi' + 1 \in Nat
  BY <1>1
<1>3. Lo * hi <= Lo * hi' /\ Lo * hi \in Nat /\ Lo * hi' \in Nat
  BY <1>1, <1>2, Monotone
<1>4. Lo * (hi + 1) <= Lo * (hi' + 1) /\ Lo * (hi + 1) \in Nat /\ Lo * (hi' + 1) \in Nat
  BY <1>1, <1>2, Monotone
<1>5. now = Lo * hi' + (lo % Lo)
  BY <1>1 DEF CounterIInv, Counter!Exact, Pending
<1>6. lo % Lo \in 0 .. Lo - 1
  <2>1. lo \in Nat
    BY Constants DEF CounterIInv, CounterTyped, Counter!TypeOK
  <2> QED
    BY <1>1, <2>1, Words
<1>7. Lo * (hi' + 1) = Lo * hi' + Lo
  BY <1>1, <1>2, OneMore
<1>8. now \in Nat /\ now' = now + 1
  BY Constants, ClockCounts DEF CounterIInv, CounterTyped, Counter!TypeOK
<1>9. lo % Lo \in Nat /\ now < Lo * (hi' + 1)
  BY <1>1, <1>3, <1>5, <1>6, <1>7
<1> QED
  BY <1>1, <1>2, <1>3, <1>4, <1>5, <1>8, <1>9
-----------------------------------------------------------------------------
(***************************************************************************)
(* The invariant.                                                          *)
(***************************************************************************)
LEMMA InitInvariant == Counter!CounterAssumption /\ Counter!Init => CounterIInv
<1> SUFFICES ASSUME Counter!CounterAssumption, Counter!Init PROVE CounterIInv
  OBVIOUS
<1>1. PICK t \in Times : lo = t % Lo /\ hi = t \div Lo /\ now = t
  BY DEF Counter!Init
<1>2. t \in 0 .. Lo * Hi - 1 /\ t \in Nat /\ Lo \in Nat /\ Lo > 0 /\ Hi \in Nat
  BY Constants
<1>3. lo \in 0 .. Lo - 1 /\ hi \in Nat /\ now = Lo * hi + lo
  BY <1>1, <1>2, Words
<1>4. hi \in 0 .. Hi - 1
  <2>1. Lo * hi \in Nat
    BY <1>2, <1>3, OneMore
  <2>2. Lo * hi < Lo * Hi
    BY <1>1, <1>2, <1>3, <2>1, Constants
  <2> QED
    BY <1>2, <1>3, <2>2, HighWord
<1>5. lo \in 0 .. 2 * Lo - 1 /\ lo < Lo
  BY <1>2, <1>3
<1>6. lo \div Lo = 0 /\ lo % Lo = lo
  BY <1>2, <1>5, LowWord
<1>7. Counter!Exact
  <2>1. Counter!Carry = 0 /\ msb_ff = 0
    BY <1>6 DEF Counter!Carry, Counter!Init
  <2>2. hi + (IF msb_ff # Counter!Carry THEN 1 ELSE 0) = hi
    BY <1>3, <2>1
  <2> QED
    BY <1>3, <1>6, <2>2 DEF Counter!Exact
<1>8. CounterTyped
  BY <1>1, <1>2, <1>4, <1>5, Constants DEF CounterTyped, Counter!TypeOK, Counter!Init
<1>9. SetParts /\ ReadTime /\ ReadParts
  BY DEF Counter!Init, SetParts, ReadTime, ReadParts, Setting, Reading
<1> QED
  BY <1>7, <1>8, <1>9 DEF CounterIInv

\* A step of the library that sets nothing keeps the worth and the types.
LEMMA ClockTypes ==
    ASSUME Counter!CounterAssumption, CounterIInv, Counter!Clock,
           gap' \in 0 .. MaxGap,
           counter_pc' \in {"idle", "read_hi", "read_lo", "read_hi_again", "got", "clear_lo",
                    "write_hi", "write_lo"},
           cycles' \in Nat, tmp1' \in Nat, tmp2' \in Nat, begun' \in Nat,
           retries' \in {0, 1}
    PROVE  CounterTyped' /\ Counter!Exact'
BY ClockCounts DEF CounterTyped, Counter!TypeOK

\* An access and the clocks before it.
LEMMA AccessTime ==
    ASSUME NEW a \in Nat, NEW m \in Nat
    PROVE  /\ a * (m + 1) \in Nat
           /\ (a + 1) * (m + 1) = a * (m + 1) + m + 1
BY SMT

LEMMA AccessesTyped == CounterIInv => Accesses \in Nat
BY DEF CounterIInv, CounterTyped, Accesses

LEMMA WaitStep == Counter!CounterAssumption /\ CounterIInv /\ Counter!Wait => CounterIInv'
<1> SUFFICES ASSUME Counter!CounterAssumption, CounterIInv, Counter!Wait PROVE CounterIInv'
  OBVIOUS
<1>1. Counter!Clock /\ UNCHANGED <<counter_pc, call, cycles, tmp1, tmp2, resume, count, begun, retries>>
  BY DEF Counter!Wait
<1>2. gap \in 0 .. MaxGap /\ MaxGap \in Nat /\ Lo \in Nat /\ Lo > 0
  BY Constants DEF CounterIInv, CounterTyped, Counter!TypeOK
<1>3. /\ counter_pc # "idle" => gap' = gap + 1 /\ gap < MaxGap
      /\ gap' \in 0 .. MaxGap
  BY <1>2 DEF Counter!Wait
<1>4. CounterTyped' /\ Counter!Exact'
  BY <1>1, <1>3, ClockTypes DEF CounterIInv, CounterTyped, Counter!TypeOK
<1>5. /\ hi <= hi' /\ hi \in Nat /\ hi' \in Nat /\ hi' = hi + Pending
      /\ Lo * hi <= Lo * hi' /\ Lo * (hi + 1) <= Lo * (hi' + 1)
      /\ Lo * hi \in Nat /\ Lo * hi' \in Nat
      /\ Lo * (hi + 1) \in Nat /\ Lo * (hi' + 1) \in Nat
      /\ now \in Nat /\ now' = now + 1
  BY <1>1, HighOnlyGrows
<1>6. SetParts'
  <2>1. lo \in Nat /\ lo < Lo /\ msb_ff = 0 => lo' = lo + 1 /\ msb_ff' = 0 /\ hi' = hi
    <3> SUFFICES ASSUME lo \in Nat, lo < Lo, msb_ff = 0
                 PROVE  lo' = lo + 1 /\ msb_ff' = 0 /\ hi' = hi
      OBVIOUS
    <3>1. lo \in 0 .. 2 * Lo - 1 /\ lo + 1 # 2 * Lo
      BY <1>2
    <3>2. Counter!Carry = 0
      BY <1>2, <3>1, LowWord DEF Counter!Carry
    <3>3. lo' = lo + 1 /\ msb_ff' = 0
      BY <1>1, <3>1, LowCounts DEF Counter!Clock
    <3>4. Pending = 0
      BY <3>2 DEF Pending
    <3> QED
      BY <1>5, <3>3, <3>4
  <2>2. lo \in Nat /\ 6 * (MaxGap + 1) < Lo
    BY Constants DEF CounterIInv, CounterTyped, Counter!TypeOK
  <2>3. counter_pc' = "write_hi" => lo' <= gap' /\ msb_ff' = 0
    BY <1>1, <1>2, <1>3, <2>1, <2>2 DEF CounterIInv, SetParts
  <2>4. counter_pc' = "write_lo" => lo' <= MaxGap + 1 + gap' /\ msb_ff' = 0 /\ hi' = cycles' \div Lo
    BY <1>1, <1>2, <1>3, <2>1, <2>2 DEF CounterIInv, SetParts
  <2> QED
    BY <1>1, <2>3, <2>4 DEF CounterIInv, SetParts, Setting
<1>7. ReadTime'
  <2> SUFFICES ASSUME Reading'
               PROVE  /\ begun' <= now' /\ begun' < Lo * (hi' + 1)
                      /\ now' <= begun' + 1 + Accesses' * (MaxGap + 1) + gap'
    BY DEF ReadTime
  <2>1. Reading /\ Accesses' = Accesses
    BY <1>1 DEF Reading, Accesses
  <2>2. begun \in Nat /\ Accesses \in Nat
    BY AccessesTyped DEF CounterIInv, CounterTyped
  <2>3. Accesses * (MaxGap + 1) \in Nat
    BY <1>2, <2>2, AccessTime
  <2>4. begun <= now /\ begun < Lo * (hi + 1) /\ now <= begun + 1 + Accesses * (MaxGap + 1) + gap
    BY <2>1 DEF CounterIInv, ReadTime
  <2>5. gap' = gap + 1 /\ begun' = begun
    BY <1>1, <1>3, <2>1 DEF Reading
  <2> QED
    BY <1>2, <1>5, <2>1, <2>2, <2>3, <2>4, <2>5
<1>8. ReadParts'
  <2>1. begun \in Nat /\ cycles \in Nat /\ tmp1 \in Nat /\ tmp2 \in Nat
    BY DEF CounterIInv, CounterTyped
  <2>2. Lo * tmp1 \in Nat
    BY <1>2, <2>1, OneMore
  <2>3. counter_pc' = "read_hi" /\ retries' = 1 => begun' < Lo * hi'
    BY <1>1, <1>5, <2>1 DEF CounterIInv, ReadParts
  <2>4. counter_pc' \in {"read_lo", "read_hi_again"} =>
            tmp1' <= hi' /\ begun' < Lo * (tmp1' + 1) /\ (retries' = 1 => begun' < Lo * tmp1')
    BY <1>1, <1>5, <2>1 DEF CounterIInv, ReadParts
  <2>5. counter_pc' = "read_hi_again" /\ hi' = tmp1' =>
            begun' <= Lo * tmp1' + tmp2' /\ Lo * tmp1' + tmp2' <= now'
    <3> SUFFICES ASSUME counter_pc' = "read_hi_again", hi' = tmp1'
                 PROVE  begun <= Lo * tmp1 + tmp2 /\ Lo * tmp1 + tmp2 <= now'
      BY <1>1
    <3>1. counter_pc = "read_hi_again" /\ tmp1 <= hi /\ hi <= tmp1
      BY <1>1, <1>5 DEF CounterIInv, ReadParts
    <3>2. hi = tmp1
      BY <1>5, <2>1, <3>1
    <3>3. begun <= Lo * tmp1 + tmp2 /\ Lo * tmp1 + tmp2 <= now
      BY <3>1, <3>2 DEF CounterIInv, ReadParts
    <3> QED
      BY <1>5, <2>1, <2>2, <3>3
  <2>6. counter_pc' = "got" => begun' <= cycles' /\ cycles' <= now'
    BY <1>1, <1>5, <2>1 DEF CounterIInv, ReadParts
  <2> QED
    BY <2>3, <2>4, <2>5, <2>6 DEF ReadParts
<1> QED
  BY <1>4, <1>6, <1>7, <1>8 DEF CounterIInv
\* A reading that begins.
LEMMA BeginRead ==
    ASSUME Counter!CounterAssumption, CounterIInv, Counter!Clock,
           counter_pc' = "read_hi", begun' = now, retries' = 0, gap' = 0
    PROVE  SetParts' /\ ReadTime' /\ ReadParts'
<1>1. now \in Nat /\ now' = now + 1 /\ now < Lo * (hi' + 1) /\ MaxGap \in Nat
  BY HighOnlyGrows, Constants
<1>2. Accesses' = 0
  BY DEF Accesses
<1>3. Accesses' * (MaxGap + 1) = 0
  BY <1>1, <1>2
<1>4. ReadTime'
  BY <1>1, <1>3 DEF ReadTime
<1> QED
  BY <1>4 DEF SetParts, ReadParts, Setting

\* An access of a reading takes its time.
LEMMA ReadTimeStep ==
    ASSUME Counter!CounterAssumption, CounterIInv, Counter!Clock, Reading,
           begun' = begun, gap' = 0, Accesses' = Accesses + 1
    PROVE  ReadTime'
<1>1. /\ begun <= now /\ begun < Lo * (hi + 1)
      /\ now <= begun + 1 + Accesses * (MaxGap + 1) + gap
      /\ begun \in Nat /\ gap \in 0 .. MaxGap
  BY DEF CounterIInv, ReadTime, CounterTyped, Counter!TypeOK
<1>2. Accesses \in Nat /\ MaxGap \in Nat
  BY AccessesTyped, Constants
<1>3. Accesses * (MaxGap + 1) \in Nat
      /\ (Accesses + 1) * (MaxGap + 1) = Accesses * (MaxGap + 1) + MaxGap + 1
  BY <1>2, AccessTime
<1>4. /\ Lo * (hi + 1) \in Nat /\ Lo * (hi' + 1) \in Nat /\ Lo * (hi + 1) <= Lo * (hi' + 1)
      /\ now \in Nat /\ now' = now + 1
  BY HighOnlyGrows
<1>5. begun' <= now' /\ begun' < Lo * (hi' + 1)
  BY <1>1, <1>4
<1>6. now' <= begun' + 1 + Accesses' * (MaxGap + 1) + gap'
  BY <1>1, <1>2, <1>3, <1>4
<1> QED
  BY <1>5, <1>6 DEF ReadTime

LEMMA GetTimeStep ==
    Counter!CounterAssumption /\ CounterIInv /\ (Counter!GetTime \/ Counter!Delay) => CounterIInv'
<1> SUFFICES ASSUME Counter!CounterAssumption, CounterIInv, Counter!GetTime \/ Counter!Delay
             PROVE  CounterIInv'
  OBVIOUS
<1>1. /\ Counter!Clock /\ counter_pc' = "read_hi" /\ begun' = now /\ retries' = 0 /\ gap' = 0
      /\ UNCHANGED <<cycles, tmp1, tmp2>>
  BY DEF Counter!GetTime, Counter!Delay, Counter!Begin
<1>2. CounterTyped' /\ Counter!Exact'
  <2>1. now \in Nat /\ 0 \in 0 .. MaxGap
    BY HighOnlyGrows, Constants, <1>1
  <2> QED
    BY <1>1, <2>1, ClockTypes DEF CounterIInv, CounterTyped
<1> QED
  BY <1>1, <1>2, BeginRead DEF CounterIInv

LEMMA SetTimeStep == Counter!CounterAssumption /\ CounterIInv /\ Counter!SetTime => CounterIInv'
<1> SUFFICES ASSUME Counter!CounterAssumption, CounterIInv, Counter!SetTime PROVE CounterIInv'
  OBVIOUS
<1>1. /\ Counter!Clock /\ counter_pc' = "clear_lo" /\ begun' = now /\ retries' = 0 /\ gap' = 0
      /\ UNCHANGED <<tmp1, tmp2>> /\ cycles' \in Times
  BY DEF Counter!SetTime, Counter!Begin
<1>2. cycles' \in 0 .. Lo * Hi - 1 /\ cycles' \in Nat
  BY <1>1, Constants
<1>3. CounterTyped' /\ Counter!Exact'
  <2>1. now \in Nat /\ 0 \in 0 .. MaxGap
    BY HighOnlyGrows, Constants, <1>1
  <2> QED
    BY <1>1, <1>2, <2>1, ClockTypes DEF CounterIInv, CounterTyped
<1>4. SetParts' /\ ReadTime' /\ ReadParts'
  BY <1>1, <1>2 DEF SetParts, ReadTime, ReadParts, Setting, Reading
<1> QED
  BY <1>3, <1>4 DEF CounterIInv

LEMMA ReadHiStep == Counter!CounterAssumption /\ CounterIInv /\ Counter!ReadHi => CounterIInv'
<1> SUFFICES ASSUME Counter!CounterAssumption, CounterIInv, Counter!ReadHi PROVE CounterIInv'
  OBVIOUS
<1>1. /\ Counter!Clock /\ counter_pc = "read_hi" /\ counter_pc' = "read_lo" /\ tmp1' = hi /\ gap' = 0
      /\ UNCHANGED <<cycles, tmp2, begun, retries>>
  BY DEF Counter!ReadHi, Counter!Access
<1>2. hi \in Nat /\ hi <= hi' /\ Reading /\ retries \in {0, 1}
  BY <1>1, HighOnlyGrows DEF Reading, CounterIInv, CounterTyped
<1>3. CounterTyped' /\ Counter!Exact'
  <2>1. 0 \in 0 .. MaxGap
    BY Constants
  <2> QED
    BY <1>1, <1>2, <2>1, ClockTypes DEF CounterIInv, CounterTyped
<1>4. ReadTime'
  <2>1. Accesses' = Accesses + 1
    BY <1>1, <1>2 DEF Accesses
  <2> QED
    BY <1>1, <1>2, <2>1, ReadTimeStep
<1>5. ReadParts'
  BY <1>1, <1>2 DEF CounterIInv, ReadTime, ReadParts
<1>6. SetParts'
  BY <1>1 DEF SetParts, Setting
<1> QED
  BY <1>3, <1>4, <1>5, <1>6 DEF CounterIInv

LEMMA ReadLoStep == Counter!CounterAssumption /\ CounterIInv /\ Counter!ReadLo => CounterIInv'
<1> SUFFICES ASSUME Counter!CounterAssumption, CounterIInv, Counter!ReadLo PROVE CounterIInv'
  OBVIOUS
<1>1. /\ Counter!Clock /\ counter_pc = "read_lo" /\ counter_pc' = "read_hi_again" /\ tmp2' = lo % Lo /\ gap' = 0
      /\ UNCHANGED <<cycles, tmp1, begun, retries>>
  BY DEF Counter!ReadLo, Counter!Access
<1>2. /\ hi \in Nat /\ hi' \in Nat /\ hi <= hi' /\ now = Lo * hi' + (lo % Lo) /\ lo % Lo \in Nat
      /\ now \in Nat /\ now' = now + 1
  BY <1>1, HighOnlyGrows
<1>3. Reading /\ retries \in {0, 1} /\ begun \in Nat /\ tmp1 \in Nat
  BY <1>1 DEF Reading, CounterIInv, CounterTyped
<1>4. CounterTyped' /\ Counter!Exact'
  <2>1. 0 \in 0 .. MaxGap
    BY Constants
  <2> QED
    BY <1>1, <1>2, <2>1, ClockTypes DEF CounterIInv, CounterTyped
<1>5. ReadTime'
  <2>1. Accesses' = Accesses + 1
    BY <1>1, <1>3 DEF Accesses
  <2> QED
    BY <1>1, <1>3, <2>1, ReadTimeStep
<1>6. ReadParts'
  <2>1. tmp1' <= hi' /\ begun' < Lo * (tmp1' + 1) /\ (retries' = 1 => begun' < Lo * tmp1')
    BY <1>1, <1>2, <1>3 DEF CounterIInv, ReadParts
  <2>2. hi' = tmp1' => begun' <= Lo * tmp1' + tmp2' /\ Lo * tmp1' + tmp2' <= now'
    <3> SUFFICES ASSUME hi' = tmp1'
                 PROVE  begun' <= Lo * tmp1' + tmp2' /\ Lo * tmp1' + tmp2' <= now'
      OBVIOUS
    <3>1. Lo * tmp1' + tmp2' = now
      BY <1>1, <1>2
    <3>2. begun <= now
      BY <1>3 DEF CounterIInv, ReadTime
    <3> QED
      BY <1>1, <1>2, <1>3, <3>1, <3>2
  <2> QED
    BY <1>1, <2>1, <2>2 DEF ReadParts
<1>7. SetParts'
  BY <1>1 DEF SetParts, Setting
<1> QED
  BY <1>4, <1>5, <1>6, <1>7 DEF CounterIInv

LEMMA ReadHiAgainStep ==
    Counter!CounterAssumption /\ CounterIInv /\ Counter!ReadHiAgain => CounterIInv'
<1> SUFFICES ASSUME Counter!CounterAssumption, CounterIInv, Counter!ReadHiAgain PROVE CounterIInv'
  OBVIOUS
<1>1. /\ Counter!Clock /\ counter_pc = "read_hi_again" /\ gap' = 0 /\ UNCHANGED <<tmp1, tmp2, begun>>
      /\ hi = tmp1 => cycles' = Lo * hi + tmp2 /\ counter_pc' = "got" /\ retries' = retries
      /\ hi # tmp1 => counter_pc' = "read_hi" /\ retries' = retries + 1 /\ cycles' = cycles
  BY DEF Counter!ReadHiAgain, Counter!Access
<1>2. /\ hi \in Nat /\ hi' \in Nat /\ hi <= hi' /\ Lo * hi \in Nat /\ Lo * hi' \in Nat
      /\ Lo * hi <= Lo * hi' /\ now = Lo * hi' + (lo % Lo) /\ lo % Lo \in Nat
      /\ now \in Nat /\ now' = now + 1
  BY <1>1, HighOnlyGrows
<1>3. /\ Reading /\ retries \in {0, 1} /\ begun \in Nat /\ tmp1 \in Nat /\ tmp2 \in Nat
      /\ cycles \in Nat
  BY <1>1 DEF Reading, CounterIInv, CounterTyped
<1>4. SetParts'
  BY <1>1 DEF SetParts, Setting
<1>5. 0 \in 0 .. MaxGap /\ Lo \in Nat
  BY Constants
<1>6. CASE hi = tmp1
  <2>1. begun <= cycles' /\ cycles' <= now
    BY <1>1, <1>6 DEF CounterIInv, ReadParts
  <2>2. cycles' \in Nat
    BY <1>1, <1>2, <1>3, <1>6
  <2>3. CounterTyped' /\ Counter!Exact'
    BY <1>1, <1>3, <1>5, <1>6, <2>2, ClockTypes
  <2>4. ReadTime'
    <3>1. Accesses' = Accesses + 1
      BY <1>1, <1>3, <1>6 DEF Accesses
    <3> QED
      BY <1>1, <1>3, <3>1, ReadTimeStep
  <2>5. ReadParts'
    BY <1>1, <1>2, <1>3, <1>6, <2>1, <2>2 DEF ReadParts
  <2> QED
    BY <1>4, <2>3, <2>4, <2>5 DEF CounterIInv
\* It has carried: so it was before the word read first, and it has not twice.
<1>7. CASE hi # tmp1
  <2>1. tmp1 + 1 <= hi /\ tmp1 + 1 \in Nat
    BY <1>1, <1>2, <1>3, <1>7 DEF CounterIInv, ReadParts
  <2>2. Lo * (tmp1 + 1) <= Lo * hi /\ Lo * (tmp1 + 1) = Lo * tmp1 + Lo /\ Lo * tmp1 \in Nat
    BY <1>2, <1>3, <1>5, <2>1, Monotone, OneMore
  <2>3. retries = 0
    <3> SUFFICES ASSUME retries = 1 PROVE FALSE
      BY <1>3
    <3>1. begun < Lo * tmp1
      BY <1>1 DEF CounterIInv, ReadParts
    <3>2. begun + Lo < now
      BY <1>2, <1>3, <1>5, <2>2, <3>1
    <3>3. Accesses = 5 /\ now <= begun + 1 + Accesses * (MaxGap + 1) + gap
      BY <1>1, <1>3 DEF CounterIInv, ReadTime, Accesses
    <3>4. gap \in 0 .. MaxGap /\ MaxGap \in Nat /\ 6 * (MaxGap + 1) < Lo
      BY Constants DEF CounterIInv, CounterTyped, Counter!TypeOK
    <3>5. now <= begun + 1 + 5 * (MaxGap + 1) + MaxGap
      BY <1>2, <1>3, <3>3, <3>4
    <3> QED
      BY <1>2, <1>3, <1>5, <3>2, <3>4, <3>5
  <2>4. CounterTyped' /\ Counter!Exact'
    BY <1>1, <1>3, <1>5, <1>7, <2>3, ClockTypes
  <2>5. ReadTime'
    <3>1. Accesses' = Accesses + 1
      BY <1>1, <1>7, <2>3 DEF Accesses
    <3> QED
      BY <1>1, <1>3, <3>1, ReadTimeStep
  <2>6. begun' < Lo * hi'
    <3>1. begun < Lo * (tmp1 + 1)
      BY <1>1 DEF CounterIInv, ReadParts
    <3>2. Lo * (tmp1 + 1) \in Nat
      BY <1>5, <2>1, Monotone
    <3>3. begun < Lo * hi
      BY <1>2, <1>3, <2>2, <3>1, <3>2
    <3> QED
      BY <1>1, <1>2, <1>3, <3>3
  <2>7. ReadParts'
    BY <1>1, <1>7, <2>6 DEF ReadParts
  <2> QED
    BY <1>4, <2>4, <2>5, <2>7 DEF CounterIInv
<1> QED
  BY <1>6, <1>7

LEMMA ReturnStep == Counter!CounterAssumption /\ CounterIInv /\ Counter!Return => CounterIInv'
<1> SUFFICES ASSUME Counter!CounterAssumption, CounterIInv, Counter!Return PROVE CounterIInv'
  OBVIOUS
<1>1. /\ Counter!Clock /\ counter_pc' \in {"read_hi", "idle"} /\ begun' = now /\ retries' = 0 /\ gap' = 0
      /\ UNCHANGED <<cycles, tmp1, tmp2>>
  BY DEF Counter!Return, Counter!Access
<1>2. CounterTyped' /\ Counter!Exact'
  <2>1. now \in Nat /\ 0 \in 0 .. MaxGap
    BY HighOnlyGrows, Constants, <1>1
  <2> QED
    BY <1>1, <2>1, ClockTypes DEF CounterIInv, CounterTyped
<1>3. CASE counter_pc' = "read_hi"
  BY <1>1, <1>2, <1>3, BeginRead DEF CounterIInv
<1>4. CASE counter_pc' = "idle"
  BY <1>2, <1>4 DEF CounterIInv, SetParts, ReadTime, ReadParts, Setting, Reading
<1> QED
  BY <1>1, <1>3, <1>4

\* The worth of the words when the low one has just been cleared, or written.
LEMMA WrittenLow ==
    ASSUME Counter!CounterAssumption, NEW x \in 0 .. Lo - 1, NEW h \in 0 .. Hi - 1,
           lo' = x, msb_ff' = 0, hi' = h, now' = Lo * h + x
    PROVE  Counter!Exact' /\ lo' \in 0 .. 2 * Lo - 1 /\ now' \in 0 .. Lo * Hi - 1
<1>1. Lo \in Nat /\ Lo > 0 /\ Hi \in Nat /\ Lo * Hi \in Nat
  BY Constants
<1>2. x \in 0 .. 2 * Lo - 1 /\ x < Lo
  BY <1>1
<1>3. x \div Lo = 0 /\ x % Lo = x
  BY <1>1, <1>2, LowWord
<1>4. Counter!Exact'
  <2>1. Counter!Carry' = 0
    BY <1>3 DEF Counter!Carry
  <2>2. hi' + (IF msb_ff' # Counter!Carry' THEN 1 ELSE 0) = h
    BY <1>1, <2>1
  <2> QED
    BY <1>3, <2>2 DEF Counter!Exact
<1>5. Lo * h + Lo <= Lo * Hi /\ Lo * h \in Nat
  <2>1. h + 1 <= Hi /\ h \in Nat /\ h + 1 \in Nat
    BY <1>1
  <2>2. Lo * (h + 1) <= Lo * Hi
    BY <1>1, <2>1, Monotone
  <2> QED
    BY <1>1, <2>1, <2>2, OneMore
<1>6. now' \in 0 .. Lo * Hi - 1
  BY <1>1, <1>2, <1>5
<1> QED
  BY <1>2, <1>4, <1>6

LEMMA ClearLoStep == Counter!CounterAssumption /\ CounterIInv /\ Counter!ClearLo => CounterIInv'
<1> SUFFICES ASSUME Counter!CounterAssumption, CounterIInv, Counter!ClearLo PROVE CounterIInv'
  OBVIOUS
<1>1. /\ counter_pc = "clear_lo" /\ counter_pc' = "write_hi" /\ gap' = 0 /\ lo' = 0 /\ msb_ff' = 0
      /\ now' = Lo * hi' /\ Counter!CountHi /\ Counter!Room
      /\ UNCHANGED <<cycles, tmp1, tmp2, begun, retries>>
  BY DEF Counter!ClearLo, Counter!Access
<1>2. hi' \in 0 .. Hi - 1 /\ hi' \in Nat
  <2>1. hi' = hi + Pending /\ hi + Pending < Hi /\ Pending \in {0, 1} /\ hi \in Nat
    BY <1>1, HighRoom DEF CounterIInv, CounterTyped, Counter!TypeOK
  <2> QED
    BY <2>1, Constants
<1>3. now' = Lo * hi' + 0 /\ 0 \in 0 .. Lo - 1 /\ 0 \in 0 .. MaxGap
  <2>1. Lo * hi' \in Nat
    BY <1>2, Constants, OneMore
  <2> QED
    BY <1>1, <2>1, Constants
<1>4. Counter!Exact' /\ lo' \in 0 .. 2 * Lo - 1 /\ now' \in 0 .. Lo * Hi - 1
  BY <1>1, <1>2, <1>3, WrittenLow
<1>5. CounterTyped'
  BY <1>1, <1>2, <1>3, <1>4 DEF CounterIInv, CounterTyped, Counter!TypeOK
<1>6. SetParts'
  BY <1>1 DEF CounterIInv, SetParts, Setting
<1>7. ReadTime' /\ ReadParts'
  BY <1>1 DEF ReadTime, ReadParts, Reading
<1> QED
  BY <1>4, <1>5, <1>6, <1>7 DEF CounterIInv

\* What is to be set is in the range of the words.
LEMMA SetRange ==
    ASSUME Counter!CounterAssumption, CounterIInv, Setting
    PROVE  /\ cycles \div Lo \in 0 .. Hi - 1 /\ cycles % Lo \in 0 .. Lo - 1
           /\ cycles = Lo * (cycles \div Lo) + (cycles % Lo)
<1>1. cycles \in Nat /\ cycles < Lo * Hi /\ Lo \in Nat /\ Lo > 0 /\ Hi \in Nat /\ Lo * Hi \in Nat
  BY Constants DEF CounterIInv, SetParts
<1>2. /\ cycles \div Lo \in Nat /\ cycles % Lo \in 0 .. Lo - 1
      /\ cycles = Lo * (cycles \div Lo) + (cycles % Lo)
  BY <1>1, Words
<1>3. Lo * (cycles \div Lo) \in Nat
  BY <1>1, <1>2, OneMore
<1>4. Lo * (cycles \div Lo) < Lo * Hi
  BY <1>1, <1>2, <1>3
<1>5. cycles \div Lo < Hi
  BY <1>1, <1>2, <1>4, HighWord
<1> QED
  BY <1>1, <1>2, <1>5

\* While the words are written the low one does not carry.
LEMMA NoCarry ==
    ASSUME Counter!CounterAssumption, CounterIInv, counter_pc \in {"write_hi", "write_lo"}
    PROVE  lo \in Nat /\ lo + 1 < Lo /\ msb_ff = 0 /\ Counter!Carry = 0
<1>1. /\ lo \in 0 .. 2 * Lo - 1 /\ gap \in 0 .. MaxGap /\ MaxGap \in Nat /\ MaxGap > 0
      /\ Lo \in Nat /\ Lo > 0 /\ 6 * (MaxGap + 1) < Lo
  BY Constants DEF CounterIInv, CounterTyped, Counter!TypeOK
<1>2. msb_ff = 0 /\ lo <= MaxGap + 1 + gap
  BY <1>1 DEF CounterIInv, SetParts
<1>3. lo + 1 < Lo /\ lo \in Nat
  BY <1>1, <1>2
<1>4. lo < Lo
  BY <1>1, <1>3
<1> QED
  BY <1>1, <1>2, <1>3, <1>4, LowWord DEF Counter!Carry

LEMMA WriteHiStep == Counter!CounterAssumption /\ CounterIInv /\ Counter!WriteHi => CounterIInv'
<1> SUFFICES ASSUME Counter!CounterAssumption, CounterIInv, Counter!WriteHi PROVE CounterIInv'
  OBVIOUS
<1>1. /\ counter_pc = "write_hi" /\ counter_pc' = "write_lo" /\ gap' = 0 /\ Counter!CountLo
      /\ hi' = cycles \div Lo /\ now' = Lo * hi' + (lo' % Lo)
      /\ UNCHANGED <<cycles, tmp1, tmp2, begun, retries>>
  BY DEF Counter!WriteHi, Counter!Access
<1>2. lo \in Nat /\ lo + 1 < Lo /\ Lo \in Nat /\ Lo > 0 /\ 0 \in 0 .. MaxGap /\ MaxGap \in Nat
  BY <1>1, NoCarry, Constants
<1>3. lo' = lo + 1 /\ msb_ff' = 0
  BY <1>1, <1>2, LowCounts
<1>4. lo' \in 0 .. Lo - 1 /\ lo' \in 0 .. 2 * Lo - 1 /\ lo' < Lo
  BY <1>2, <1>3
<1>5. lo' % Lo = lo'
  BY <1>2, <1>4, LowWord
<1>6. hi' \in 0 .. Hi - 1
  BY <1>1, SetRange DEF Setting
<1>7. Counter!Exact' /\ now' \in 0 .. Lo * Hi - 1
  BY <1>1, <1>3, <1>4, <1>5, <1>6, WrittenLow
<1>8. CounterTyped'
  BY <1>1, <1>2, <1>3, <1>4, <1>6, <1>7 DEF CounterIInv, CounterTyped, Counter!TypeOK
<1>9. SetParts'
  <2>1. lo <= gap /\ gap \in 0 .. MaxGap
    BY <1>1 DEF CounterIInv, SetParts, CounterTyped, Counter!TypeOK
  <2>2. lo' <= MaxGap + 1 + gap'
    BY <1>1, <1>2, <1>3, <2>1
  <2> QED
    BY <1>1, <1>3, <2>2 DEF CounterIInv, SetParts, Setting
<1>10. ReadTime' /\ ReadParts'
  BY <1>1 DEF ReadTime, ReadParts, Reading
<1> QED
  BY <1>7, <1>8, <1>9, <1>10 DEF CounterIInv

LEMMA WriteLoStep == Counter!CounterAssumption /\ CounterIInv /\ Counter!WriteLo => CounterIInv'
<1> SUFFICES ASSUME Counter!CounterAssumption, CounterIInv, Counter!WriteLo PROVE CounterIInv'
  OBVIOUS
<1>1. /\ counter_pc = "write_lo" /\ counter_pc' = "idle" /\ gap' = 0 /\ lo' = cycles % Lo /\ msb_ff' = 0
      /\ Counter!CountHi /\ now' = cycles
      /\ UNCHANGED <<cycles, tmp1, tmp2, begun, retries>>
  BY DEF Counter!WriteLo, Counter!Access
<1>2. /\ cycles \div Lo \in 0 .. Hi - 1 /\ cycles % Lo \in 0 .. Lo - 1
      /\ cycles = Lo * (cycles \div Lo) + (cycles % Lo)
  BY <1>1, SetRange DEF Setting
<1>3. hi' = cycles \div Lo
  <2>1. msb_ff = Counter!Carry /\ hi = cycles \div Lo
    BY <1>1, NoCarry DEF CounterIInv, SetParts
  <2> QED
    BY <1>1, <2>1 DEF Counter!CountHi
<1>4. Counter!Exact' /\ lo' \in 0 .. 2 * Lo - 1 /\ now' \in 0 .. Lo * Hi - 1
  <2>1. now' = Lo * (cycles \div Lo) + (cycles % Lo)
    BY <1>1, <1>2
  <2> QED
    BY <1>1, <1>2, <1>3, <2>1, WrittenLow
<1>5. CounterTyped'
  <2>1. 0 \in 0 .. MaxGap /\ hi' \in 0 .. Hi - 1
    BY <1>2, <1>3, Constants
  <2> QED
    BY <1>1, <1>4, <2>1 DEF CounterIInv, CounterTyped, Counter!TypeOK
<1>6. SetParts' /\ ReadTime' /\ ReadParts'
  BY <1>1 DEF SetParts, ReadTime, ReadParts, Setting, Reading
<1> QED
  BY <1>4, <1>5, <1>6 DEF CounterIInv

LEMMA StepInvariant ==
    Counter!CounterAssumption /\ CounterIInv /\ [Counter!Next]_counterVars => CounterIInv'
<1> SUFFICES ASSUME Counter!CounterAssumption, CounterIInv, [Counter!Next]_counterVars
             PROVE  CounterIInv'
  OBVIOUS
<1>1. CASE Counter!Wait \/ Counter!GetTime \/ Counter!Delay \/ Counter!SetTime
  BY <1>1, WaitStep, GetTimeStep, SetTimeStep
<1>2. CASE Counter!ReadHi \/ Counter!ReadLo \/ Counter!ReadHiAgain \/ Counter!Return
  BY <1>2, ReadHiStep, ReadLoStep, ReadHiAgainStep, ReturnStep
<1>3. CASE Counter!ClearLo \/ Counter!WriteHi \/ Counter!WriteLo
  BY <1>3, ClearLoStep, WriteHiStep, WriteLoStep
<1>4. CASE UNCHANGED counterVars
  BY <1>4 DEF counterVars, CounterIInv, CounterTyped, Counter!TypeOK, Counter!Exact, Counter!Carry,
              SetParts, Setting, ReadTime, Reading,
              Accesses, ReadParts
<1> QED
  BY <1>1, <1>2, <1>3, <1>4 DEF Counter!Next, Counter!End, Counter!vars, counterVars
-----------------------------------------------------------------------------
(***************************************************************************)
(* What the firmware and the cartridge say to each other, for paths of any *)
(* length the link can carry, and whatever is in the queue at the start.   *)
(***************************************************************************)
Kinds ==
    {"plus", "not_plus", "not_cmd", "zero", "rest", "char", "length", "key", "protocol", "device",
     "status", "cue", "rom_path", "cd_mount", "status2"}
Bytes == [kind : Kinds, value : Nat]

\* What the firmware has begun to send and the cartridge has not answered, and
\* what it has been answered.
Outgoing == asked \o (fifo_b \o todo)
Incoming == got \o fifo_a

\* What is sent and what is answered to it.
Zeros == {<< >>, <<Zero>>, <<Zero, Zero>>}
PathCmd == Command("rom_path") \o <<Byte("cue", 1)>>
PathAnswer == Word(Len(path)) \o path
StatusCmd == Command("status2")
StatusAnswers == {<<Byte("key", 0), Byte("protocol", 0), Byte("device", 0), Byte("status", s)>> :
                      s \in {Ok, Error}}
MountCmd == Command("cd_mount") \o Word(Len(path)) \o path

LinkTypes ==
    /\ TypeOK
    /\ {fifo_a, fifo_b, todo, got, cue_path, path, asked} \subseteq Seq(Bytes)
    /\ Len(path) <= MaxPath
    /\ resp \in {Ok, Error, MDP_ERR_NOCD}

\* The bytes under way are those of this step of the firmware: the command, or
\* its answer, which nothing is before and nothing after.
Talk ==
    /\ pc \in {"unlock", "ident"} => Outgoing = << >> /\ Len(fifo_a) <= MaxRest
    /\ pc = "ident" => overlay
    /\ pc = "flush" => Outgoing \in Zeros /\ asked = << >> /\ Len(fifo_a) <= MaxRest
    /\ pc \in {"path", "length"} =>
           \/ /\ \E z \in Zeros : Outgoing = z \o PathCmd /\ (z = << >> \/ asked = << >>)
              /\ Incoming = << >>
           \/ Outgoing = << >> /\ Incoming = PathAnswer
    /\ pc = "string" => Outgoing = << >> /\ Incoming = path
    /\ pc \in {"path_status", "path_answer"} =>
           \/ Outgoing = StatusCmd /\ Incoming = << >>
           \/ Outgoing = << >> /\ Incoming \in StatusAnswers
    /\ pc = "mount" => Outgoing \in {MountCmd, << >>} /\ Incoming = << >>
    /\ pc \in {"mount_status", "mount_answer"} =>
           \/ Outgoing \in {MountCmd \o StatusCmd, StatusCmd} /\ Incoming = << >>
           \/ Outgoing = << >> /\ Incoming \in StatusAnswers
    /\ pc = "done" => Outgoing = << >> /\ fifo_a = << >>

\* What the firmware waits for, and the path it knows; and the cartridge does
\* not read beyond the command.
Awaited ==
    /\ pc \in {"unlock", "ident", "flush", "path", "path_status", "mount", "mount_status"} =>
           left = 0 /\ got = << >>
    /\ pc = "length" => todo = << >> /\ left + Len(got) = 2
    /\ pc = "string" => todo = << >> /\ left + Len(got) = Len(path)
    /\ pc \in {"path_answer", "mount_answer"} => todo = << >> /\ left + Len(got) = 4
    /\ pc = "done" => left = 0
    /\ pc \in {"path_status", "path_answer", "mount", "mount_status", "mount_answer"} => cue_path = path
    /\ Len(asked) <= Len(MountCmd)

LinkIInv == LinkTypes /\ Talk /\ Awaited

(***************************************************************************)
(* Sequences of bytes.                                                     *)
(***************************************************************************)
\* A byte that goes from the front of one sequence to the end of the one
\* before it.
LEMMA Shifted ==
    ASSUME NEW S, NEW a \in Seq(S), NEW b \in Seq(S), b # << >>
    PROVE  /\ Append(a, Head(b)) \in Seq(S) /\ Tail(b) \in Seq(S)
           /\ Len(Append(a, Head(b))) = Len(a) + 1 /\ Len(Tail(b)) = Len(b) - 1
           /\ Append(a, Head(b)) \o Tail(b) = a \o b
<1>1. /\ Head(b) \in S /\ Head(b) = b[1] /\ Tail(b) \in Seq(S) /\ Len(Tail(b)) = Len(b) - 1
      /\ \A k \in 1 .. Len(Tail(b)) : Tail(b)[k] = b[k + 1]
  BY HeadTailProperties
<1>2. /\ Append(a, Head(b)) \in Seq(S) /\ Len(Append(a, Head(b))) = Len(a) + 1
      /\ \A k \in 1 .. Len(a) : Append(a, Head(b))[k] = a[k]
      /\ Append(a, Head(b))[Len(a) + 1] = b[1]
  BY <1>1, AppendProperties
<1> DEFINE s == Append(a, Head(b)) \o Tail(b)
<1>3. /\ s \in Seq(S) /\ Len(s) = Len(a) + Len(b)
      /\ \A k \in 1 .. Len(a) + Len(b) :
             s[k] = IF k <= Len(a) + 1 THEN Append(a, Head(b))[k] ELSE Tail(b)[k - (Len(a) + 1)]
  BY <1>1, <1>2, ConcatProperties, LenProperties
<1>4. /\ a \o b \in Seq(S) /\ Len(a \o b) = Len(a) + Len(b)
      /\ \A k \in 1 .. Len(a) + Len(b) : (a \o b)[k] = IF k <= Len(a) THEN a[k] ELSE b[k - Len(a)]
  BY ConcatProperties
<1>5. ASSUME NEW k \in 1 .. Len(a) + Len(b) PROVE s[k] = (a \o b)[k]
  <2>1. Len(a) \in Nat /\ Len(b) \in Nat
    BY LenProperties
  <2>2. CASE k <= Len(a)
    BY <1>2, <1>3, <1>4, <2>1, <2>2
  <2>3. CASE k = Len(a) + 1
    BY <1>2, <1>3, <1>4, <2>1, <2>3
  <2>4. CASE k > Len(a) + 1
    <3>1. k - (Len(a) + 1) \in 1 .. Len(Tail(b))
      BY <1>1, <2>1, <2>4
    <3>2. s[k] = b[k - (Len(a) + 1) + 1]
      BY <1>1, <1>3, <2>1, <2>4, <3>1
    <3> QED
      BY <1>4, <2>1, <2>4, <3>2
  <2> QED
    BY <2>1, <2>2, <2>3, <2>4
<1>6. s = a \o b
  BY <1>3, <1>4, <1>5, SeqEqual
<1> QED
  BY <1>1, <1>2, <1>6

\* Where two sequences are joined in two ways, the shorter beginning is the
\* beginning of the longer one.
SameBytes(a, r, c1, r1) == a \o r = c1 \o r1 /\ Len(a) <= Len(c1)

LEMMA Beginnings ==
    ASSUME NEW a \in Seq(Bytes), NEW r \in Seq(Bytes), NEW c1 \in Seq(Bytes), NEW r1 \in Seq(Bytes),
           SameBytes(a, r, c1, r1)
    PROVE  /\ \A k \in 1 .. Len(a) : a[k] = c1[k]
           /\ Len(a) = Len(c1) => a = c1 /\ r = r1
<1>0. a \o r = c1 \o r1 /\ Len(a) <= Len(c1)
  BY DEF SameBytes
<1>1. Len(a) \in Nat /\ Len(r) \in Nat /\ Len(c1) \in Nat /\ Len(r1) \in Nat
  BY LenProperties
<1>2. \A k \in 1 .. Len(a) + Len(r) : (a \o r)[k] = IF k <= Len(a) THEN a[k] ELSE r[k - Len(a)]
  BY ConcatProperties
<1>3. \A k \in 1 .. Len(c1) + Len(r1) : (c1 \o r1)[k] = IF k <= Len(c1) THEN c1[k] ELSE r1[k - Len(c1)]
  BY ConcatProperties
<1>4. \A k \in 1 .. Len(a) : a[k] = c1[k]
  BY <1>0, <1>1, <1>2, <1>3
<1>5. ASSUME Len(a) = Len(c1) PROVE a = c1 /\ r = r1
  <2>1. a = c1
    BY <1>4, <1>5, SeqEqual
  <2> QED
    BY <1>0, <2>1, ConcatSimplifications
<1> QED
  BY <1>4, <1>5

\* Joined sequences and their parts.
LEMMA Joined ==
    ASSUME NEW S, NEW a \in Seq(S), NEW b \in Seq(S)
    PROVE  /\ a \o b \in Seq(S) /\ Len(a \o b) = Len(a) + Len(b)
           /\ Len(a) \in Nat /\ Len(b) \in Nat
           /\ a \o << >> = a /\ << >> \o b = b
           /\ a \o b = << >> <=> a = << >> /\ b = << >>
           /\ b # << >> => Len(b) > 0
BY ConcatProperties, ConcatEmptySeq, ConcatEqualIffEmpty, LenProperties, EmptySeq

LEMMA AssociativeOf ==
    ASSUME NEW a \in Seq(Bytes), NEW b \in Seq(Bytes), NEW d \in Seq(Bytes)
    PROVE  a \o (b \o d) = (a \o b) \o d
<1>1. (a \o b) \o d = a \o (b \o d)
  BY ConcatAssociative
<1> QED
  BY <1>1, Zenon

LEMMA Associative == \A a, b, d \in Seq(Bytes) : a \o (b \o d) = (a \o b) \o d
BY AssociativeOf, Zenon

\* A command of four bytes, the length of a path and the commands with both.
LEMMA CommandParts ==
    ASSUME NEW k \in {"rom_path", "cd_mount", "status2"}
    PROVE  /\ Command(k) \in Seq(Bytes) /\ Len(Command(k)) = 4
           /\ Command(k)[1].kind = "plus" /\ Command(k)[3].kind = k
BY DEF Command, Byte, Bytes, Kinds

LEMMA LengthParts ==
    ASSUME LinkTypes
    PROVE  /\ Word(Len(path)) \in Seq(Bytes) /\ Len(Word(Len(path))) = 2
           /\ WordOf(Word(Len(path))) = Len(path)
<1>1. Len(path) \in Nat /\ Radix \in Nat /\ Radix > 0
  BY LenProperties, LinkAssumption DEF LinkTypes
<1>2. /\ Len(path) \div Radix \in Nat /\ Len(path) % Radix \in Nat
      /\ Len(path) = Radix * (Len(path) \div Radix) + (Len(path) % Radix)
  BY <1>1, Words
<1>3. Byte("length", Len(path) \div Radix) \in Bytes /\ Byte("length", Len(path) % Radix) \in Bytes
  BY <1>2 DEF Byte, Bytes, Kinds
<1>4. Word(Len(path)) \in Seq(Bytes) /\ Len(Word(Len(path))) = 2
  BY <1>3 DEF Word
<1>5. /\ Word(Len(path))[1].value = Len(path) \div Radix
      /\ Word(Len(path))[2].value = Len(path) % Radix
  BY DEF Word, Byte
<1> QED
  BY <1>2, <1>4, <1>5 DEF WordOf

LEMMA PathCmdParts ==
    /\ PathCmd \in Seq(Bytes) /\ Len(PathCmd) = 5
    /\ PathCmd[1].kind = "plus" /\ PathCmd[3].kind = "rom_path"
<1>1. <<Byte("cue", 1)>> \in Seq(Bytes) /\ Len(<<Byte("cue", 1)>>) = 1
  BY DEF Byte, Bytes, Kinds
<1>2. /\ Command("rom_path") \in Seq(Bytes) /\ Len(Command("rom_path")) = 4
      /\ Command("rom_path")[1].kind = "plus" /\ Command("rom_path")[3].kind = "rom_path"
  BY CommandParts
<1>3. /\ PathCmd \in Seq(Bytes) /\ Len(PathCmd) = 4 + 1
      /\ \A k \in 1 .. 4 + 1 :
             PathCmd[k] = IF k <= 4 THEN Command("rom_path")[k] ELSE <<Byte("cue", 1)>>[k - 4]
  <2>1. PICK a : a = Command("rom_path")
    OBVIOUS
  <2>2. PICK b : b = <<Byte("cue", 1)>>
    OBVIOUS
  <2>3. a \in Seq(Bytes) /\ Len(a) = 4 /\ b \in Seq(Bytes) /\ Len(b) = 1
    BY <1>1, <1>2, <2>1, <2>2
  <2>4. /\ a \o b \in Seq(Bytes) /\ Len(a \o b) = Len(a) + Len(b)
        /\ \A k \in 1 .. Len(a) + Len(b) :
               (a \o b)[k] = IF k <= Len(a) THEN a[k] ELSE b[k - Len(a)]
    BY <2>3, ConcatProperties
  <2>5. /\ a \o b \in Seq(Bytes) /\ Len(a \o b) = 4 + 1
        /\ \A k \in 1 .. 4 + 1 : (a \o b)[k] = IF k <= 4 THEN a[k] ELSE b[k - 4]
    BY <2>3, <2>4
  <2> QED
    BY <2>1, <2>2, <2>5, Zenon DEF PathCmd
<1>4. PathCmd[1] = Command("rom_path")[1] /\ PathCmd[3] = Command("rom_path")[3]
  BY <1>3
<1> QED
  BY <1>2, <1>3, <1>4

LEMMA MountCmdParts ==
    ASSUME LinkTypes
    PROVE  /\ MountCmd \in Seq(Bytes) /\ Len(MountCmd) = 6 + Len(path)
           /\ MountCmd[1].kind = "plus" /\ MountCmd[3].kind = "cd_mount"
           /\ MountCmd[5] = Word(Len(path))[1] /\ MountCmd[6] = Word(Len(path))[2]
<1> DEFINE head == Command("cd_mount") \o Word(Len(path))
<1>1. Command("cd_mount") \in Seq(Bytes) /\ Len(Command("cd_mount")) = 4
      /\ Command("cd_mount")[1].kind = "plus" /\ Command("cd_mount")[3].kind = "cd_mount"
  BY CommandParts
<1>2. Word(Len(path)) \in Seq(Bytes) /\ Len(Word(Len(path))) = 2
  BY LengthParts
<1>3. /\ head \in Seq(Bytes) /\ Len(head) = 4 + 2
      /\ \A k \in 1 .. 4 + 2 : head[k] = IF k <= 4 THEN Command("cd_mount")[k] ELSE Word(Len(path))[k - 4]
  <2>1. PICK a : a = Command("cd_mount")
    OBVIOUS
  <2>2. PICK b : b = Word(Len(path))
    OBVIOUS
  <2>3. a \in Seq(Bytes) /\ Len(a) = 4 /\ b \in Seq(Bytes) /\ Len(b) = 2
    BY <1>1, <1>2, <2>1, <2>2
  <2>4. /\ a \o b \in Seq(Bytes) /\ Len(a \o b) = Len(a) + Len(b)
        /\ \A k \in 1 .. Len(a) + Len(b) :
               (a \o b)[k] = IF k <= Len(a) THEN a[k] ELSE b[k - Len(a)]
    BY <2>3, ConcatProperties
  <2>5. /\ a \o b \in Seq(Bytes) /\ Len(a \o b) = 4 + 2
        /\ \A k \in 1 .. 4 + 2 : (a \o b)[k] = IF k <= 4 THEN a[k] ELSE b[k - 4]
    BY <2>3, <2>4
  <2> QED
    BY <2>1, <2>2, <2>5, Zenon
<1>4. path \in Seq(Bytes) /\ Len(path) \in Nat
  BY LenProperties DEF LinkTypes
<1> HIDE DEF head
<1>5. /\ head \o path \in Seq(Bytes) /\ Len(head \o path) = 6 + Len(path)
      /\ \A k \in 1 .. 6 : (head \o path)[k] = head[k]
  <2>1. Len(head) = 6 /\ head \in Seq(Bytes)
    BY <1>3
  <2>2. /\ head \o path \in Seq(Bytes) /\ Len(head \o path) = Len(head) + Len(path)
        /\ \A k \in 1 .. Len(head) + Len(path) :
               (head \o path)[k] = IF k <= Len(head) THEN head[k] ELSE path[k - Len(head)]
    BY <1>4, <2>1, ConcatProperties
  <2> QED
    BY <1>4, <2>1, <2>2
<1>6. MountCmd = head \o path
  BY DEF MountCmd, head
<1> QED
  BY <1>1, <1>3, <1>5, <1>6

LEMMA StatusParts ==
    /\ StatusCmd \in Seq(Bytes) /\ Len(StatusCmd) = 4
    /\ StatusCmd[1].kind = "plus" /\ StatusCmd[3].kind = "status2"
    /\ StatusAnswers \subseteq Seq(Bytes)
    /\ \A s \in StatusAnswers : Len(s) = 4 /\ StatusOf(s) \in {Ok, Error}
<1>1. ASSUME NEW s \in StatusAnswers
      PROVE  s \in Seq(Bytes) /\ Len(s) = 4 /\ StatusOf(s) \in {Ok, Error}
  <2>1. PICK n \in {Ok, Error} :
            s = <<Byte("key", 0), Byte("protocol", 0), Byte("device", 0), Byte("status", n)>>
    BY DEF StatusAnswers
  <2>2. n \in Nat
    BY DEF Ok, Error
  <2>3. s \in Seq(Bytes) /\ Len(s) = 4
    BY <2>1, <2>2 DEF Byte, Bytes, Kinds
  <2>4. s[1].kind = "key" /\ s[4].value = n
    BY <2>1 DEF Byte
  <2> QED
    BY <2>3, <2>4 DEF StatusOf
<1> QED
  BY <1>1, CommandParts DEF StatusCmd

LEMMA ZerosParts ==
    /\ Zeros \subseteq Seq(Bytes)
    /\ \A z \in Zeros : /\ Len(z) <= 2
                        /\ z # << >> => z[1].kind = "zero" /\ Tail(z) \in Zeros
<1>1. Zero \in Bytes /\ Zero.kind = "zero"
  BY DEF Zero, Byte, Bytes, Kinds
<1>2. Tail(<<Zero>>) = << >> /\ Tail(<<Zero, Zero>>) = <<Zero>>
  OBVIOUS
<1> QED
  BY <1>1, <1>2 DEF Zeros

\* The bytes under way.
LEMMA UnderWay ==
    ASSUME LinkTypes
    PROVE  /\ asked \in Seq(Bytes) /\ fifo_b \in Seq(Bytes) /\ todo \in Seq(Bytes)
           /\ got \in Seq(Bytes) /\ fifo_a \in Seq(Bytes) /\ path \in Seq(Bytes)
           /\ Outgoing \in Seq(Bytes) /\ Incoming \in Seq(Bytes)
           /\ Len(Outgoing) = Len(asked) + Len(fifo_b) + Len(todo)
           /\ Len(Incoming) = Len(got) + Len(fifo_a)
           /\ Len(asked) \in Nat /\ Len(fifo_b) \in Nat /\ Len(todo) \in Nat
           /\ Len(got) \in Nat /\ Len(fifo_a) \in Nat /\ Len(path) \in Nat
           /\ Outgoing = << >> <=> asked = << >> /\ fifo_b = << >> /\ todo = << >>
           /\ Incoming = << >> <=> got = << >> /\ fifo_a = << >>
<1>1. /\ asked \in Seq(Bytes) /\ fifo_b \in Seq(Bytes) /\ todo \in Seq(Bytes)
      /\ got \in Seq(Bytes) /\ fifo_a \in Seq(Bytes) /\ path \in Seq(Bytes)
  BY DEF LinkTypes
<1>2. /\ fifo_b \o todo \in Seq(Bytes) /\ Len(fifo_b \o todo) = Len(fifo_b) + Len(todo)
      /\ fifo_b \o todo = << >> <=> fifo_b = << >> /\ todo = << >>
      /\ Len(fifo_b) \in Nat /\ Len(todo) \in Nat
  BY <1>1, Joined
<1>3. /\ Outgoing \in Seq(Bytes) /\ Len(Outgoing) = Len(asked) + Len(fifo_b \o todo)
      /\ Outgoing = << >> <=> asked = << >> /\ fifo_b \o todo = << >>
      /\ Len(asked) \in Nat
  BY <1>1, <1>2, Joined DEF Outgoing
<1>4. /\ Incoming \in Seq(Bytes) /\ Len(Incoming) = Len(got) + Len(fifo_a)
      /\ Incoming = << >> <=> got = << >> /\ fifo_a = << >>
      /\ Len(got) \in Nat /\ Len(fifo_a) \in Nat /\ Len(path) \in Nat
  BY <1>1, Joined DEF Incoming
<1> QED
  BY <1>1, <1>2, <1>3, <1>4

\* What has been read whole is the answer, and nothing follows it.
LEMMA ReadWhole ==
    ASSUME NEW a \in Seq(Bytes), LinkTypes, Incoming = a, Len(got) = Len(a)
    PROVE  got = a /\ fifo_a = << >>
<1>1. got \in Seq(Bytes) /\ fifo_a \in Seq(Bytes) /\ << >> \in Seq(Bytes) /\ a \o << >> = a
  BY UnderWay, Joined
<1>2. got \o fifo_a = a \o << >> /\ Len(got) <= Len(a)
  BY <1>1, LenProperties DEF Incoming
<1>3. SameBytes(got, fifo_a, a, << >>)
  BY <1>2, Zenon DEF SameBytes
<1> QED
  BY <1>1, <1>3, Beginnings

\* When the firmware has read four bytes, they are the answer about the status.
LEMMA StatusRead ==
    ASSUME LinkIInv, pc \in {"path_answer", "mount_answer"}, left = 0
    PROVE  /\ todo = << >> /\ got \in StatusAnswers /\ fifo_a = << >> /\ Outgoing = << >>
           /\ StatusOf(got) \in {Ok, Error}
<1>1. LinkTypes /\ todo = << >> /\ Len(got) = 4
  BY UnderWay DEF LinkIInv, Awaited
<1>2. Incoming # << >>
  BY <1>1, UnderWay, EmptySeq
<1>3. Outgoing = << >> /\ Incoming \in StatusAnswers
  BY <1>2 DEF LinkIInv, Talk
<1>4. Incoming \in Seq(Bytes) /\ Len(Incoming) = 4 /\ StatusOf(Incoming) \in {Ok, Error}
  BY <1>3, StatusParts
<1>5. got = Incoming /\ fifo_a = << >>
  BY <1>1, <1>4, ReadWhole
<1> QED
  BY <1>1, <1>3, <1>4, <1>5
-----------------------------------------------------------------------------
(***************************************************************************)
(* The steps of the firmware.                                              *)
(***************************************************************************)
LEMMA UnlockStep == LinkIInv /\ Unlock => LinkIInv'
<1> SUFFICES ASSUME LinkIInv, Unlock PROVE LinkIInv'
  OBVIOUS
<1>1. /\ pc = "unlock" /\ pc' = "ident" /\ overlay' = TRUE
      /\ UNCHANGED <<fifo_a, fifo_b, todo, left, got, cue_path, resp, path, asked>>
  BY DEF Unlock
<1>2. Outgoing' = Outgoing /\ Incoming' = Incoming
  BY <1>1 DEF Outgoing, Incoming
<1>3. LinkTypes'
  BY <1>1 DEF LinkIInv, LinkTypes, TypeOK, Steps
<1>4. Talk'
  BY <1>1, <1>2 DEF LinkIInv, Talk
<1>5. Awaited'
  BY <1>1 DEF LinkIInv, Awaited, MountCmd
<1> QED
  BY <1>3, <1>4, <1>5 DEF LinkIInv

LEMMA IdentStep == LinkIInv /\ Ident => LinkIInv'
<1> SUFFICES ASSUME LinkIInv, Ident PROVE LinkIInv'
  OBVIOUS
<1>1. LinkTypes /\ Outgoing = << >> /\ overlay /\ left = 0 /\ got = << >> /\ Len(fifo_a) <= MaxRest
  BY DEF LinkIInv, Ident, Talk, Awaited
<1>2. /\ pc' = "flush" /\ todo' = <<Zero, Zero>> /\ left' = 0 /\ got' = << >>
      /\ UNCHANGED <<overlay, fifo_a, fifo_b, cue_path, path, asked, resp>>
  BY <1>1 DEF Ident, Send
<1>3. asked = << >> /\ fifo_b = << >>
  BY <1>1, UnderWay
<1>4. <<Zero, Zero>> \in Seq(Bytes) /\ <<Zero, Zero>> \in Zeros
  BY ZerosParts DEF Zeros
<1>5. Outgoing' = <<Zero, Zero>>
  BY <1>2, <1>3, <1>4, Joined DEF Outgoing
<1>6. LinkTypes'
  BY <1>1, <1>2, <1>4 DEF LinkTypes, TypeOK, Steps
<1>7. Talk'
  BY <1>1, <1>2, <1>3, <1>4, <1>5 DEF Talk
<1>8. Awaited'
  BY <1>2 DEF LinkIInv, Awaited, MountCmd
<1> QED
  BY <1>6, <1>7, <1>8 DEF LinkIInv

LEMMA FifoWrStep == LinkIInv /\ FifoWr => LinkIInv'
<1> SUFFICES ASSUME LinkIInv, FifoWr PROVE LinkIInv'
  OBVIOUS
<1>1. LinkTypes /\ Talk /\ Awaited
  BY DEF LinkIInv
<1>2. /\ todo # << >> /\ fifo_b' = Append(fifo_b, Head(todo)) /\ todo' = Tail(todo)
      /\ UNCHANGED <<overlay, fifo_a, pc, left, got, cue_path, resp, path, asked>>
  BY DEF FifoWr
<1>3. fifo_b' \in Seq(Bytes) /\ todo' \in Seq(Bytes) /\ fifo_b' \o todo' = fifo_b \o todo
  <2>1. fifo_b \in Seq(Bytes) /\ todo \in Seq(Bytes) /\ todo # << >>
    BY <1>1, <1>2, UnderWay
  <2>2. /\ Append(fifo_b, Head(todo)) \in Seq(Bytes) /\ Tail(todo) \in Seq(Bytes)
        /\ Append(fifo_b, Head(todo)) \o Tail(todo) = fifo_b \o todo
    BY <2>1, Shifted
  <2> QED
    BY <1>2, <2>2
<1>4. Outgoing' = Outgoing /\ Incoming' = Incoming
  BY <1>2, <1>3 DEF Outgoing, Incoming
<1>5. left = 0
  BY <1>1, <1>2 DEF LinkTypes, TypeOK
<1>6. LinkTypes'
  BY <1>1, <1>2, <1>3, <1>5 DEF LinkTypes, TypeOK, Steps
<1>7. Talk'
  BY <1>1, <1>2, <1>4 DEF Talk, PathAnswer, Word, MountCmd
<1>8. Awaited'
  BY <1>1, <1>2 DEF Awaited, MountCmd
<1> QED
  BY <1>6, <1>7, <1>8 DEF LinkIInv

LEMMA FlushDrainStep == LinkIInv /\ FlushDrain => LinkIInv'
<1> SUFFICES ASSUME LinkIInv, FlushDrain PROVE LinkIInv'
  OBVIOUS
<1>1. LinkTypes /\ Talk /\ Awaited /\ pc = "flush" /\ todo = << >>
      /\ UNCHANGED <<overlay, fifo_b, cue_path, resp, path, asked>>
  BY DEF LinkIInv, FlushDrain
<1>2. Outgoing \in Zeros /\ asked = << >> /\ left = 0 /\ got = << >> /\ Len(fifo_a) <= MaxRest
  BY <1>1 DEF Talk, Awaited
<1>3. CASE fifo_a # << >>
  <2>1. fifo_a' = Tail(fifo_a) /\ UNCHANGED <<pc, todo, left, got>>
    BY <1>3 DEF FlushDrain
  <2>2. fifo_a' \in Seq(Bytes) /\ Len(fifo_a') <= MaxRest
    <3>1. Tail(fifo_a) \in Seq(Bytes) /\ Len(Tail(fifo_a)) = Len(fifo_a) - 1 /\ Len(fifo_a) \in Nat
      BY <1>1, <1>3, UnderWay, HeadTailProperties
    <3>2. MaxRest \in Nat
      BY LinkAssumption
    <3> QED
      BY <1>2, <2>1, <3>1, <3>2
  <2>3. Outgoing' = Outgoing
    BY <1>1, <2>1 DEF Outgoing
  <2>4. LinkTypes'
    BY <1>1, <2>1, <2>2 DEF LinkTypes, TypeOK, Steps
  <2>5. Talk'
    BY <1>1, <1>2, <2>1, <2>2, <2>3 DEF Talk
  <2>6. Awaited'
    BY <1>1, <2>1 DEF Awaited, MountCmd
  <2> QED
    BY <2>4, <2>5, <2>6 DEF LinkIInv
<1>4. CASE fifo_a = << >>
  <2>1. pc' = "path" /\ todo' = PathCmd /\ left' = 0 /\ got' = << >> /\ fifo_a' = fifo_a
    BY <1>4 DEF FlushDrain, Send, PathCmd
  <2>2. fifo_b \in Seq(Bytes) /\ fifo_b \o << >> = fifo_b /\ << >> \o fifo_b = fifo_b /\ fifo_b \in Zeros
    BY <1>1, <1>2, UnderWay, Joined DEF Outgoing
  <2>3. PathCmd \in Seq(Bytes) /\ fifo_b \o PathCmd \in Seq(Bytes)
        /\ << >> \o (fifo_b \o PathCmd) = fifo_b \o PathCmd
    BY <2>2, PathCmdParts, Joined
  <2>4. Outgoing' = fifo_b \o PathCmd
    BY <1>1, <1>2, <2>1, <2>3 DEF Outgoing
  <2>5. Incoming' = << >>
    BY <1>1, <1>4, <2>1, Joined DEF Incoming
  <2>6. LinkTypes'
    BY <1>1, <1>2, <2>1, <2>3 DEF LinkTypes, TypeOK, Steps
  <2>7. Talk'
    BY <1>1, <1>2, <2>1, <2>2, <2>4, <2>5 DEF Talk
  <2>8. Awaited'
    BY <1>1, <2>1 DEF Awaited, MountCmd
  <2> QED
    BY <2>6, <2>7, <2>8 DEF LinkIInv
<1> QED
  BY <1>3, <1>4

LEMMA FifoRdStep == LinkIInv /\ FifoRd => LinkIInv'
<1> SUFFICES ASSUME LinkIInv, FifoRd PROVE LinkIInv'
  OBVIOUS
<1>1. LinkTypes /\ Talk /\ Awaited
  BY DEF LinkIInv
<1>2. /\ left > 0 /\ fifo_a # << >> /\ got' = Append(got, Head(fifo_a)) /\ fifo_a' = Tail(fifo_a)
      /\ left' = left - 1
      /\ UNCHANGED <<overlay, fifo_b, pc, todo, cue_path, resp, path, asked>>
  BY DEF FifoRd
<1>3. /\ got' \in Seq(Bytes) /\ fifo_a' \in Seq(Bytes) /\ got' \o fifo_a' = got \o fifo_a
      /\ Len(got') = Len(got) + 1
  <2>1. got \in Seq(Bytes) /\ fifo_a \in Seq(Bytes) /\ fifo_a # << >>
    BY <1>1, <1>2, UnderWay
  <2>2. /\ Append(got, Head(fifo_a)) \in Seq(Bytes) /\ Tail(fifo_a) \in Seq(Bytes)
        /\ Append(got, Head(fifo_a)) \o Tail(fifo_a) = got \o fifo_a
        /\ Len(Append(got, Head(fifo_a))) = Len(got) + 1
    BY <2>1, Shifted
  <2> QED
    BY <1>2, <2>2
<1>4. Outgoing' = Outgoing /\ Incoming' = Incoming
  BY <1>2, <1>3 DEF Outgoing, Incoming
<1>5. pc \in {"length", "string", "path_answer", "mount_answer"} /\ todo = << >>
  BY <1>1, <1>2 DEF LinkTypes, TypeOK, Steps, Awaited
<1>6. left \in Nat /\ Len(got) \in Nat /\ left' \in Nat /\ left' + Len(got') = left + Len(got)
  <2>1. left \in Nat /\ Len(got) \in Nat
    BY <1>1, UnderWay, LinkAssumption DEF LinkTypes, TypeOK
  <2> QED
    BY <1>2, <1>3, <2>1
<1>7. left' \in (0 .. MaxPath) \cup (0 .. 4)
  <2>1. left \in (0 .. MaxPath) \cup (0 .. 4)
    BY <1>1 DEF LinkTypes, TypeOK
  <2> QED
    BY <1>2, <1>6, <2>1, LinkAssumption
<1>8. LinkTypes'
  BY <1>1, <1>2, <1>3, <1>5, <1>7 DEF LinkTypes, TypeOK
<1>9. Talk'
  BY <1>1, <1>2, <1>4, <1>5 DEF Talk, PathAnswer, Word, MountCmd
<1>10. Awaited'
  BY <1>1, <1>2, <1>5, <1>6 DEF Awaited, MountCmd
<1> QED
  BY <1>8, <1>9, <1>10 DEF LinkIInv

\* The steps between two transfers.
LEMMA ProceedStep == LinkIInv /\ Proceed => LinkIInv'
<1> SUFFICES ASSUME LinkIInv, Proceed PROVE LinkIInv'
  OBVIOUS
<1>1. LinkTypes /\ Talk /\ Awaited /\ UNCHANGED <<overlay, fifo_a, fifo_b, resp, path, asked>>
  BY DEF LinkIInv, Proceed
<1>2. todo = << >> /\ left = 0
  BY DEF Proceed, RxLength, RxString, RxDone, CheckStatus, Mount, MountSent, Sent
<1>3. UNCHANGED MountCmd /\ UNCHANGED PathAnswer
  BY <1>1 DEF MountCmd, PathAnswer, Word
<1>4. << >> \in Seq(Bytes) /\ fifo_a \in Seq(Bytes) /\ << >> \o fifo_a = fifo_a /\ Len(<< >>) = 0
  BY <1>1, UnderWay, Joined, EmptySeq
<1>5. CASE RxLength
  <2>1. /\ pc = "path" /\ pc' = "length" /\ todo' = << >> /\ left' = 2 /\ got' = << >>
        /\ cue_path' = cue_path /\ got = << >>
    BY <1>1, <1>5 DEF RxLength, Receive, Awaited
  <2>2. Outgoing' = Outgoing /\ Incoming' = Incoming
    BY <1>1, <1>2, <2>1 DEF Outgoing, Incoming
  <2>3. LinkTypes'
    BY <1>1, <1>4, <2>1 DEF LinkTypes, TypeOK, Steps
  <2>4. Talk'
    BY <1>1, <1>3, <2>1, <2>2 DEF Talk
  <2>5. Awaited'
    BY <1>1, <1>3, <1>4, <2>1 DEF Awaited
  <2> QED
    BY <2>3, <2>4, <2>5 DEF LinkIInv
<1>6. CASE RxString
  <2>1. /\ pc = "length" /\ pc' = "string" /\ todo' = << >> /\ left' = WordOf(got) /\ got' = << >>
        /\ cue_path' = cue_path
    BY <1>6 DEF RxString, Receive
  <2>2. Len(got) = 2
    BY <1>1, <1>2, <2>1, UnderWay DEF Awaited
  <2>3. Incoming # << >>
    BY <1>1, <2>2, UnderWay, EmptySeq
  <2>4. Outgoing = << >> /\ got \o fifo_a = Word(Len(path)) \o path
    BY <1>1, <2>1, <2>3 DEF Talk, Incoming, PathAnswer
  <2>5. got = Word(Len(path)) /\ fifo_a = path
    <3>1. got \in Seq(Bytes) /\ fifo_a \in Seq(Bytes) /\ path \in Seq(Bytes)
      BY <1>1, UnderWay
    <3>2. Word(Len(path)) \in Seq(Bytes) /\ Len(Word(Len(path))) = 2
      BY <1>1, LengthParts
    <3>3. PICK w \in Seq(Bytes) : w = Word(Len(path)) /\ Len(w) = 2
      BY <3>2, Zenon
    <3>4. got \o fifo_a = w \o path
      BY <2>4, <3>3, Zenon
    <3>5. Len(got) = Len(w) /\ Len(got) <= Len(w)
      BY <2>2, <3>3
    <3>6. SameBytes(got, fifo_a, w, path)
      BY <3>4, <3>5, Zenon DEF SameBytes
    <3> QED
      BY <3>1, <3>3, <3>5, <3>6, Beginnings
  <2>6. left' = Len(path) /\ Len(path) \in 0 .. MaxPath
    BY <1>1, <2>1, <2>5, LengthParts, UnderWay, LinkAssumption DEF LinkTypes
  <2>7. asked = << >> /\ fifo_b = << >> /\ Outgoing' = << >> /\ Incoming' = path'
    <3>1. asked = << >> /\ fifo_b = << >>
      BY <1>1, <2>4, UnderWay
    <3>2. << >> \o (<< >> \o << >>) = << >>
      BY <1>4, Joined
    <3> QED
      BY <1>1, <1>4, <2>1, <2>5, <3>1, <3>2 DEF Outgoing, Incoming
  <2>8. LinkTypes'
    BY <1>1, <1>4, <2>1, <2>6 DEF LinkTypes, TypeOK, Steps
  <2>9. Talk'
    BY <2>1, <2>7 DEF Talk
  <2>10. Awaited'
    BY <1>1, <1>3, <1>4, <2>1, <2>6 DEF Awaited
  <2> QED
    BY <2>8, <2>9, <2>10 DEF LinkIInv
<1>7. CASE RxDone
  <2>1. /\ pc = "string" /\ pc' = "path_status" /\ todo' = StatusCmd /\ left' = 0 /\ got' = << >>
        /\ cue_path' = got
    BY <1>7 DEF RxDone, Send, StatusCmd
  <2>2. Len(got) = Len(path) /\ Outgoing = << >> /\ Incoming = path
    BY <1>1, <1>2, <2>1, UnderWay DEF Awaited, Talk
  <2>3. got = path /\ fifo_a = << >> /\ asked = << >> /\ fifo_b = << >>
    BY <1>1, <2>2, UnderWay, ReadWhole
  <2>4. Outgoing' = StatusCmd /\ Incoming' = << >>
    <3>1. StatusCmd \in Seq(Bytes) /\ << >> \o (<< >> \o StatusCmd) = StatusCmd
      BY <1>4, StatusParts, Joined
    <3> QED
      BY <1>1, <1>4, <2>1, <2>3, <3>1 DEF Outgoing, Incoming
  <2>5. LinkTypes'
    BY <1>1, <1>4, <2>1, <2>3, StatusParts DEF LinkTypes, TypeOK, Steps
  <2>6. Talk'
    BY <2>1, <2>4 DEF Talk
  <2>7. Awaited'
    BY <1>1, <1>3, <2>1, <2>3 DEF Awaited
  <2> QED
    BY <2>5, <2>6, <2>7 DEF LinkIInv
<1>8. CASE CheckStatus
  <2>1. /\ \/ pc = "path_status" /\ pc' = "path_answer"
           \/ pc = "mount_status" /\ pc' = "mount_answer"
        /\ todo' = << >> /\ left' = 4 /\ got' = << >> /\ cue_path' = cue_path /\ got = << >>
    BY <1>1, <1>8 DEF CheckStatus, Receive, Awaited
  <2>2. Outgoing' = Outgoing /\ Incoming' = Incoming
    BY <1>1, <1>2, <2>1 DEF Outgoing, Incoming
  <2>3. LinkTypes'
    BY <1>1, <1>4, <2>1 DEF LinkTypes, TypeOK, Steps
  <2>4. Talk'
    BY <1>1, <1>3, <2>1, <2>2 DEF Talk
  <2>5. Awaited'
    BY <1>1, <1>3, <1>4, <2>1 DEF Awaited
  <2> QED
    BY <2>3, <2>4, <2>5 DEF LinkIInv
<1>9. CASE Mount
  <2>1. /\ pc = "path_answer" /\ pc' = "mount" /\ left' = 0 /\ got' = << >> /\ cue_path' = cue_path
        /\ todo' = Command("cd_mount") \o Word(Len(cue_path)) \o cue_path /\ cue_path = path
    BY <1>1, <1>9 DEF Mount, Send, Awaited
  <2>2. todo' = MountCmd
    BY <2>1 DEF MountCmd
  <2>3. fifo_a = << >> /\ asked = << >> /\ fifo_b = << >>
    BY <1>1, <1>2, <2>1, StatusRead, UnderWay
  <2>4. Outgoing' = MountCmd /\ Incoming' = << >>
    <3>1. MountCmd \in Seq(Bytes) /\ << >> \o (<< >> \o MountCmd) = MountCmd
      BY <1>1, <1>4, MountCmdParts, Joined
    <3> QED
      BY <1>1, <1>4, <2>1, <2>2, <2>3, <3>1 DEF Outgoing, Incoming
  <2>5. LinkTypes'
    <3>1. todo' \in Seq(Bytes)
      BY <1>1, <2>2, MountCmdParts
    <3> QED
      BY <1>1, <1>4, <2>1, <3>1 DEF LinkTypes, TypeOK, Steps
  <2>6. Talk'
    BY <1>3, <2>1, <2>4 DEF Talk
  <2>7. Awaited'
    BY <1>1, <1>3, <2>1 DEF Awaited
  <2> QED
    BY <2>5, <2>6, <2>7 DEF LinkIInv
<1>10. CASE MountSent
  <2>1. /\ pc = "mount" /\ pc' = "mount_status" /\ todo' = StatusCmd /\ left' = 0 /\ got' = << >>
        /\ cue_path' = cue_path
    BY <1>10 DEF MountSent, Send, StatusCmd
  <2>2. Outgoing \in {MountCmd, << >>} /\ fifo_a = << >>
    BY <1>1, <2>1, UnderWay DEF Talk
  <2>3. Outgoing' = Outgoing \o StatusCmd
    <3>1. asked \in Seq(Bytes) /\ fifo_b \in Seq(Bytes) /\ StatusCmd \in Seq(Bytes)
      BY <1>1, UnderWay, StatusParts
    <3>2. asked \o (fifo_b \o StatusCmd) = (asked \o fifo_b) \o StatusCmd
      BY <3>1, Associative, Zenon
    <3>3. fifo_b \o << >> = fifo_b
      BY <3>1, Joined
    <3> QED
      BY <1>1, <1>2, <2>1, <3>2, <3>3 DEF Outgoing
  <2>4. Outgoing' \in {MountCmd \o StatusCmd, StatusCmd}
    BY <1>4, <2>2, <2>3, StatusParts, Joined
  <2>5. Incoming' = << >>
    BY <1>1, <1>4, <2>1, <2>2 DEF Incoming
  <2>6. LinkTypes'
    BY <1>1, <1>4, <2>1, StatusParts DEF LinkTypes, TypeOK, Steps
  <2>7. Talk'
    BY <1>3, <2>1, <2>4, <2>5 DEF Talk
  <2>8. Awaited'
    BY <1>1, <1>3, <2>1 DEF Awaited
  <2> QED
    BY <2>6, <2>7, <2>8 DEF LinkIInv
<1> QED
  BY <1>5, <1>6, <1>7, <1>8, <1>9, <1>10 DEF Proceed

LEMMA FinishStep == LinkIInv /\ Finish => LinkIInv'
<1> SUFFICES ASSUME LinkIInv, Finish PROVE LinkIInv'
  OBVIOUS
<1>1. /\ LinkTypes /\ Awaited /\ pc \in {"path_answer", "mount_answer"} /\ left = 0
      /\ pc' = "done" /\ resp' \in {StatusOf(got), MDP_ERR_NOCD}
      /\ UNCHANGED <<overlay, fifo_a, fifo_b, cue_path, path, asked, todo, left, got>>
  BY DEF LinkIInv, Finish, Over, Sent
<1>2. fifo_a = << >> /\ Outgoing = << >> /\ StatusOf(got) \in {Ok, Error}
  BY <1>1, StatusRead
<1>3. Outgoing' = Outgoing
  BY <1>1 DEF Outgoing
<1>4. LinkTypes'
  BY <1>1, <1>2 DEF LinkTypes, TypeOK, Steps
<1>5. Talk'
  BY <1>1, <1>2, <1>3 DEF Talk
<1>6. Awaited'
  BY <1>1 DEF Awaited, MountCmd
<1> QED
  BY <1>4, <1>5, <1>6 DEF LinkIInv
-----------------------------------------------------------------------------
(***************************************************************************)
(* The steps of the cartridge.                                             *)
(***************************************************************************)
\* A command that has been read whole, and what follows it.
LEMMA Whole ==
    ASSUME LinkTypes, NEW c1 \in Seq(Bytes), NEW r1 \in Seq(Bytes), Outgoing = c1 \o r1,
           Len(asked) <= Len(c1)
    PROVE  /\ \A k \in 1 .. Len(asked) : asked[k] = c1[k]
           /\ Len(asked) = Len(c1) => asked = c1 /\ fifo_b \o todo = r1
<1>1. PICK r \in Seq(Bytes) : r = fifo_b \o todo
  BY UnderWay, Joined
<1>2. asked \in Seq(Bytes) /\ asked \o r = c1 \o r1
  BY <1>1, UnderWay DEF Outgoing
<1>3. SameBytes(asked, r, c1, r1)
  BY <1>2, Zenon DEF SameBytes
<1>4. /\ \A k \in 1 .. Len(asked) : asked[k] = c1[k]
      /\ Len(asked) = Len(c1) => asked = c1 /\ r = r1
  BY <1>2, <1>3, Beginnings
<1> QED
  BY <1>1, <1>4, Zenon

LEMMA CompletePath ==
    ASSUME LinkTypes, Outgoing = PathCmd, Complete(asked)
    PROVE  asked[3].kind = "rom_path" /\ fifo_b = << >> /\ todo = << >>
<1>1. Len(asked) >= 4 /\ Len(asked) = 4 + Arguments(asked)
  BY DEF Complete
<1>2. PathCmd \in Seq(Bytes) /\ PathCmd = PathCmd \o << >> /\ << >> \in Seq(Bytes) /\ Len(PathCmd) = 5
  BY PathCmdParts, Joined, EmptySeq
<1>3. Len(asked) <= 5
  BY <1>2, UnderWay
<1>4. asked[3] = PathCmd[3]
  <2>1. \A k \in 1 .. Len(asked) : asked[k] = PathCmd[k]
    BY <1>2, <1>3, Whole
  <2> QED
    BY <1>1, <1>3, <2>1, UnderWay
<1>5. asked[3].kind = "rom_path"
  BY <1>4, PathCmdParts
<1>6. Len(asked) = 5
  BY <1>1, <1>5 DEF Arguments
<1> QED
  BY <1>2, <1>5, <1>6, UnderWay, EmptySeq

LEMMA CompleteStatus ==
    ASSUME LinkTypes, Outgoing = StatusCmd, Complete(asked)
    PROVE  asked[3].kind = "status2" /\ fifo_b = << >> /\ todo = << >>
<1>1. Len(asked) >= 4
  BY DEF Complete
<1>2. StatusCmd \in Seq(Bytes) /\ StatusCmd = StatusCmd \o << >> /\ << >> \in Seq(Bytes) /\ Len(StatusCmd) = 4
  BY StatusParts, Joined, EmptySeq
<1>3. Len(asked) = 4 /\ Len(fifo_b) = 0 /\ Len(todo) = 0
  <2>1. /\ Len(Outgoing) = Len(asked) + Len(fifo_b) + Len(todo)
        /\ Len(asked) \in Nat /\ Len(fifo_b) \in Nat /\ Len(todo) \in Nat
    BY UnderWay
  <2>2. Len(Outgoing) = 4
    BY <1>2
  <2>3. \A k \in Nat, l \in Nat, m \in Nat :
            k >= 4 /\ k + l + m = 4 => k = 4 /\ l = 0 /\ m = 0
    OBVIOUS
  <2> QED
    BY <1>1, <2>1, <2>2, <2>3, Zenon
<1>4. asked[3] = StatusCmd[3]
  <2>1. PICK c1 \in Seq(Bytes) : c1 = StatusCmd
    BY <1>2
  <2>2. Outgoing = c1 \o << >>
    BY <1>2, <2>1, Zenon
  <2>3. Len(asked) <= Len(c1)
    <3>1. Len(StatusCmd) = 4
      BY StatusParts
    <3>2. Len(c1) = 4
      BY <2>1, <3>1, Zenon
    <3> QED
      BY <1>3, <3>2
  <2>4. \A k \in 1 .. Len(asked) : asked[k] = c1[k]
    BY <1>2, <2>2, <2>3, Whole
  <2> QED
    BY <1>3, <2>1, <2>4
<1> QED
  BY <1>3, <1>4, StatusParts, UnderWay, EmptySeq

LEMMA CompleteMount ==
    ASSUME LinkTypes, NEW r1 \in Seq(Bytes), Outgoing = MountCmd \o r1, Len(asked) <= Len(MountCmd)
    PROVE  /\ Complete(asked) => asked[3].kind = "cd_mount" /\ fifo_b \o todo = r1
           /\ Len(asked) = Len(MountCmd) => Complete(asked)
<1>1. PICK n \in Nat : n = Len(path)
  BY UnderWay
<1>2. /\ MountCmd \in Seq(Bytes) /\ Len(MountCmd) = 6 + n /\ MountCmd[3].kind = "cd_mount"
      /\ MountCmd[5] = Word(n)[1] /\ MountCmd[6] = Word(n)[2] /\ WordOf(Word(n)) = n
  BY <1>1, MountCmdParts, LengthParts
<1>3. /\ Len(asked) \in Nat /\ Len(asked) <= 6 + n /\ asked \in Seq(Bytes)
      /\ \A k \in 1 .. Len(asked) : asked[k] = MountCmd[k]
  BY <1>2, UnderWay, Whole
<1>4. ASSUME Len(asked) >= 4 PROVE asked[3].kind = "cd_mount"
  <2>1. asked[3] = MountCmd[3]
    BY <1>3, <1>4
  <2> QED
    BY <1>2, <2>1
<1>5. ASSUME Len(asked) >= 6 PROVE Arguments(asked) = 2 + n
  <2>1. asked[5] = Word(n)[1] /\ asked[6] = Word(n)[2]
    <3>1. 5 \in 1 .. Len(asked) /\ 6 \in 1 .. Len(asked)
      BY <1>3, <1>5
    <3>2. asked[5] = MountCmd[5] /\ asked[6] = MountCmd[6]
      BY <1>3, <3>1
    <3> QED
      BY <1>2, <3>2
  <2>2. SubSeq(asked, 5, 6)[1] = asked[5] /\ SubSeq(asked, 5, 6)[2] = asked[6]
    <3>1. \A k \in 5 .. 6 : asked[k] \in Bytes
      BY <1>3, <1>5, ElementOfSeq
    <3>2. \A k \in 1 .. 6 - 5 + 1 : SubSeq(asked, 5, 6)[k] = asked[5 + k - 1]
      BY <3>1, SubSeqProperties
    <3> QED
      BY <3>2
  <2>3. WordOf(SubSeq(asked, 5, 6)) = WordOf(Word(n))
    BY <2>1, <2>2 DEF WordOf
  <2>4. asked[3].kind = "cd_mount"
    BY <1>3, <1>4, <1>5
  <2> QED
    BY <1>2, <1>5, <2>3, <2>4 DEF Arguments
<1>6. ASSUME Complete(asked) PROVE asked[3].kind = "cd_mount" /\ Len(asked) = 6 + n
  <2>1. asked[3].kind = "cd_mount" /\ Len(asked) >= 4 /\ Len(asked) = 4 + Arguments(asked)
    BY <1>4, <1>6 DEF Complete
  <2>2. CASE Len(asked) < 6
    <3>1. Arguments(asked) = 2
      BY <1>3, <2>1, <2>2 DEF Arguments
    <3> QED
      BY <1>3, <2>1, <2>2, <3>1
  <2>3. CASE Len(asked) >= 6
    BY <1>3, <1>5, <2>1, <2>3
  <2> QED
    BY <1>3, <2>2, <2>3
<1>7. ASSUME Len(asked) = 6 + n PROVE Complete(asked) /\ fifo_b \o todo = r1
  <2>1. Len(asked) >= 6
    BY <1>7
  <2>2. Len(asked) = 4 + Arguments(asked)
    BY <1>5, <1>7, <2>1
  <2>3. fifo_b \o todo = r1
    <3>1. Len(asked) = Len(MountCmd) /\ MountCmd \in Seq(Bytes)
      BY <1>2, <1>7
    <3>2. PICK c1 \in Seq(Bytes) : c1 = MountCmd
      BY <3>1
    <3> QED
      BY <3>1, <3>2, Whole
  <2>4. Len(asked) >= 4
    BY <2>1, <1>3
  <2> QED
    BY <2>2, <2>3, <2>4 DEF Complete
<1> QED
  BY <1>2, <1>6, <1>7

\* The first byte of two joined sequences.
LEMMA FirstJoined ==
    ASSUME NEW S, NEW a \in Seq(S), NEW b \in Seq(S), a # << >>
    PROVE  /\ Head(a) = a[1] /\ (a \o b)[1] = a[1] /\ Tail(a) \in Seq(S)
           /\ Tail(a \o b) = Tail(a) \o b
<1>1. /\ Head(a) = a[1] /\ Tail(a) \in Seq(S) /\ Len(Tail(a)) = Len(a) - 1 /\ Len(a) > 0
      /\ \A k \in 1 .. Len(Tail(a)) : Tail(a)[k] = a[k + 1]
      /\ Len(a) \in Nat /\ Len(b) \in Nat
  BY HeadTailProperties, LenProperties, EmptySeq
<1>2. /\ a \o b \in Seq(S) /\ Len(a \o b) = Len(a) + Len(b)
      /\ \A k \in 1 .. Len(a) + Len(b) : (a \o b)[k] = IF k <= Len(a) THEN a[k] ELSE b[k - Len(a)]
  BY ConcatProperties
<1>3. (a \o b)[1] = a[1] /\ a \o b # << >>
  BY <1>1, <1>2, Joined
<1>4. /\ Tail(a \o b) \in Seq(S) /\ Len(Tail(a \o b)) = Len(a) + Len(b) - 1
      /\ \A k \in 1 .. Len(a) + Len(b) - 1 : Tail(a \o b)[k] = (a \o b)[k + 1]
  BY <1>2, <1>3, HeadTailProperties
<1>5. /\ Tail(a) \o b \in Seq(S) /\ Len(Tail(a) \o b) = Len(a) + Len(b) - 1
      /\ \A k \in 1 .. Len(a) + Len(b) - 1 :
             (Tail(a) \o b)[k] = IF k <= Len(a) - 1 THEN Tail(a)[k] ELSE b[k - (Len(a) - 1)]
  <2>1. /\ Tail(a) \o b \in Seq(S) /\ Len(Tail(a) \o b) = Len(Tail(a)) + Len(b)
        /\ \A k \in 1 .. Len(Tail(a)) + Len(b) :
               (Tail(a) \o b)[k] = IF k <= Len(Tail(a)) THEN Tail(a)[k] ELSE b[k - Len(Tail(a))]
    BY <1>1, ConcatProperties
  <2> QED
    BY <1>1, <2>1
<1>6. ASSUME NEW k \in 1 .. Len(a) + Len(b) - 1 PROVE Tail(a \o b)[k] = (Tail(a) \o b)[k]
  <2>1. CASE k <= Len(a) - 1
    BY <1>1, <1>2, <1>4, <1>5, <2>1
  <2>2. CASE k > Len(a) - 1
    BY <1>1, <1>2, <1>4, <1>5, <2>2
  <2> QED
    BY <1>1, <2>1, <2>2
<1>7. Tail(a \o b) = Tail(a) \o b
  <2>1. Len(Tail(a \o b)) = Len(Tail(a) \o b)
        /\ \A k \in 1 .. Len(Tail(a \o b)) : Tail(a \o b)[k] = (Tail(a) \o b)[k]
    BY <1>4, <1>5, <1>6
  <2> QED
    BY <1>4, <1>5, <2>1, SeqEqual
<1> QED
  BY <1>1, <1>3, <1>7

\* What the cartridge finds first, where it has not begun a command.
LEMMA FirstByte ==
    ASSUME LinkIInv, asked = << >>, fifo_b # << >>
    PROVE  /\ Head(fifo_b) = Outgoing[1] /\ Tail(fifo_b) \o todo = Tail(Outgoing)
           /\ \/ Head(fifo_b).kind = "plus" /\ pc # "flush"
              \/ Head(fifo_b).kind = "zero" /\ pc = "flush" /\ Tail(Outgoing) \in Zeros
              \/ /\ Head(fifo_b).kind = "zero" /\ pc \in {"path", "length"} /\ Incoming = << >>
                 /\ \E z \in Zeros : Tail(Outgoing) = z \o PathCmd
           /\ pc \in {"path", "length"} /\ Head(fifo_b).kind = "plus" => Outgoing = PathCmd
<1>1. /\ LinkTypes /\ Talk /\ fifo_b \in Seq(Bytes) /\ todo \in Seq(Bytes)
      /\ Outgoing = fifo_b \o todo /\ Outgoing # << >>
  <2>1. LinkTypes /\ Talk
    BY DEF LinkIInv
  <2>2. fifo_b \o todo \in Seq(Bytes) /\ << >> \o (fifo_b \o todo) = fifo_b \o todo
    BY <2>1, UnderWay, Joined
  <2> QED
    BY <2>1, <2>2, UnderWay DEF Outgoing
<1>2. Head(fifo_b) = Outgoing[1] /\ Tail(fifo_b) \o todo = Tail(Outgoing)
  BY <1>1, FirstJoined
<1>3. pc \in Steps \ {"unlock", "ident", "string", "done"}
  BY <1>1 DEF Talk, LinkTypes, TypeOK
<1>4. CASE pc = "flush"
  <2>1. Outgoing \in Zeros
    BY <1>1, <1>4 DEF Talk
  <2> QED
    BY <1>1, <1>2, <1>4, <2>1, ZerosParts
<1>5. CASE pc \in {"path", "length"}
  <2>1. PICK z \in Zeros : Outgoing = z \o PathCmd /\ Incoming = << >>
    BY <1>1, <1>5 DEF Talk
  <2>2. z \in Seq(Bytes) /\ PathCmd \in Seq(Bytes)
    BY ZerosParts, PathCmdParts
  <2>3. CASE z = << >>
    <3>1. Outgoing = PathCmd
      BY <2>1, <2>2, <2>3, Joined
    <3> QED
      BY <1>2, <1>5, <3>1, PathCmdParts
  <2>4. CASE z # << >>
    <3>1. Outgoing[1] = z[1] /\ Tail(Outgoing) = Tail(z) \o PathCmd
      BY <2>1, <2>2, <2>4, FirstJoined
    <3>2. z[1].kind = "zero" /\ Tail(z) \in Zeros
      BY <2>4, ZerosParts
    <3> QED
      BY <1>2, <1>5, <2>1, <3>1, <3>2
  <2> QED
    BY <2>3, <2>4
<1>6. CASE pc \in {"path_status", "path_answer"}
  <2>1. Outgoing = StatusCmd
    BY <1>1, <1>6 DEF Talk
  <2> QED
    BY <1>2, <1>6, <2>1, StatusParts
<1>7. CASE pc \in {"mount", "mount_status", "mount_answer"}
  <2>1. Outgoing \in {MountCmd, MountCmd \o StatusCmd, StatusCmd}
    BY <1>1, <1>7 DEF Talk
  <2>2. Outgoing[1].kind = "plus"
    <3>1. (MountCmd \o StatusCmd)[1] = MountCmd[1]
      <4>1. MountCmd \in Seq(Bytes) /\ MountCmd # << >>
        BY <1>1, MountCmdParts, UnderWay, EmptySeq
      <4> QED
        BY <4>1, StatusParts, FirstJoined
    <3> QED
      BY <1>1, <2>1, <3>1, MountCmdParts, StatusParts
  <2> QED
    BY <1>2, <1>7, <2>2
<1> QED
  BY <1>2, <1>3, <1>4, <1>5, <1>6, <1>7 DEF Steps

LEMMA TakeStep == LinkIInv /\ Take => LinkIInv'
<1> SUFFICES ASSUME LinkIInv, Take PROVE LinkIInv'
  OBVIOUS
<1>1. LinkTypes /\ Talk /\ Awaited
  BY DEF LinkIInv
<1>2. /\ fifo_b # << >> /\ ~Complete(asked) /\ fifo_b' = Tail(fifo_b)
      /\ UNCHANGED <<fifo_a, path, overlay, pc, todo, left, got, cue_path, resp>>
      /\ \/ asked = << >> /\ Head(fifo_b).kind # "plus" /\ asked' = asked
         \/ (asked # << >> \/ Head(fifo_b).kind = "plus") /\ asked' = Append(asked, Head(fifo_b))
  BY DEF Take, firmwareVars
<1>3. UNCHANGED MountCmd /\ UNCHANGED PathAnswer /\ Incoming' = Incoming
  BY <1>2 DEF MountCmd, PathAnswer, Word, Incoming
<1>4. /\ asked \in Seq(Bytes) /\ fifo_b \in Seq(Bytes) /\ todo \in Seq(Bytes) /\ Len(asked) \in Nat
      /\ Tail(fifo_b) \in Seq(Bytes)
  BY <1>1, <1>2, UnderWay, HeadTailProperties
<1>5. CASE asked = << >> /\ Head(fifo_b).kind # "plus" /\ asked' = asked
  <2>1. Outgoing' = Tail(Outgoing)
    <3>1. Tail(fifo_b) \o todo \in Seq(Bytes)
          /\ << >> \o (Tail(fifo_b) \o todo) = Tail(fifo_b) \o todo
      BY <1>4, Joined
    <3> QED
      BY <1>2, <1>5, <3>1, FirstByte DEF Outgoing
  <2>2. \/ pc = "flush" /\ Tail(Outgoing) \in Zeros
        \/ pc \in {"path", "length"} /\ Incoming = << >> /\ \E z \in Zeros : Tail(Outgoing) = z \o PathCmd
    BY <1>2, <1>5, FirstByte
  <2>3. LinkTypes'
    BY <1>1, <1>2, <1>4, <1>5 DEF LinkTypes, TypeOK
  <2>4. Talk'
    BY <1>1, <1>2, <1>3, <1>5, <2>1, <2>2 DEF Talk
  <2>5. Awaited'
    BY <1>1, <1>2, <1>3, <1>5 DEF Awaited
  <2> QED
    BY <2>3, <2>4, <2>5 DEF LinkIInv
<1>6. CASE (asked # << >> \/ Head(fifo_b).kind = "plus") /\ asked' = Append(asked, Head(fifo_b))
  <2>1. /\ Append(asked, Head(fifo_b)) \in Seq(Bytes)
        /\ Len(Append(asked, Head(fifo_b))) = Len(asked) + 1
        /\ Append(asked, Head(fifo_b)) \o Tail(fifo_b) = asked \o fifo_b
    BY <1>2, <1>4, Shifted
  <2>2. Outgoing' = Outgoing
    <3>1. /\ Append(asked, Head(fifo_b)) \o (Tail(fifo_b) \o todo)
                 = (Append(asked, Head(fifo_b)) \o Tail(fifo_b)) \o todo
          /\ asked \o (fifo_b \o todo) = (asked \o fifo_b) \o todo
      <4>1. PICK a \in Seq(Bytes), b \in Seq(Bytes) :
                a = Append(asked, Head(fifo_b)) /\ b = Tail(fifo_b)
        BY <1>4, <2>1
      <4>2. asked \in Seq(Bytes) /\ fifo_b \in Seq(Bytes) /\ todo \in Seq(Bytes)
        BY <1>4
      <4>3. a \o (b \o todo) = (a \o b) \o todo
        BY <4>2, AssociativeOf, ZenonT(60)
      <4>4. asked \o (fifo_b \o todo) = (asked \o fifo_b) \o todo
        BY <4>2, AssociativeOf, ZenonT(60)
      <4> QED
        BY <4>1, <4>3, <4>4, Zenon
    <3> QED
      BY <1>2, <1>6, <2>1, <3>1 DEF Outgoing
  <2>3. asked = << >> => pc # "flush" /\ (pc \in {"path", "length"} => Outgoing = PathCmd)
    BY <1>2, <1>6, FirstByte
  <2>4. Outgoing # << >>
    BY <1>1, <1>2, UnderWay
  <2>5. Len(asked) < Len(MountCmd)
    <3>1. /\ Len(MountCmd) = 6 + Len(path) /\ Len(path) \in Nat /\ Len(asked) <= Len(MountCmd)
          /\ Len(fifo_b) \in Nat \ {0} /\ Len(todo) \in Nat
          /\ Len(Outgoing) = Len(asked) + Len(fifo_b) + Len(todo)
      BY <1>1, <1>2, MountCmdParts, UnderWay, EmptySeq DEF Awaited
    <3>2. CASE Outgoing = MountCmd \o StatusCmd
      <4>1. Len(asked) # Len(MountCmd)
        BY <1>1, <1>2, <3>1, <3>2, StatusParts, CompleteMount
      <4> QED
        BY <1>4, <3>1, <4>1
    <3>3. CASE asked = << >>
      BY <3>1, <3>3, EmptySeq
    <3>4. CASE Outgoing # MountCmd \o StatusCmd /\ asked # << >>
      <4>1. Outgoing \in {PathCmd, StatusCmd, MountCmd}
        <5>1. pc \in Steps
          BY <1>1 DEF LinkTypes, TypeOK
        <5>2. ASSUME pc \in {"path", "length"} PROVE Outgoing = PathCmd
          <6>1. << >> \o PathCmd = PathCmd
            BY PathCmdParts, Joined
          <6> QED
            BY <1>1, <2>4, <3>4, <5>2, <6>1 DEF Talk
        <5> QED
          BY <1>1, <2>4, <3>4, <5>1, <5>2 DEF Talk, Steps
      <4>2. Len(Outgoing) <= Len(MountCmd)
        <5>1. Len(PathCmd) = 5 /\ Len(StatusCmd) = 4
          BY PathCmdParts, StatusParts
        <5>2. CASE Outgoing = MountCmd
          BY <3>1, <5>2
        <5>3. CASE Outgoing # MountCmd
          <6>1. Len(Outgoing) <= 5
            <7>1. Outgoing = PathCmd \/ Outgoing = StatusCmd
              BY <4>1, <5>3
            <7>2. Len(Outgoing) = 5 \/ Len(Outgoing) = 4
              BY <5>1, <7>1, Zenon
            <7>3. \A k \in {4, 5} : k <= 5
              OBVIOUS
            <7> QED
              BY <7>2, <7>3, Zenon
          <6> QED
            BY <3>1, <6>1
        <5> QED
          BY <5>2, <5>3
      <4> QED
        BY <1>4, <3>1, <4>2
    <3> QED
      BY <3>2, <3>3, <3>4
  <2>6. LinkTypes'
    BY <1>1, <1>2, <1>4, <1>6, <2>1 DEF LinkTypes, TypeOK
  <2>7. Talk'
    <3>1. pc \in {"path", "length"} /\ Outgoing = PathCmd =>
              \E z \in Zeros : Outgoing = z \o PathCmd /\ z = << >>
      <4>1. << >> \in Zeros /\ << >> \o PathCmd = PathCmd
        BY PathCmdParts, Joined DEF Zeros
      <4> QED
        BY <4>1
    <3>2. pc \in {"path", "length"} =>
              \/ (\E z \in Zeros : Outgoing = z \o PathCmd /\ z = << >>) /\ Incoming = << >>
              \/ Outgoing = << >> /\ Incoming = PathAnswer
      BY <1>1, <2>3, <2>4, <3>1 DEF Talk
    <3>3. pc # "flush"
      BY <1>1, <2>3 DEF Talk
    <3> QED
      BY <1>1, <1>2, <1>3, <2>2, <3>2, <3>3 DEF Talk
  <2>8. Awaited'
    <3>1. Len(asked') <= Len(MountCmd')
      BY <1>3, <1>4, <1>6, <1>1, <2>1, <2>5, MountCmdParts, UnderWay
    <3> QED
      BY <1>1, <1>2, <1>3, <3>1 DEF Awaited
  <2> QED
    BY <2>6, <2>7, <2>8 DEF LinkIInv
<1> QED
  BY <1>2, <1>5, <1>6

LEMMA AnswerStep == LinkIInv /\ Answer => LinkIInv'
<1> SUFFICES ASSUME LinkIInv, Answer PROVE LinkIInv'
  OBVIOUS
<1>1. LinkTypes /\ Talk /\ Awaited
  BY DEF LinkIInv
<1>2. PICK bytes \in Answers(asked) : fifo_a' = fifo_a \o bytes
  BY DEF Answer
<1>3. /\ Complete(asked) /\ asked' = << >>
      /\ UNCHANGED <<fifo_b, path, overlay, pc, todo, left, got, cue_path, resp>>
  BY DEF Answer, firmwareVars
<1>4. UNCHANGED MountCmd /\ UNCHANGED PathAnswer
  BY <1>3 DEF MountCmd, PathAnswer, Word
<1>5. /\ asked # << >> /\ Outgoing # << >>
      /\ << >> \in Seq(Bytes) /\ << >> \o << >> = << >> /\ Len(<< >>) = 0
  BY <1>1, <1>3, UnderWay, EmptySeq, Joined DEF Complete
<1>6. Awaited'
  <2>1. Len(asked') <= Len(MountCmd')
    <3>1. Len(MountCmd) = 6 + Len(path) /\ Len(path) \in Nat
      BY <1>1, MountCmdParts, UnderWay
    <3> QED
      BY <1>3, <1>4, <1>5, <3>1
  <2> QED
    BY <1>1, <1>3, <2>1 DEF Awaited
<1>7. ASSUME fifo_a' \in Seq(Bytes) PROVE LinkTypes'
  BY <1>1, <1>3, <1>5, <1>7 DEF LinkTypes, TypeOK
<1>8. pc \in {"path", "length", "path_status", "path_answer", "mount", "mount_status", "mount_answer"}
  BY <1>1, <1>5 DEF Talk, LinkTypes, TypeOK, Steps
<1>9. Incoming = << >> /\ got = << >> /\ fifo_a = << >>
  BY <1>1, <1>5, <1>8, UnderWay DEF Talk
<1>10. CASE pc \in {"path", "length"}
  <2>1. Outgoing = PathCmd
    <3>1. << >> \o PathCmd = PathCmd
      BY PathCmdParts, Joined
    <3> QED
      BY <1>1, <1>5, <1>10, <3>1 DEF Talk
  <2>2. asked[3].kind = "rom_path" /\ fifo_b = << >> /\ todo = << >>
    BY <1>1, <1>3, <2>1, CompletePath
  <2>3. bytes = PathAnswer
    BY <1>2, <2>2 DEF Answers, PathAnswer, Word
  <2>4. PathAnswer \in Seq(Bytes) /\ << >> \o PathAnswer = PathAnswer
    BY <1>1, LengthParts, UnderWay, Joined DEF PathAnswer
  <2>5. fifo_a' = PathAnswer
    BY <1>2, <1>9, <2>3, <2>4
  <2>6. Outgoing' = << >> /\ Incoming' = PathAnswer
    BY <1>3, <1>5, <1>9, <2>2, <2>4, <2>5 DEF Outgoing, Incoming
  <2>7. Talk'
    BY <1>3, <1>4, <1>10, <2>6 DEF Talk
  <2> QED
    BY <1>6, <1>7, <2>4, <2>5, <2>7 DEF LinkIInv
<1>11. CASE Outgoing = StatusCmd
  <2>1. asked[3].kind = "status2" /\ fifo_b = << >> /\ todo = << >>
    BY <1>1, <1>3, <1>11, CompleteStatus
  <2>2. bytes \in StatusAnswers
    BY <1>2, <2>1 DEF Answers, StatusAnswers
  <2>3. bytes \in Seq(Bytes) /\ << >> \o bytes = bytes
    BY <2>2, StatusParts, Joined
  <2>4. fifo_a' = bytes
    BY <1>2, <1>9, <2>3
  <2>5. Outgoing' = << >> /\ Incoming' = bytes
    BY <1>3, <1>5, <1>9, <2>1, <2>3, <2>4 DEF Outgoing, Incoming
  <2>6. pc \in {"path_status", "path_answer", "mount_status", "mount_answer"}
    <3>1. StatusCmd # PathCmd /\ StatusCmd # MountCmd
      BY <1>1, StatusParts, PathCmdParts, MountCmdParts, UnderWay
    <3>2. << >> \o PathCmd = PathCmd
      BY PathCmdParts, Joined
    <3> QED
      BY <1>1, <1>5, <1>8, <1>11, <3>1, <3>2 DEF Talk
  <2>7. Talk'
    BY <1>3, <2>2, <2>5, <2>6 DEF Talk
  <2> QED
    BY <1>6, <1>7, <2>3, <2>4, <2>7 DEF LinkIInv
<1>12. CASE Outgoing \in {MountCmd, MountCmd \o StatusCmd} /\ pc \in {"mount", "mount_status", "mount_answer"}
  <2>1. PICK rest \in {<< >>, StatusCmd} : Outgoing = MountCmd \o rest
                                           /\ (pc # "mount" => rest = StatusCmd)
    <3>1. MountCmd \o << >> = MountCmd /\ MountCmd # StatusCmd
      BY <1>1, MountCmdParts, StatusParts, Joined
    <3>2. CASE pc = "mount"
      BY <1>1, <1>5, <1>12, <3>1, <3>2 DEF Talk
    <3>3. CASE pc # "mount"
      <4>1. Outgoing \in {MountCmd \o StatusCmd, StatusCmd}
        BY <1>1, <1>5, <1>12, <3>3 DEF Talk
      <4>2. Outgoing = MountCmd \o StatusCmd
        BY <1>12, <3>1, <4>1
      <4> QED
        BY <4>2
    <3> QED
      BY <3>2, <3>3
  <2>2. rest \in Seq(Bytes)
    BY <1>5, <2>1, StatusParts
  <2>3. asked[3].kind = "cd_mount" /\ fifo_b \o todo = rest
    BY <1>1, <1>3, <2>1, <2>2, CompleteMount DEF Awaited
  <2>4. bytes = << >> /\ fifo_a' = << >>
    BY <1>2, <1>5, <1>9, <2>3 DEF Answers
  <2>5. Outgoing' = rest /\ Incoming' = << >>
    <3>1. << >> \o rest = rest
      BY <2>2, Joined
    <3> QED
      BY <1>3, <1>5, <1>9, <2>3, <2>4, <3>1 DEF Outgoing, Incoming
  <2>6. pc = "mount" => rest = << >>
    <3>1. ASSUME pc = "mount" PROVE Outgoing = MountCmd
      BY <1>1, <1>5, <3>1 DEF Talk
    <3>2. ASSUME pc = "mount" PROVE rest = << >>
      <4>1. MountCmd \o rest = MountCmd
        BY <2>1, <3>1, <3>2
      <4> QED
        BY <1>1, <2>2, <4>1, MountCmdParts, ConcatEqualIffEmpty
    <3> QED
      BY <3>2
  <2>7. Talk'
    BY <1>3, <1>4, <1>12, <2>1, <2>5, <2>6 DEF Talk
  <2> QED
    BY <1>5, <1>6, <1>7, <2>4, <2>7 DEF LinkIInv
<1> QED
  BY <1>1, <1>5, <1>8, <1>10, <1>11, <1>12 DEF Talk
-----------------------------------------------------------------------------
LEMMA InitLink == Init => LinkIInv
<1> SUFFICES ASSUME Init PROVE LinkIInv
  OBVIOUS
<1>1. << >> \in Seq(Bytes) /\ Len(<< >>) = 0 /\ << >> \o << >> = << >>
  BY EmptySeq, Joined
<1>2. fifo_a \in Seq(Bytes) /\ Len(fifo_a) <= MaxRest
  <2>1. PICK n \in 0 .. MaxRest : fifo_a = [k \in 1 .. n |-> Byte("rest", 0)]
    BY DEF Init
  <2>2. Byte("rest", 0) \in Bytes
    BY DEF Byte, Bytes, Kinds
  <2> QED
    BY <2>1, <2>2, LinkAssumption
<1>3. path \in Seq(Bytes) /\ Len(path) <= MaxPath
  <2>1. PICK n \in 0 .. MaxPath : path = [k \in 1 .. n |-> Byte("char", k)]
    BY DEF Init
  <2>2. ASSUME NEW k \in 1 .. n PROVE Byte("char", k) \in Bytes
    BY <2>1, LinkAssumption DEF Byte, Bytes, Kinds
  <2>3. n \in Nat
    BY LinkAssumption
  <2> QED
    BY <2>1, <2>2, <2>3, LinkAssumption
<1>4. LinkTypes
  <2>1. left \in (0 .. MaxPath) \cup (0 .. 4) /\ pc \in Steps /\ ~(left > 0)
    BY DEF Init, Steps
  <2>2. overlay \in BOOLEAN /\ resp \in {Ok, Error, MDP_ERR_NOCD}
    BY DEF Init
  <2>3. TypeOK
    BY <2>1, <2>2 DEF TypeOK
  <2>4. {fifo_a, fifo_b, todo, got, cue_path, path, asked} \subseteq Seq(Bytes)
    BY <1>1, <1>2, <1>3 DEF Init
  <2> QED
    BY <1>3, <2>2, <2>3, <2>4 DEF LinkTypes
<1>5. Outgoing = << >>
  BY <1>1 DEF Init, Outgoing
<1>6. Talk
  BY <1>2, <1>5 DEF Init, Talk
<1>7. Awaited
  <2>1. Len(MountCmd) = 6 + Len(path) /\ Len(path) \in Nat
    BY <1>4, MountCmdParts, UnderWay
  <2> QED
    BY <1>1, <2>1 DEF Init, Awaited
<1> QED
  BY <1>4, <1>6, <1>7 DEF LinkIInv

LEMMA NextLink == LinkIInv /\ [Next]_vars => LinkIInv'
<1> SUFFICES ASSUME LinkIInv, [Next]_vars PROVE LinkIInv'
  OBVIOUS
<1>1. CASE Firmware
  BY <1>1, UnlockStep, IdentStep, FifoWrStep, FlushDrainStep, FifoRdStep, ProceedStep, FinishStep
     DEF Firmware
<1>2. CASE Cartridge
  BY <1>2, TakeStep, AnswerStep DEF Cartridge
<1>3. CASE UNCHANGED vars
  <2>1. /\ UNCHANGED <<fifo_a, fifo_b, todo, got, cue_path, path, asked>>
        /\ UNCHANGED <<pc, left, resp, overlay>>
    BY <1>3 DEF vars
  <2>2. UNCHANGED Outgoing /\ UNCHANGED Incoming /\ UNCHANGED PathAnswer /\ UNCHANGED MountCmd
    BY <2>1 DEF Outgoing, Incoming, PathAnswer, MountCmd, Word
  <2>3. LinkTypes'
    BY <2>1 DEF LinkIInv, LinkTypes, TypeOK
  <2>4. Talk'
    BY <2>1, <2>2 DEF LinkIInv, Talk
  <2>5. Awaited'
    BY <2>1, <2>2 DEF LinkIInv, Awaited
  <2> QED
    BY <2>3, <2>4, <2>5 DEF LinkIInv
<1> QED
  BY <1>1, <1>2, <1>3 DEF Next, Wait, Finished

\* The answers are those of the calls, and the queues hold what is under way.
LEMMA LinkKept == LinkIInv => AnswersInStep
<1> SUFFICES ASSUME LinkIInv PROVE AnswersInStep
  OBVIOUS
<1>1. LinkTypes /\ Talk /\ Awaited
  BY DEF LinkIInv
<1>2. InStep
  <2>1. resp \notin {ERR_UNXP_STAT, MDP_ERR_ID}
    BY <1>1 DEF LinkTypes, Ok, Error, MDP_ERR_NOCD, ERR_UNXP_STAT, MDP_ERR_ID
  <2>2. pc = "done" => fifo_a = << >> /\ fifo_b = << >> /\ asked = << >>
    BY <1>1, UnderWay DEF Talk
  <2> QED
    BY <1>1, <2>1, <2>2 DEF InStep, Awaited
<1>3. PICK n \in Nat : n = Len(path)
  BY <1>1, UnderWay
<1>4. n <= MaxPath /\ MaxPath \in Nat /\ Capacity \in Nat /\ Capacity >= MaxPath + 10 /\ MaxRest <= Capacity
  BY <1>1, <1>3, LinkAssumption DEF LinkTypes
<1>5. /\ Len(MountCmd) = 6 + n /\ Len(PathCmd) = 5 /\ Len(StatusCmd) = 4
      /\ Len(MountCmd \o StatusCmd) = 10 + n
      /\ \A z \in Zeros : Len(z \o PathCmd) <= 7 /\ Len(z) <= 2
      /\ Len(PathAnswer) = 2 + n /\ \A s \in StatusAnswers : Len(s) = 4
  <2>1. /\ MountCmd \in Seq(Bytes) /\ Len(MountCmd) = 6 + n /\ PathCmd \in Seq(Bytes) /\ Len(PathCmd) = 5
        /\ StatusCmd \in Seq(Bytes) /\ Len(StatusCmd) = 4 /\ path \in Seq(Bytes)
        /\ Word(Len(path)) \in Seq(Bytes) /\ Len(Word(Len(path))) = 2
    BY <1>1, <1>3, MountCmdParts, PathCmdParts, StatusParts, LengthParts, UnderWay
  <2>2. Len(MountCmd \o StatusCmd) = Len(MountCmd) + Len(StatusCmd)
    <3>1. PICK a \in Seq(Bytes), b \in Seq(Bytes) : a = MountCmd /\ b = StatusCmd
      BY <2>1
    <3>2. Len(a \o b) = Len(a) + Len(b)
      BY Joined
    <3> QED
      BY <3>1, <3>2
  <2>3. Len(PathAnswer) = Len(Word(Len(path))) + Len(path)
    <3>1. PICK w \in Seq(Bytes) : w = Word(Len(path))
      BY <2>1
    <3>2. Len(w \o path) = Len(w) + Len(path)
      BY <2>1, Joined
    <3> QED
      BY <3>1, <3>2, Zenon DEF PathAnswer
  <2>4. ASSUME NEW z \in Zeros PROVE Len(z \o PathCmd) <= 7 /\ Len(z) <= 2
    <3>1. z \in Seq(Bytes) /\ Len(z) <= 2
      BY ZerosParts
    <3>2. Len(z \o PathCmd) = Len(z) + Len(PathCmd) /\ Len(z) \in Nat
      BY <2>1, <3>1, Joined
    <3> QED
      BY <2>1, <3>1, <3>2
  <2>5. \A s \in StatusAnswers : Len(s) = 4
    BY StatusParts
  <2> QED
    BY <1>3, <2>1, <2>2, <2>3, <2>4, <2>5
<1>6. Len(Outgoing) <= 10 + n
  BY <1>1, <1>5, EmptySeq DEF Talk, LinkTypes, TypeOK, Steps
<1>7. Len(fifo_a) <= MaxRest \/ Len(Incoming) <= 4 + n \/ Len(fifo_a) = 0
  BY <1>1, <1>3, <1>5, EmptySeq DEF Talk, LinkTypes, TypeOK, Steps
<1>8. Fits
  <2>1. /\ Len(Outgoing) = Len(asked) + Len(fifo_b) + Len(todo) /\ Len(Incoming) = Len(got) + Len(fifo_a)
        /\ Len(asked) \in Nat /\ Len(fifo_b) \in Nat /\ Len(todo) \in Nat
        /\ Len(got) \in Nat /\ Len(fifo_a) \in Nat
    BY <1>1, UnderWay
  <2>2. Len(fifo_b) <= Capacity
    BY <1>4, <1>6, <2>1
  <2>3. MaxRest \in Nat
    BY LinkAssumption
  <2>4. Len(fifo_a) <= Capacity
    BY <1>4, <1>7, <2>1, <2>3
  <2> QED
    BY <2>2, <2>4 DEF Fits
<1> QED
  BY <1>1, <1>2, <1>8 DEF AnswersInStep, LinkTypes
-----------------------------------------------------------------------------
(***************************************************************************)
(* The queue, for any number of bytes and any clocks its two sides take.   *)
(***************************************************************************)
Tags == 2 * Size
Minus(a, b, n) == IF a >= b THEN a - b ELSE a - b + n
Plus(a, b, n) == IF a + b < n THEN a + b ELSE a + b - n

\* The bytes the queue counts and those there are; a byte that was read or
\* written in the last two clocks, and the one the next read gives.
Counted == Minus(we_addr, oe_addr, Size)
There == Minus(put, taken, Tags)
Late == IF access # "byte" /\ (oe_st[1] \/ oe_st[2]) THEN 1 ELSE 0
Early == IF ~we /\ (we_st[1] \/ we_st[2]) THEN 1 ELSE 0
First == Minus(taken, Late, Tags)
\* The access that read a byte ended one clock before.
JustRead == IF access # "byte" /\ oe_st[1] THEN 1 ELSE 0

QueueTypes ==
    /\ Queue!TypeOK
    /\ put \in 0 .. Tags - 1 /\ taken \in 0 .. Tags - 1 /\ last \in 0 .. Tags
    /\ we_for \in Nat \ {0} /\ access_for \in Nat \ {0}
    /\ {we, seen, fifo_status} \subseteq BOOLEAN
    /\ we_st \in BOOLEAN \X BOOLEAN /\ oe_st \in BOOLEAN \X BOOLEAN

\* What the two clocks before were, by how long the strobes are as they are.
WriteStrobes ==
    /\ we => (we_st[1] <=> we_for > 1) /\ (we_st[2] => we_st[1])
    /\ ~we => (we_st[1] <=> we_for = 1) /\ (we_st[2] => we_for <= 2)
ReadStrobes ==
    /\ access = "byte" => seen /\ access_for <= 2 /\ (oe_st[1] <=> access_for = 2) /\ ~oe_st[2]
    /\ access = "status" => ~oe_st[1] /\ ~oe_st[2]
    /\ access = "none" =>
          /\ oe_st[1] \/ oe_st[2] => ~seen
          /\ oe_st[1] => access_for = 1
          /\ oe_st[2] => access_for <= 2

\* There is a byte where the firmware has seen one, and until it is counted.
NotEmpty == seen \/ (access = "status" /\ ~fifo_status) \/ Late = 1 => we_addr # oe_addr

\* The queue counts what there is, and there is room for the byte that is being
\* written.
Room ==
    /\ Counted + Early = There + Late
    /\ There + Late <= Size - 1
    /\ we => There + 1 + JustRead <= Size - 1

\* The bytes are in the memory, in their order.
Memory ==
    \A k \in 0 .. Size - 1 :
        k < There + Late => ram[Plus(oe_addr, k, Size)] = Plus(First, k, Tags)

ReadNext ==
    /\ access = "byte" => dato = taken
    /\ last # Tags => last = Minus(taken, 1, Tags)

QueueIInv ==
    QueueTypes /\ WriteStrobes /\ ReadStrobes /\ NotEmpty /\ Room /\ Memory /\ ReadNext

\* The length of a queue of the code is a remainder; so is what follows.
LEMMA Remainders ==
    ASSUME NEW n \in Nat, n > 0, NEW a \in 0 .. n - 1, NEW b \in 0 .. n - 1
    PROVE  /\ (a - b + n) % n = Minus(a, b, n) /\ Minus(a, b, n) \in 0 .. n - 1
           /\ (a + 1) % n = Plus(a, 1, n) /\ Plus(a, 1, n) \in 0 .. n - 1
           /\ n > 1 => (a + n - 1) % n = Minus(a, 1, n) /\ Minus(a, 1, n) \in 0 .. n - 1
<1>1. (a - b + n) % n = Minus(a, b, n)
  <2>1. a - b + n \in 0 .. 2 * n - 1
    OBVIOUS
  <2> QED
    BY <2>1, LowWord DEF Minus
<1>2. (a + 1) % n = Plus(a, 1, n)
  <2>1. a + 1 \in 0 .. 2 * n - 1
    OBVIOUS
  <2> QED
    BY <2>1, LowWord DEF Plus
<1>3. (a + n - 1) % n = Minus(a, 1, n)
  <2>1. a + n - 1 \in 0 .. 2 * n - 1
    OBVIOUS
  <2> QED
    BY <2>1, LowWord DEF Minus
<1>4. /\ Minus(a, b, n) \in 0 .. n - 1 /\ Plus(a, 1, n) \in 0 .. n - 1
      /\ n > 1 => Minus(a, 1, n) \in 0 .. n - 1
  BY DEF Minus, Plus
<1> QED
  BY <1>1, <1>2, <1>3, <1>4

LEMMA Sizes ==
    /\ Size \in Nat /\ Size > 1 /\ Tags \in Nat /\ Tags > 1 /\ Queue!Tags = Tags
    /\ WriteGap >= 2 /\ ReadGap >= 3 /\ WriteGap \in Nat /\ ReadGap \in Nat
    /\ Queue!Longest \in Nat /\ Queue!Longest >= 6
BY LayersAssumption DEF Queue!FifoAssumption, Tags, Queue!Tags, Queue!Longest

\* What the numbers are.
LEMMA Numbered ==
    ASSUME QueueIInv
    PROVE
        /\ we_addr \in 0 .. Size - 1 /\ oe_addr \in 0 .. Size - 1
        /\ put \in 0 .. Tags - 1 /\ taken \in 0 .. Tags - 1
        /\ Late \in {0, 1} /\ Early \in {0, 1}
        /\ Counted \in 0 .. Size - 1 /\ There \in 0 .. Tags - 1 /\ First \in 0 .. Tags - 1
        /\ Queue!Advance(we_addr) = Plus(we_addr, 1, Size)
        /\ Queue!Advance(oe_addr) = Plus(oe_addr, 1, Size)
        /\ (put + 1) % Tags = Plus(put, 1, Tags) /\ (taken + 1) % Tags = Plus(taken, 1, Tags)
        /\ Plus(put, 1, Tags) \in 0 .. Tags - 1 /\ Plus(taken, 1, Tags) \in 0 .. Tags - 1
        /\ Plus(we_addr, 1, Size) \in 0 .. Size - 1 /\ Plus(oe_addr, 1, Size) \in 0 .. Size - 1
        /\ (put - taken + Tags) % Tags = There
        /\ (we_addr - oe_addr + Size) % Size = Counted
        /\ (taken + Tags - 1) % Tags = Minus(taken, 1, Tags)
<1>1. /\ we_addr \in 0 .. Size - 1 /\ oe_addr \in 0 .. Size - 1
      /\ put \in 0 .. Tags - 1 /\ taken \in 0 .. Tags - 1
  BY DEF QueueIInv, QueueTypes, Queue!TypeOK
<1>2. Late \in {0, 1} /\ Early \in {0, 1}
  BY DEF Late, Early
<1>3. First \in 0 .. Tags - 1
  BY <1>1, <1>2, Sizes DEF First, Minus
<1>4. /\ Counted \in 0 .. Size - 1 /\ (we_addr - oe_addr + Size) % Size = Counted
      /\ Plus(we_addr, 1, Size) \in 0 .. Size - 1 /\ Plus(oe_addr, 1, Size) \in 0 .. Size - 1
      /\ (we_addr + 1) % Size = Plus(we_addr, 1, Size)
      /\ (oe_addr + 1) % Size = Plus(oe_addr, 1, Size)
  <2>1. Size \in Nat /\ Size > 0
    BY Sizes
  <2> QED
    BY <1>1, <2>1, Remainders DEF Counted
<1>5. /\ There \in 0 .. Tags - 1 /\ (put - taken + Tags) % Tags = There
      /\ Plus(put, 1, Tags) \in 0 .. Tags - 1 /\ Plus(taken, 1, Tags) \in 0 .. Tags - 1
      /\ (put + 1) % Tags = Plus(put, 1, Tags) /\ (taken + 1) % Tags = Plus(taken, 1, Tags)
      /\ (taken + Tags - 1) % Tags = Minus(taken, 1, Tags)
  <2>1. Tags \in Nat /\ Tags > 0 /\ Tags > 1
    BY Sizes
  <2> QED
    BY <1>1, <2>1, Remainders DEF There
<1> QED
  BY <1>1, <1>2, <1>3, <1>4, <1>5 DEF Queue!Advance

LEMMA QueueKept == QueueIInv => QueueInOrder
<1> SUFFICES ASSUME QueueIInv PROVE QueueInOrder
  OBVIOUS
<1>1. /\ (put - taken + Tags) % Tags = There /\ (we_addr - oe_addr + Size) % Size = Counted
      /\ (taken + Tags - 1) % Tags = Minus(taken, 1, Tags)
  BY Numbered
<1>2. Queue!ReadInOrder
  BY <1>1, Sizes DEF QueueIInv, ReadNext, NotEmpty, Queue!ReadInOrder, Queue!fifo_empty
<1>3. Queue!Counts
  <2> SUFFICES ASSUME access # "byte"
               PROVE  ((we_addr - oe_addr + Size) % Size)
                          + (IF ~we /\ (we_st[1] \/ we_st[2]) THEN 1 ELSE 0)
                      = ((put - taken + Queue!Tags) % Queue!Tags)
                          + (IF oe_st[1] \/ oe_st[2] THEN 1 ELSE 0)
    BY DEF Queue!Counts
  <2>1. Counted + Early = There + Late
    BY DEF QueueIInv, Room
  <2>2. Late = IF oe_st[1] \/ oe_st[2] THEN 1 ELSE 0
    BY DEF Late
  <2> QED
    BY <1>1, <2>1, <2>2, Sizes DEF Early
<1> QED
  BY <1>2, <1>3 DEF QueueInOrder, QueueIInv, QueueTypes

LEMMA InitQueue == Queue!Init => QueueIInv
<1> SUFFICES ASSUME Queue!Init PROVE QueueIInv
  OBVIOUS
<1>1. QueueTypes
  <2>1. ram \in [0 .. Size - 1 -> 0 .. Queue!Tags]
    BY Sizes DEF Queue!Init
  <2>2. we_st \in BOOLEAN \X BOOLEAN /\ oe_st \in BOOLEAN \X BOOLEAN
    BY DEF Queue!Init
  <2>3. {we, seen, fifo_status} \subseteq BOOLEAN
    BY DEF Queue!Init
  <2>4. /\ we_addr = 0 /\ oe_addr = 0 /\ dato = Tags /\ last = Tags /\ put = 0 /\ taken = 0
        /\ we_for = WriteGap /\ access_for = ReadGap /\ access = "none" /\ seen = FALSE
    BY Sizes DEF Queue!Init
  <2> QED
    BY <2>1, <2>2, <2>3, <2>4, Sizes DEF QueueTypes, Queue!TypeOK
<1>2. WriteStrobes /\ ReadStrobes
  <2>1. we_st[1] = FALSE /\ we_st[2] = FALSE /\ oe_st[1] = FALSE /\ oe_st[2] = FALSE
    BY DEF Queue!Init
  <2>2. ~we /\ access = "none" /\ we_for # 1
    BY Sizes DEF Queue!Init
  <2> QED
    BY <2>1, <2>2, Zenon DEF WriteStrobes, ReadStrobes
<1>3. Late = 0 /\ Early = 0 /\ Counted = 0 /\ There = 0
  BY DEF Queue!Init, Late, Early, Counted, There, Minus
<1> QED
  BY <1>1, <1>2, <1>3, Sizes DEF Queue!Init, QueueIInv, NotEmpty, Room, Memory, ReadNext

\* What the side of the cartridge may do in a clock: a byte that was written
\* is counted, one is written, or neither.
ByteCounted ==
    /\ Early = 1 /\ Early' = 0 /\ ~we
    /\ we_addr' = Plus(we_addr, 1, Size) /\ put' = put
ByteWritten ==
    /\ we /\ ~we' /\ Early = 0 /\ Early' = 1
    /\ we_addr' = we_addr /\ put' = Plus(put, 1, Tags)
NothingWritten == Early' = Early /\ we_addr' = we_addr /\ put' = put

LEMMA WriteSide ==
    QueueIInv /\ Queue!Clock =>
        /\ WriteStrobes' /\ we' \in BOOLEAN /\ we_for' \in Nat \ {0} /\ we_st' \in BOOLEAN \X BOOLEAN
        /\ ByteCounted \/ ByteWritten \/ NothingWritten
        /\ we' /\ ~we => There < Size - 1
<1> SUFFICES ASSUME QueueIInv, Queue!Clock
             PROVE  /\ WriteStrobes' /\ we' \in BOOLEAN /\ we_for' \in Nat \ {0}
                    /\ we_st' \in BOOLEAN \X BOOLEAN
                    /\ ByteCounted \/ ByteWritten \/ NothingWritten
                    /\ we' /\ ~we => There < Size - 1
  OBVIOUS
<1>1. /\ we \in BOOLEAN /\ we_for \in Nat /\ we_for >= 1 /\ we_st \in BOOLEAN \X BOOLEAN
      /\ WriteStrobes
  BY DEF QueueIInv, QueueTypes
<1>2. we_st[1] \in BOOLEAN /\ we_st[2] \in BOOLEAN /\ we_st = <<we_st[1], we_st[2]>>
  BY <1>1
<1>3. /\ we_st' = <<we, we_st[1]>> /\ we_st'[1] = we /\ we_st'[2] = we_st[1]
      /\ we_addr' = IF we_st = <<FALSE, TRUE>> THEN Plus(we_addr, 1, Size) ELSE we_addr
  BY Numbered DEF Queue!Clock, Queue!Buffer, Queue!we_end
<1>4. we_st = <<FALSE, TRUE>> <=> ~we_st[1] /\ we_st[2]
  <2>1. PICK a, b \in BOOLEAN : we_st = <<a, b>>
    BY <1>1
  <2>2. we_st[1] = a /\ we_st[2] = b
    BY <2>1
  <2>3. we_st = <<FALSE, TRUE>> <=> a = FALSE /\ b = TRUE
    BY <2>1
  <2> QED
    BY <2>1, <2>2, <2>3, Zenon
<1>5. we_st' \in BOOLEAN \X BOOLEAN
  BY <1>1, <1>2, <1>3
<1>6. CASE Queue!WriteStays
  <2>1. /\ we' = we /\ put' = put
        /\ we_for' = we_for + 1 \/ (we_for' = we_for /\ we_for >= 6)
    BY <1>1, <1>6, Sizes DEF Queue!WriteStays, Queue!Longer
  <2>2. we_for' \in Nat \ {0} /\ we_for' > 1 /\ (we_for' <= 2 <=> we_for = 1)
    BY <1>1, <2>1
  <2>3. WriteStrobes'
    BY <1>1, <1>3, <2>1, <2>2 DEF WriteStrobes
  <2>4. ASSUME ~we /\ ~we_st[1] /\ we_st[2] PROVE ByteCounted
    <3>1. we_addr' = Plus(we_addr, 1, Size)
      BY <1>3, <1>4, <2>4
    <3>2. Early = 1
      BY <2>4 DEF Early
    <3>3. ~we_st'[1] /\ ~we_st'[2]
      BY <1>3, <2>4, Zenon
    <3>4. Early' = 0
      BY <3>3 DEF Early
    <3> QED
      BY <2>1, <2>4, <3>1, <3>2, <3>4, Zenon DEF ByteCounted
  <2>5. ASSUME ~(~we /\ ~we_st[1] /\ we_st[2]) PROVE NothingWritten
    <3>1. ~(~we_st[1] /\ we_st[2])
      BY <1>1, <2>5 DEF WriteStrobes
    <3>2. we_addr' = we_addr
      BY <1>3, <1>4, <3>1
    <3>3. Early' = Early
      BY <1>3, <2>1, <3>1 DEF Early
    <3> QED
      BY <2>1, <3>2, <3>3, Zenon DEF NothingWritten
  <2>6. we' \in BOOLEAN /\ (we' /\ ~we => There < Size - 1)
    BY <1>1, <2>1, Zenon
  <2> QED
    BY <1>5, <2>2, <2>3, <2>4, <2>5, <2>6, Zenon
<1>7. CASE Queue!WriteBegins
  <2>1. ~we /\ we_for >= 2 /\ we' /\ we' = TRUE /\ we_for' = 1 /\ put' = put /\ There < Size - 1
    BY <1>1, <1>7, Sizes, Numbered DEF Queue!WriteBegins
  <2>2. ~we_st[1]
    BY <1>1, <2>1 DEF WriteStrobes
  <2>3. WriteStrobes'
    BY <1>3, <2>1, <2>2 DEF WriteStrobes
  <2>4. Early' = 0
    BY <2>1 DEF Early
  <2>5. ASSUME we_st[2] PROVE ByteCounted
    <3>1. Early = 1
      BY <2>1, <2>5 DEF Early
    <3>2. we_addr' = Plus(we_addr, 1, Size)
      BY <1>3, <1>4, <2>2, <2>5
    <3> QED
      BY <2>1, <2>4, <3>1, <3>2, Zenon DEF ByteCounted
  <2>6. ASSUME ~we_st[2] PROVE NothingWritten
    <3>1. Early = 0
      BY <2>2, <2>6 DEF Early
    <3>2. we_addr' = we_addr
      BY <1>3, <1>4, <2>6
    <3> QED
      BY <2>1, <2>4, <3>1, <3>2, Zenon DEF NothingWritten
  <2>7. we' \in BOOLEAN /\ we_for' \in Nat \ {0}
    BY <2>1
  <2> QED
    BY <1>5, <2>1, <2>3, <2>5, <2>6, <2>7, Zenon
<1>8. CASE Queue!WriteEnds
  <2>1. we /\ ~we' /\ we' = FALSE /\ we_for' = 1 /\ put' = Plus(put, 1, Tags)
    BY <1>8, Sizes, Numbered DEF Queue!WriteEnds
  <2>2. we_st[2] => we_st[1]
    BY <1>1, <2>1 DEF WriteStrobes
  <2>3. WriteStrobes'
    BY <1>3, <2>1 DEF WriteStrobes
  <2>4. we_addr' = we_addr
    BY <1>3, <1>4, <2>2
  <2>5. Early = 0 /\ Early' = 1
    BY <1>3, <2>1 DEF Early
  <2>6. ByteWritten
    BY <2>1, <2>4, <2>5 DEF ByteWritten
  <2>7. we' \in BOOLEAN
    BY <2>1, Zenon
  <2>8. we_for' \in Nat \ {0}
    BY <2>1
  <2> QED
    BY <1>5, <2>1, <2>3, <2>6, <2>7, <2>8, Zenon
<1> QED
  BY <1>6, <1>7, <1>8 DEF Queue!Clock, Queue!Cartridge

\* What the side of the firmware may do: a byte that was read leaves, one is
\* read, or neither.
ByteLeaves ==
    /\ Late = 1 /\ Late' = 0 /\ JustRead' = 0 /\ ~seen' /\ access' = "none"
    /\ oe_addr' = Plus(oe_addr, 1, Size) /\ taken' = taken /\ last' = last
ByteTaken ==
    /\ Late = 0 /\ Late' = 1 /\ JustRead = 0 /\ JustRead' = 1
    /\ access = "byte" /\ seen /\ access' = "none" /\ ~seen'
    /\ oe_addr' = oe_addr /\ taken' = Plus(taken, 1, Tags) /\ last' = dato
NothingRead ==
    /\ Late' = Late /\ Late = JustRead /\ JustRead' = 0
    /\ access' = "byte" => seen /\ Late = 0
    /\ seen' => seen \/ (access = "status" /\ ~fifo_status)
    /\ access' = "status" /\ ~fifo_status' =>
            (access = "status" /\ ~fifo_status) \/ we_addr # oe_addr
    /\ oe_addr' = oe_addr /\ taken' = taken /\ last' = last

ReadTypes ==
    /\ access \in {"none", "status", "byte"} /\ (seen => access # "status")
    /\ access_for \in Nat \ {0} /\ seen \in BOOLEAN /\ fifo_status \in BOOLEAN
    /\ oe_st \in BOOLEAN \X BOOLEAN

LEMMA ReadSide ==
    QueueIInv /\ Queue!Clock =>
        ReadTypes' /\ ReadStrobes' /\ (ByteLeaves \/ ByteTaken \/ NothingRead)
<1> SUFFICES ASSUME QueueIInv, Queue!Clock
             PROVE  ReadTypes' /\ ReadStrobes' /\ (ByteLeaves \/ ByteTaken \/ NothingRead)
  OBVIOUS
<1>1. /\ access \in {"none", "status", "byte"} /\ (seen => access # "status")
      /\ access_for \in Nat /\ access_for >= 1 /\ seen \in BOOLEAN /\ fifo_status \in BOOLEAN
      /\ ReadStrobes /\ NotEmpty
  BY DEF QueueIInv, QueueTypes, Queue!TypeOK
<1>2. PICK a, b \in BOOLEAN : oe_st = <<a, b>>
  BY DEF QueueIInv, QueueTypes
<1>3. (oe_st[1] <=> a) /\ (oe_st[2] <=> b) /\ (oe_st = <<FALSE, TRUE>> <=> ~a /\ b)
  <2>1. oe_st[1] = a /\ oe_st[2] = b
    BY <1>2
  <2>2. oe_st = <<FALSE, TRUE>> <=> a = FALSE /\ b = TRUE
    BY <1>2
  <2> QED
    BY <1>2, <2>1, <2>2, Zenon
<1>4. PICK d \in BOOLEAN : d <=> access = "byte" /\ we_addr # oe_addr
  OBVIOUS
<1>5. oe_st' = <<d, a>>
  <2>1. oe_st' = <<access = "byte" /\ ~(we_addr = oe_addr), oe_st[1]>>
    BY DEF Queue!Clock, Queue!Buffer, Queue!oe, Queue!fifo_empty
  <2>2. oe_st[1] = a
    BY <1>2
  <2>3. (access = "byte" /\ ~(we_addr = oe_addr)) = d
    BY <1>4, Zenon
  <2> QED
    BY <2>1, <2>2, <2>3, Zenon
<1>6. (oe_st'[1] <=> d) /\ (oe_st'[2] <=> a) /\ oe_st' \in BOOLEAN \X BOOLEAN
  <2>1. oe_st'[1] = d /\ oe_st'[2] = a /\ oe_st' \in BOOLEAN \X BOOLEAN
    BY <1>5
  <2> QED
    BY <2>1, Zenon
<1>7. oe_addr' = IF ~a /\ b THEN Plus(oe_addr, 1, Size) ELSE oe_addr
  BY <1>3, Numbered DEF Queue!Clock, Queue!Buffer, Queue!oe_end
<1>8. fifo_status' = (IF access = "status" THEN fifo_status ELSE we_addr = oe_addr)
  BY DEF Queue!Clock, Queue!Status, Queue!fifo_empty
<1>9. fifo_status' \in BOOLEAN
  BY <1>1, <1>8, Zenon
<1>10. /\ Late = IF access # "byte" /\ (a \/ b) THEN 1 ELSE 0
       /\ Late' = IF access' # "byte" /\ (d \/ a) THEN 1 ELSE 0
       /\ JustRead = IF access # "byte" /\ a THEN 1 ELSE 0
       /\ JustRead' = IF access' # "byte" /\ d THEN 1 ELSE 0
  BY <1>3, <1>6 DEF Late, JustRead
<1>11. /\ access = "byte" => seen /\ access_for <= 2 /\ (a <=> access_for = 2) /\ ~b
       /\ access = "status" => ~a /\ ~b
       /\ access = "none" => (a \/ b => ~seen) /\ (a => access_for = 1) /\ (b => access_for <= 2)
  BY <1>1, <1>3 DEF ReadStrobes
<1>12. access = "byte" => we_addr # oe_addr
  BY <1>1, <1>11 DEF NotEmpty
<1>13. d <=> access = "byte"
  BY <1>4, <1>12
<1>14. access = "status" /\ ~fifo_status => we_addr # oe_addr
  BY <1>1 DEF NotEmpty
<1>15. ASSUME NEW what \in {"status", "byte"}, Queue!AccessBegins(what),
              what = "byte" <=> seen
       PROVE  ReadTypes' /\ ReadStrobes' /\ NothingRead
  <2>1. /\ access = "none" /\ access_for >= 3 /\ access' = what /\ access_for' = 1
        /\ seen' = seen /\ taken' = taken /\ last' = last
    BY <1>1, <1>15, Sizes DEF Queue!AccessBegins
  <2>2. ~a /\ ~b /\ ~d
    BY <1>1, <1>11, <1>13, <2>1
  <2>3. ReadTypes'
    <3>1. access' \in {"none", "status", "byte"} /\ (seen' => access' # "status")
      BY <1>15, <2>1
    <3>2. access_for' \in Nat \ {0}
      BY <2>1
    <3>3. seen' \in BOOLEAN
      BY <1>1, <2>1
    <3> QED
      BY <1>6, <1>9, <3>1, <3>2, <3>3 DEF ReadTypes
  <2>4. ReadStrobes'
    BY <1>6, <1>15, <2>1, <2>2 DEF ReadStrobes
  <2>5. Late = 0 /\ Late' = 0 /\ JustRead = 0 /\ JustRead' = 0 /\ oe_addr' = oe_addr
    BY <1>7, <1>10, <2>2
  <2>6. ~fifo_status' => we_addr # oe_addr
    <3>1. fifo_status' = (we_addr = oe_addr)
      BY <1>8, <2>1
    <3> QED
      BY <3>1, Zenon
  <2>7. access' = "byte" => seen
    BY <1>15, <2>1
  <2> QED
    BY <2>1, <2>3, <2>4, <2>5, <2>6, <2>7, Zenon DEF NothingRead
<1>16. ASSUME Queue!AccessStays
       PROVE  ReadTypes' /\ ReadStrobes' /\ (ByteLeaves \/ NothingRead)
  <2>1. /\ access # "none" => access_for = 1
        /\ access_for' = access_for + 1 \/ (access_for' = access_for /\ access_for >= 6)
        /\ access' = access /\ seen' = seen /\ taken' = taken /\ last' = last
    BY <1>1, <1>16, Sizes DEF Queue!AccessStays, Queue!Longer
  <2>2. /\ access_for' \in Nat \ {0} /\ (access # "none" => access_for' = 2)
        /\ access_for = 1 => access_for' = 2
        /\ access_for = 2 => access_for' = 3
    BY <1>1, <2>1
  <2>3. ReadTypes'
    <3>1. access' \in {"none", "status", "byte"} /\ (seen' => access' # "status") /\ seen' \in BOOLEAN
      BY <1>1, <2>1
    <3> QED
      BY <1>6, <1>9, <2>2, <3>1 DEF ReadTypes
  <2>4. access = "byte" => ~a
    BY <1>11, <2>1
  <2>5. ReadStrobes'
    BY <1>6, <1>11, <1>13, <2>1, <2>2, <2>4 DEF ReadStrobes
  <2>6. ASSUME ~a /\ b PROVE ByteLeaves
    <3>1. access = "none" /\ ~seen
      BY <1>1, <1>11, <2>6
    <3>2. Late = 1 /\ Late' = 0 /\ JustRead' = 0 /\ oe_addr' = Plus(oe_addr, 1, Size)
      BY <1>7, <1>10, <1>13, <2>1, <2>6, <3>1
    <3> QED
      BY <2>1, <3>1, <3>2, Zenon DEF ByteLeaves
  <2>7. ASSUME ~(~a /\ b) PROVE NothingRead
    <3>1. oe_addr' = oe_addr
      BY <1>7, <2>7
    <3>2. Late' = Late /\ Late = JustRead /\ JustRead' = 0
      BY <1>10, <1>13, <2>1, <2>4, <2>7
    <3>3. access' = "byte" => seen /\ Late = 0
      BY <1>10, <1>11, <2>1
    <3>4. access' = "status" /\ ~fifo_status' => access = "status" /\ ~fifo_status
      <4>1. access = "status" => fifo_status' = fifo_status
        BY <1>8
      <4> QED
        BY <2>1, <4>1, Zenon
    <3> QED
      BY <2>1, <3>1, <3>2, <3>3, <3>4, Zenon DEF NothingRead
  <2> QED
    BY <2>3, <2>5, <2>6, <2>7
<1>17. ASSUME Queue!StatusRead PROVE ReadTypes' /\ ReadStrobes' /\ NothingRead
  <2>1. /\ access = "status" /\ access' = "none" /\ access_for' = 1
        /\ taken' = taken /\ last' = last
    BY <1>17 DEF Queue!StatusRead
  <2>2. seen' = ~fifo_status /\ seen' \in BOOLEAN
    <3>1. seen' = ~fifo_status
      BY <1>17 DEF Queue!StatusRead
    <3> QED
      BY <3>1, Zenon
  <2>3. ~a /\ ~b /\ ~d
    BY <1>11, <1>13, <2>1
  <2>4. ReadTypes'
    <3>1. access' \in {"none", "status", "byte"} /\ access' # "status" /\ access_for' \in Nat \ {0}
      BY <2>1
    <3> QED
      BY <1>6, <1>9, <2>2, <3>1, Zenon DEF ReadTypes
  <2>5. ReadStrobes'
    BY <1>6, <2>1, <2>3 DEF ReadStrobes
  <2>6. Late = 0 /\ Late' = 0 /\ JustRead = 0 /\ JustRead' = 0 /\ oe_addr' = oe_addr
    BY <1>7, <1>10, <2>3
  <2>7. access' # "byte" /\ access' # "status"
    BY <2>1
  <2>8. seen' => access = "status" /\ ~fifo_status
    BY <2>1, <2>2, Zenon
  <2> QED
    BY <2>1, <2>4, <2>5, <2>6, <2>7, <2>8, Zenon DEF NothingRead
<1>18. ASSUME Queue!ByteRead PROVE ReadTypes' /\ ReadStrobes' /\ ByteTaken
  <2>1. /\ access = "byte" /\ access' = "none" /\ access_for' = 1
        /\ last' = dato /\ taken' = Plus(taken, 1, Tags)
    BY <1>18, Sizes, Numbered DEF Queue!ByteRead
  <2>2. ~seen' /\ seen' \in BOOLEAN
    <3>1. seen' = FALSE
      BY <1>18 DEF Queue!ByteRead
    <3> QED
      BY <3>1, Zenon
  <2>3. d /\ ~b /\ seen
    BY <1>11, <1>13, <2>1
  <2>4. ReadTypes'
    <3>1. access' \in {"none", "status", "byte"} /\ access' # "status" /\ access_for' \in Nat \ {0}
      BY <2>1
    <3> QED
      BY <1>6, <1>9, <2>2, <3>1, Zenon DEF ReadTypes
  <2>5. ReadStrobes'
    BY <1>6, <2>1, <2>2, <2>3 DEF ReadStrobes
  <2>6. Late = 0 /\ Late' = 1 /\ JustRead = 0 /\ JustRead' = 1 /\ oe_addr' = oe_addr
    BY <1>7, <1>10, <2>1, <2>3
  <2> QED
    BY <2>1, <2>2, <2>3, <2>4, <2>5, <2>6, Zenon DEF ByteTaken
<1> QED
  <2>1. CASE ~seen /\ Queue!AccessBegins("status")
    BY <1>15, <2>1
  <2>2. CASE seen /\ Queue!AccessBegins("byte")
    BY <1>15, <2>2
  <2> QED
    BY <1>16, <1>17, <1>18, <2>1, <2>2 DEF Queue!Clock, Queue!Firmware

LEMMA Lengths ==
    ASSUME NEW n \in Nat, NEW a \in 0 .. n - 1, NEW b \in 0 .. n - 1
    PROVE  /\ Minus(a, b, n) < n - 1 => Minus(Plus(a, 1, n), b, n) = Minus(a, b, n) + 1
           /\ Minus(a, b, n) > 0 => Minus(a, Plus(b, 1, n), n) = Minus(a, b, n) - 1
           /\ Minus(a, b, n) = 0 <=> a = b
           /\ n > 1 => Minus(Plus(a, 1, n), 1, n) = a /\ Plus(Minus(a, 1, n), 1, n) = a
           /\ Plus(a, 0, n) = a
BY DEF Minus, Plus

\* A place of the queue, counted from another.
LEMMA PlacesInQueue ==
    ASSUME NEW n \in Nat, NEW a \in 0 .. n - 1, NEW b \in 0 .. n - 1, NEW k \in 0 .. n - 1
    PROVE  /\ Plus(b, k, n) \in 0 .. n - 1
           /\ Plus(b, k, n) = a <=> k = Minus(a, b, n)
           /\ k > 0 => Plus(Plus(b, 1, n), k - 1, n) = Plus(b, k, n)
BY DEF Minus, Plus

\* What each side does to what the queue counts and what there is.
LEMMA Counting ==
    QueueIInv /\ Queue!Clock =>
        /\ Counted' + Early' = There' + Late'
        /\ There' + Late' <= Size - 1
        /\ we' => There' + 1 + JustRead' <= Size - 1
        /\ Late' = 1 \/ seen' \/ (access' = "status" /\ ~fifo_status') => we_addr' # oe_addr'
        /\ There' \in 0 .. Tags - 1
<1> SUFFICES ASSUME QueueIInv, Queue!Clock
             PROVE  /\ Counted' + Early' = There' + Late'
                    /\ There' + Late' <= Size - 1
                    /\ we' => There' + 1 + JustRead' <= Size - 1
                    /\ Late' = 1 \/ seen' \/ (access' = "status" /\ ~fifo_status') =>
                            we_addr' # oe_addr'
                    /\ There' \in 0 .. Tags - 1
  OBVIOUS
<1>1. /\ we_addr \in 0 .. Size - 1 /\ oe_addr \in 0 .. Size - 1
      /\ put \in 0 .. Tags - 1 /\ taken \in 0 .. Tags - 1
      /\ Late \in {0, 1} /\ Early \in {0, 1} /\ JustRead \in {0, 1}
      /\ Counted \in 0 .. Size - 1 /\ There \in 0 .. Tags - 1
      /\ Plus(we_addr, 1, Size) \in 0 .. Size - 1 /\ Plus(oe_addr, 1, Size) \in 0 .. Size - 1
      /\ Plus(put, 1, Tags) \in 0 .. Tags - 1 /\ Plus(taken, 1, Tags) \in 0 .. Tags - 1
      /\ Size \in Nat /\ Size > 1 /\ Tags = 2 * Size
  BY Numbered, Sizes DEF JustRead, Tags
<1>2. /\ Counted = Minus(we_addr, oe_addr, Size) /\ There = Minus(put, taken, Tags)
      /\ Counted' = Minus(we_addr', oe_addr', Size) /\ There' = Minus(put', taken', Tags)
  BY DEF Counted, There, Minus, Tags
<1>3. /\ Counted + Early = There + Late /\ There + Late <= Size - 1
      /\ we => There + 1 + JustRead <= Size - 1
  BY DEF QueueIInv, Room
<1>4. (seen \/ (access = "status" /\ ~fifo_status) \/ Late = 1) => we_addr # oe_addr
  BY DEF QueueIInv, NotEmpty
<1>5. /\ ByteCounted \/ ByteWritten \/ NothingWritten
      /\ we' /\ ~we => There < Size - 1
  BY WriteSide
<1>6. /\ ByteLeaves \/ ByteTaken \/ NothingRead
  BY ReadSide
<1>7. /\ we_addr # oe_addr <=> Counted > 0
      /\ Counted < Size - 1 => Minus(Plus(we_addr, 1, Size), oe_addr, Size) = Counted + 1
      /\ Counted > 0 => Minus(we_addr, Plus(oe_addr, 1, Size), Size) = Counted - 1
      /\ There < Tags - 1 => Minus(Plus(put, 1, Tags), taken, Tags) = There + 1
      /\ There > 0 => Minus(put, Plus(taken, 1, Tags), Tags) = There - 1
  BY <1>1, <1>2, Lengths
<1>8. /\ 0 < Counted /\ Counted < Size - 1 =>
             Minus(Plus(we_addr, 1, Size), Plus(oe_addr, 1, Size), Size) = Counted
      /\ 0 < There /\ There < Tags - 1 =>
             Minus(Plus(put, 1, Tags), Plus(taken, 1, Tags), Tags) = There
  <2>1. ASSUME 0 < Counted, Counted < Size - 1
        PROVE  Minus(Plus(we_addr, 1, Size), Plus(oe_addr, 1, Size), Size) = Counted
    <3>1. PICK a \in 0 .. Size - 1 : a = Plus(we_addr, 1, Size)
      BY <1>1
    <3>2. Minus(a, oe_addr, Size) = Counted + 1
      BY <1>7, <2>1, <3>1
    <3>0. Size \in Nat /\ oe_addr \in 0 .. Size - 1 /\ Minus(a, oe_addr, Size) > 0
      BY <1>1, <2>1, <3>2
    <3>3. Minus(a, Plus(oe_addr, 1, Size), Size) = Minus(a, oe_addr, Size) - 1
      BY <3>0, Lengths
    <3> QED
      BY <1>1, <3>1, <3>2, <3>3
  <2>2. ASSUME 0 < There, There < Tags - 1
        PROVE  Minus(Plus(put, 1, Tags), Plus(taken, 1, Tags), Tags) = There
    <3>1. PICK a \in 0 .. Tags - 1 : a = Plus(put, 1, Tags)
      BY <1>1
    <3>2. Minus(a, taken, Tags) = There + 1
      BY <1>7, <2>2, <3>1
    <3>0. Tags \in Nat /\ taken \in 0 .. Tags - 1 /\ Minus(a, taken, Tags) > 0
      BY <1>1, <2>2, <3>2
    <3>3. Minus(a, Plus(taken, 1, Tags), Tags) = Minus(a, taken, Tags) - 1
      BY <3>0, Lengths
    <3> QED
      BY <1>1, <3>1, <3>2, <3>3
  <2> QED
    BY <2>1, <2>2
\* what is there after each
<1>9. CASE ByteLeaves
  <2>1. /\ Late = 1 /\ Late' = 0 /\ JustRead' = 0 /\ Counted > 0
        /\ ~seen' /\ access' # "status"
    BY <1>4, <1>7, <1>9 DEF ByteLeaves
  <2>2. CASE ByteCounted
    <3>1. Counted' = Counted /\ There' = There /\ Early = 1 /\ Early' = 0 /\ (we' => There < Size - 1)
      BY <1>1, <1>2, <1>3, <1>5, <1>8, <1>9, <2>1, <2>2 DEF ByteCounted, ByteLeaves
    <3> QED
      BY <1>1, <1>3, <2>1, <3>1
  <2>3. CASE ByteWritten
    <3>1. /\ Counted' = Counted - 1 /\ There' = There + 1 /\ Early = 0 /\ Early' = 1 /\ we /\ ~we'
      BY <1>1, <1>2, <1>3, <1>7, <1>9, <2>1, <2>3 DEF ByteWritten, ByteLeaves
    <3> QED
      BY <1>1, <1>3, <2>1, <3>1
  <2>4. CASE NothingWritten
    <3>1. /\ Counted' = Counted - 1 /\ There' = There /\ Early' = Early
          /\ we' => There + 1 <= Size - 1
      BY <1>1, <1>2, <1>3, <1>5, <1>7, <1>9, <2>1, <2>4 DEF NothingWritten, ByteLeaves
    <3> QED
      BY <1>1, <1>3, <2>1, <3>1
  <2> QED
    BY <1>5, <2>2, <2>3, <2>4
<1>10. CASE ByteTaken
  <2>1. /\ Late = 0 /\ Late' = 1 /\ JustRead = 0 /\ JustRead' = 1 /\ Counted > 0
    BY <1>4, <1>7, <1>10 DEF ByteTaken
  <2>2. There > 0 \/ (Early = 1 /\ There + 0 = Counted + 1)
    BY <1>1, <1>3, <2>1
  <2>3. There > 0
    BY <1>1, <2>1, <2>2
  <2>4. CASE ByteCounted
    <3>1. /\ Counted' = Counted + 1 /\ There' = There - 1 /\ Early = 1 /\ Early' = 0
          /\ we' => There < Size - 1
      BY <1>1, <1>2, <1>3, <1>5, <1>7, <1>10, <2>1, <2>3, <2>4 DEF ByteCounted, ByteTaken
    <3>2. we_addr' # oe_addr'
      BY <1>1, <1>2, <1>10, <2>1, <2>4, <3>1, Lengths DEF ByteCounted, ByteTaken
    <3> QED
      BY <1>1, <1>3, <2>1, <2>3, <3>1, <3>2
  <2>5. CASE ByteWritten
    <3>1. /\ Counted' = Counted /\ There' = There /\ Early = 0 /\ Early' = 1 /\ we /\ ~we'
          /\ we_addr' = we_addr /\ oe_addr' = oe_addr
      BY <1>1, <1>2, <1>3, <1>8, <1>10, <2>1, <2>3, <2>5 DEF ByteWritten, ByteTaken
    <3>2. we_addr' # oe_addr'
      BY <1>7, <2>1, <3>1
    <3> QED
      BY <1>1, <1>3, <2>1, <2>3, <3>1, <3>2
  <2>6. CASE NothingWritten
    <3>1. /\ Counted' = Counted /\ There' = There - 1 /\ Early' = Early
          /\ we_addr' = we_addr /\ oe_addr' = oe_addr
          /\ we' => There + 1 <= Size - 1
      BY <1>1, <1>2, <1>3, <1>5, <1>7, <1>10, <2>1, <2>3, <2>6 DEF NothingWritten, ByteTaken
    <3>2. we_addr' # oe_addr'
      BY <1>7, <2>1, <3>1
    <3> QED
      BY <1>1, <1>3, <2>1, <2>3, <3>1, <3>2
  <2> QED
    BY <1>5, <2>4, <2>5, <2>6
<1>11. CASE NothingRead
  <2>1. /\ Late' = Late /\ Late = JustRead /\ JustRead' = 0
        /\ oe_addr' = oe_addr /\ taken' = taken
        /\ (Late' = 1 \/ seen' \/ (access' = "status" /\ ~fifo_status')) => Counted > 0
    BY <1>4, <1>7, <1>11 DEF NothingRead
  <2>2. CASE ByteCounted
    <3>1. /\ Counted' = Counted + 1 /\ There' = There /\ Early = 1 /\ Early' = 0
          /\ we' => There < Size - 1
      BY <1>1, <1>2, <1>3, <1>5, <1>7, <2>1, <2>2 DEF ByteCounted
    <3>2. we_addr' # oe_addr'
      BY <1>1, <1>2, <2>1, <2>2, <3>1, Lengths DEF ByteCounted
    <3> QED
      BY <1>1, <1>3, <2>1, <3>1, <3>2
  <2>3. CASE ByteWritten
    <3>1. /\ Counted' = Counted /\ There' = There + 1 /\ Early = 0 /\ Early' = 1 /\ we /\ ~we'
          /\ we_addr' = we_addr
      BY <1>1, <1>2, <1>3, <1>7, <2>1, <2>3 DEF ByteWritten
    <3>2. Counted > 0 => we_addr' # oe_addr'
      BY <1>7, <2>1, <3>1
    <3> QED
      BY <1>1, <1>3, <2>1, <3>1, <3>2
  <2>4. CASE NothingWritten
    <3>1. /\ Counted' = Counted /\ There' = There /\ Early' = Early /\ we_addr' = we_addr
          /\ we' => There + 1 <= Size - 1
      BY <1>1, <1>2, <1>3, <1>5, <2>1, <2>4 DEF NothingWritten
    <3>2. Counted > 0 => we_addr' # oe_addr'
      BY <1>7, <2>1, <3>1
    <3> QED
      BY <1>1, <1>3, <2>1, <3>1, <3>2
  <2> QED
    BY <1>5, <2>2, <2>3, <2>4
<1> QED
  BY <1>6, <1>9, <1>10, <1>11

\* A byte is written behind those that are there, and no other is touched.
LEMMA Written ==
    QueueIInv /\ Queue!Clock =>
        \A k \in 0 .. Size - 1 :
            k < There + Late + (IF ByteWritten THEN 1 ELSE 0) =>
                ram'[Plus(oe_addr, k, Size)] = Plus(First, k, Tags)
<1> SUFFICES ASSUME QueueIInv, Queue!Clock, NEW k \in 0 .. Size - 1,
                    k < There + Late + (IF ByteWritten THEN 1 ELSE 0)
             PROVE  ram'[Plus(oe_addr, k, Size)] = Plus(First, k, Tags)
  OBVIOUS
<1>1. /\ we_addr \in 0 .. Size - 1 /\ oe_addr \in 0 .. Size - 1
      /\ put \in 0 .. Tags - 1 /\ taken \in 0 .. Tags - 1
      /\ Late \in {0, 1} /\ Early \in {0, 1} /\ There \in 0 .. Tags - 1
      /\ Size \in Nat /\ Size > 1 /\ Tags = 2 * Size
  BY Numbered, Sizes DEF Tags
<1>2. /\ Counted + Early = There + Late /\ There + Late <= Size - 1
  BY DEF QueueIInv, Room
<1>3. /\ Plus(oe_addr, k, Size) \in 0 .. Size - 1
      /\ Plus(oe_addr, k, Size) = we_addr <=> k = Counted
  BY <1>1, PlacesInQueue DEF Counted
<1>4. /\ ram \in [0 .. Size - 1 -> 0 .. Tags]
      /\ ram' = IF we THEN [ram EXCEPT ![we_addr] = put] ELSE ram
  BY Sizes DEF QueueIInv, QueueTypes, Queue!TypeOK, Queue!Clock, Queue!Buffer
<1>5. CASE k < There + Late
  <2>1. ram[Plus(oe_addr, k, Size)] = Plus(First, k, Tags)
    BY <1>5 DEF QueueIInv, Memory
  <2>2. we => Plus(oe_addr, k, Size) # we_addr
    <3>1. we => Early = 0
      BY DEF Early
    <3> QED
      BY <1>1, <1>2, <1>3, <1>5, <3>1
  <2> QED
    BY <1>1, <1>3, <1>4, <2>1, <2>2
<1>6. CASE ByteWritten /\ k = There + Late
  <2>1. we /\ Early = 0
    BY <1>6 DEF ByteWritten
  <2>2. Plus(oe_addr, k, Size) = we_addr
    BY <1>2, <1>3, <1>6, <2>1, Numbered
  <2>3. ram'[we_addr] = put
    BY <1>1, <1>4, <2>1
  <2>4. Plus(First, k, Tags) = put
    <3>1. There = IF put >= taken THEN put - taken ELSE put - taken + Tags
      BY DEF There, Minus
    <3>2. First = IF taken >= Late THEN taken - Late ELSE taken - Late + Tags
      BY DEF First, Minus
    <3>3. Plus(First, k, Tags) = IF First + k < Tags THEN First + k ELSE First + k - Tags
      BY DEF Plus
    <3> QED
      BY <1>1, <1>6, <3>1, <3>2, <3>3
  <2> QED
    BY <2>2, <2>3, <2>4
<1> QED
  BY <1>1, <1>5, <1>6

LEMMA MemoryStep == QueueIInv /\ Queue!Clock => Memory'
<1> SUFFICES ASSUME QueueIInv, Queue!Clock, NEW k \in 0 .. Size - 1, k < There' + Late'
             PROVE  ram'[Plus(oe_addr', k, Size)] = Plus(First', k, Tags)
  BY DEF Memory, Plus, Tags
<1>1. /\ oe_addr \in 0 .. Size - 1 /\ put \in 0 .. Tags - 1 /\ taken \in 0 .. Tags - 1
      /\ Plus(put, 1, Tags) \in 0 .. Tags - 1 /\ Plus(taken, 1, Tags) \in 0 .. Tags - 1
      /\ Late \in {0, 1} /\ Late' \in {0, 1} /\ There \in 0 .. Tags - 1 /\ First \in 0 .. Tags - 1
      /\ Size \in Nat /\ Size > 1 /\ Tags = 2 * Size
  BY Numbered, Sizes DEF Tags, Late
<1>2. There' = Minus(put', taken', Tags) /\ First' = Minus(taken', Late', Tags)
  BY DEF There, First, Minus, Tags
<1>3. There = Minus(put, taken, Tags) /\ First = Minus(taken, Late, Tags)
  BY DEF There, First
<1>4. /\ There + Late <= Size - 1 /\ There' + Late' <= Size - 1 /\ There' \in 0 .. Tags - 1
      /\ (Late = 1 => Counted > 0) /\ (seen => Counted > 0) /\ Counted + Early = There + Late
      /\ Counted \in 0 .. Size - 1 /\ Early \in {0, 1}
  <2>1. we_addr # oe_addr <=> Counted > 0
    BY Numbered, Sizes, Lengths DEF Counted
  <2> QED
    BY <2>1, Counting, Numbered DEF QueueIInv, Room, NotEmpty
<1>5. PICK w \in {0, 1} :
          /\ w = IF ByteWritten THEN 1 ELSE 0
          /\ put' = IF w = 1 THEN Plus(put, 1, Tags) ELSE put
  BY WriteSide DEF ByteCounted, ByteWritten, NothingWritten
<1>6. \A j \in 0 .. Size - 1 :
          j < There + Late + w => ram'[Plus(oe_addr, j, Size)] = Plus(First, j, Tags)
  BY <1>5, Written
<1>7. CASE ByteLeaves
  <2>1. Late = 1 /\ Late' = 0 /\ oe_addr' = Plus(oe_addr, 1, Size) /\ taken' = taken
    BY <1>7 DEF ByteLeaves
  <2>2. There' = There + w
    BY <1>1, <1>2, <1>3, <1>4, <1>5, <2>1, Lengths
  <2>3. First' = Plus(First, 1, Tags)
    BY <1>1, <1>2, <1>3, <2>1, Lengths DEF Minus, Plus
  <2>4. k + 1 \in 0 .. Size - 1 /\ k + 1 < There + Late + w
    BY <1>1, <1>4, <2>1, <2>2
  <2>5. ram'[Plus(oe_addr, k + 1, Size)] = Plus(First, k + 1, Tags)
    BY <1>6, <2>4
  <2>6. Plus(oe_addr, k + 1, Size) = Plus(oe_addr', k, Size)
    BY <1>1, <2>1, <2>4 DEF Plus
  <2>7. Plus(First, k + 1, Tags) = Plus(First', k, Tags)
    BY <1>1, <2>3, <2>4 DEF Plus
  <2> QED
    BY <2>5, <2>6, <2>7
<1>8. CASE ByteTaken
  <2>1. Late = 0 /\ Late' = 1 /\ oe_addr' = oe_addr /\ taken' = Plus(taken, 1, Tags) /\ seen
    BY <1>8 DEF ByteTaken
  <2>2. There > 0
    BY <1>1, <1>4, <2>1
  <2>3. There' = There + w - 1
    BY <1>1, <1>2, <1>3, <1>4, <1>5, <2>1, <2>2, Lengths
  <2>4. First' = First
    BY <1>1, <1>2, <1>3, <2>1, Lengths DEF Minus
  <2> QED
    BY <1>1, <1>6, <2>1, <2>3, <2>4
<1>9. CASE NothingRead
  <2>1. Late' = Late /\ oe_addr' = oe_addr /\ taken' = taken
    BY <1>9 DEF NothingRead
  <2>2. There' = There + w
    BY <1>1, <1>2, <1>3, <1>4, <1>5, <2>1, Lengths
  <2>3. First' = First
    BY <1>2, <1>3, <2>1
  <2> QED
    BY <1>1, <1>6, <2>1, <2>2, <2>3
<1> QED
  BY <1>7, <1>8, <1>9, ReadSide

LEMMA ReadNextStep == QueueIInv /\ Queue!Clock => ReadNext'
<1> SUFFICES ASSUME QueueIInv, Queue!Clock PROVE ReadNext'
  OBVIOUS
<1>1. /\ oe_addr \in 0 .. Size - 1 /\ taken \in 0 .. Tags - 1 /\ Late \in {0, 1}
      /\ Early \in {0, 1} /\ There \in 0 .. Tags - 1 /\ Counted \in 0 .. Size - 1
      /\ Size \in Nat /\ Size > 1 /\ Tags \in Nat /\ Tags > 1
  BY Numbered, Sizes
<1>2. ByteLeaves \/ ByteTaken \/ NothingRead
  BY ReadSide
<1>3. access' = "byte" => dato' = taken'
  <2> SUFFICES ASSUME access' = "byte" PROVE dato' = taken'
    OBVIOUS
  <2>1. NothingRead /\ seen /\ Late = 0 /\ taken' = taken
    BY <1>2 DEF ByteLeaves, ByteTaken, NothingRead
  <2>2. dato' = ram[oe_addr]
    BY DEF Queue!Clock, Queue!Buffer
  <2>3. Counted > 0
    <3>1. we_addr # oe_addr
      BY <2>1 DEF QueueIInv, NotEmpty
    <3> QED
      BY <1>1, <3>1, Numbered, Lengths DEF Counted
  <2>4. 0 < There + Late
    BY <1>1, <2>3 DEF QueueIInv, Room
  <2>5. 0 \in 0 .. Size - 1
    BY <1>1
  <2>6. ram[Plus(oe_addr, 0, Size)] = Plus(First, 0, Tags)
    BY <2>4, <2>5 DEF QueueIInv, Memory
  <2>7. First = taken
    BY <1>1, <2>1 DEF First, Minus
  <2>8. Plus(oe_addr, 0, Size) = oe_addr /\ Plus(First, 0, Tags) = taken
    BY <1>1, <2>7, Lengths
  <2> QED
    BY <2>1, <2>2, <2>6, <2>8
<1>4. last' # Tags => last' = Minus(taken', 1, Tags)
  <2>1. last # Tags => last = Minus(taken, 1, Tags)
    BY DEF QueueIInv, ReadNext
  <2>2. CASE ByteTaken
    <3>1. last' = dato /\ taken' = Plus(taken, 1, Tags) /\ access = "byte"
      BY <2>2 DEF ByteTaken
    <3>2. dato = taken
      BY <3>1 DEF QueueIInv, ReadNext
    <3>3. Minus(Plus(taken, 1, Tags), 1, Tags) = taken
      BY <1>1, Lengths
    <3> QED
      BY <3>1, <3>2, <3>3
  <2>3. CASE ByteLeaves \/ NothingRead
    BY <2>1, <2>3 DEF ByteLeaves, NothingRead
  <2> QED
    BY <1>2, <2>2, <2>3
<1> QED
  BY <1>3, <1>4 DEF ReadNext, Tags, Minus

LEMMA NextQueue == QueueIInv /\ [Queue!Clock]_queueVars => QueueIInv'
<1>1. ASSUME QueueIInv, Queue!Clock PROVE QueueIInv'
  <2>1. ReadTypes' /\ ReadStrobes' /\ (ByteLeaves \/ ByteTaken \/ NothingRead)
    BY <1>1, ReadSide
  <2>2. /\ WriteStrobes' /\ we' \in BOOLEAN /\ we_for' \in Nat \ {0} /\ we_st' \in BOOLEAN \X BOOLEAN
        /\ ByteCounted \/ ByteWritten \/ NothingWritten
    BY <1>1, WriteSide
  <2>3. Room' /\ NotEmpty'
    BY <1>1, Counting DEF Room, NotEmpty
  <2>4. Memory' /\ ReadNext'
    BY <1>1, MemoryStep, ReadNextStep
  <2>5. /\ we_addr \in 0 .. Size - 1 /\ oe_addr \in 0 .. Size - 1
        /\ Plus(we_addr, 1, Size) \in 0 .. Size - 1 /\ Plus(oe_addr, 1, Size) \in 0 .. Size - 1
        /\ put \in 0 .. Tags - 1 /\ taken \in 0 .. Tags - 1
        /\ Plus(put, 1, Tags) \in 0 .. Tags - 1 /\ Plus(taken, 1, Tags) \in 0 .. Tags - 1
        /\ Queue!Tags = Tags /\ Size \in Nat /\ Tags \in Nat
    BY <1>1, Numbered, Sizes
  <2>6. /\ ram \in [0 .. Size - 1 -> 0 .. Tags] /\ dato \in 0 .. Tags /\ last \in 0 .. Tags
    BY <1>1, <2>5 DEF QueueIInv, QueueTypes, Queue!TypeOK
  <2>7. we_addr' \in 0 .. Size - 1 /\ put' \in 0 .. Tags - 1
    BY <2>2, <2>5 DEF ByteCounted, ByteWritten, NothingWritten
  <2>8. oe_addr' \in 0 .. Size - 1 /\ taken' \in 0 .. Tags - 1 /\ last' \in 0 .. Tags
    BY <2>1, <2>5, <2>6 DEF ByteLeaves, ByteTaken, NothingRead
  <2>9. ram' \in [0 .. Size - 1 -> 0 .. Tags] /\ dato' \in 0 .. Tags
    <3>1. dato' = ram[oe_addr] /\ ram' = IF we THEN [ram EXCEPT ![we_addr] = put] ELSE ram
      BY <1>1 DEF Queue!Clock, Queue!Buffer
    <3>2. put \in 0 .. Tags
      BY <2>5
    <3> QED
      BY <2>5, <2>6, <3>1, <3>2
  <2>10. Queue!TypeOK'
    <3>1. Queue!Tags' = Tags /\ Queue!Tags = Tags
      BY <2>5 DEF Queue!Tags, Tags
    <3> QED
      BY <2>1, <2>7, <2>8, <2>9, <3>1 DEF Queue!TypeOK, ReadTypes
  <2>11. {we', seen', fifo_status'} \subseteq BOOLEAN
    BY <2>1, <2>2, Zenon DEF ReadTypes
  <2>12. QueueTypes'
    BY <2>1, <2>2, <2>7, <2>8, <2>10, <2>11 DEF QueueTypes, ReadTypes, Tags
  <2> QED
    BY <2>1, <2>2, <2>3, <2>4, <2>12 DEF QueueIInv
<1>2. ASSUME QueueIInv, UNCHANGED queueVars PROVE QueueIInv'
  <2>1. UNCHANGED <<Counted, There, Late, Early, First, JustRead>>
    BY <1>2 DEF queueVars, Counted, There, Late, Early, First, JustRead, Minus, Tags
  <2>2. QueueTypes'
    BY <1>2 DEF queueVars, QueueIInv, QueueTypes, Queue!TypeOK, Queue!Tags, Tags
  <2>3. WriteStrobes' /\ ReadStrobes' /\ NotEmpty'
    BY <1>2, <2>1 DEF queueVars, QueueIInv, WriteStrobes, ReadStrobes, NotEmpty
  <2>4. Room' /\ Memory' /\ ReadNext'
    BY <1>2, <2>1 DEF queueVars, QueueIInv, Room, Memory, ReadNext, Minus, Plus, Tags
  <2> QED
    BY <2>2, <2>3, <2>4 DEF QueueIInv
<1> QED
  BY <1>1, <1>2
-----------------------------------------------------------------------------
(***************************************************************************)
(* The serial line, for transfers of any length and any clocks between its *)
(* bits.                                                                   *)
(***************************************************************************)
\* The bit at which an access begins, its number in this byte, counted from 0
\* and negative before the first, and the address the slave has come to.
Begins == IF op.cmd = "write" THEN 1 ELSE 2
Turn == m_byte - Serial!Header - (IF op.cmd = "write" THEN 1 ELSE 0)
Address ==
    IF Turn < 0 THEN Serial!AddressOf(op)
    ELSE Serial!AddressOf(op) + Turn
            + (IF m_bit = 7 \/ (m_bit = 6 /\ op.cmd = "read") THEN 1 ELSE 0)

\* What an access of a read brings.
Value(k) ==
    IF op.where = "fifo" /\ k < op.n THEN <<"fifo", (before + k) % Serial!Tags>>
    ELSE <<"other", Serial!AddressOf(op) + k>>

Pairs ==
    {"nothing", "none", "read", "write", "address", "data", "fifo", "other", "torn"} \X Int

\* Slave and cartridge are at the same bit.
Place ==
    /\ op \in Serial!Transfers \cup {Serial!NoTransfer}
    /\ m_bit \in 0 .. 7 /\ since \in Nat
    /\ op = Serial!NoTransfer => m_byte = 0 /\ m_bit = 0
    /\ op # Serial!NoTransfer =>
           m_byte \in 0 .. Serial!LengthOf(op) /\ (m_byte = Serial!LengthOf(op) => m_bit = 0)
    /\ bit_ctr = m_bit /\ (exec <=> m_byte >= Serial!Header) /\ exec \in BOOLEAN
    /\ byte_ctr = IF exec THEN Serial!Header ELSE m_byte
    /\ cmd = IF m_byte = 0 THEN "none" ELSE op.cmd

\* The access of the slave.
SlaveAccess ==
    /\ wr_ok <=> op.cmd = "write" /\ m_byte > Serial!Header
    /\ pi_act \in BOOLEAN /\ (pi_act <=> Turn >= 0 /\ m_bit \in Begins .. 5)
    /\ aout \in 0 .. Serial!Other + MaxBytes + 1 /\ (exec => aout = Address)
    /\ {dout, slot, rd_buff} \subseteq Pairs /\ sout \in Pairs \X Int
    /\ op.cmd = "write" /\ Turn \in 0 .. op.n - 1 => dout = <<"data", Turn>>

\* Two samples of a level that is there from bit n to 5 of a byte, if it is
\* "on": they follow it within two clocks, and so before the next one; b is the
\* bit, and s the clocks since it came.
Follows(st, on, n, b, s) ==
    /\ st \in BOOLEAN \X BOOLEAN
    /\ ~on \/ b < n => ~st[1] /\ ~st[2]
    /\ on /\ b \in n .. 5 =>
           /\ s > 0 \/ b > n => st[1]
           /\ b > n + 1 \/ (b = n + 1 /\ s > 0) => st[2]
           /\ st[2] => st[1]
    /\ b = 6 => (st[1] => st[2]) /\ (s > 0 => ~st[1])
    /\ b = 7 => ~st[1] /\ (s > 0 => ~st[2])

Writing == op.cmd = "write" /\ op.where = "fifo" /\ Turn >= 0
Fetching == op.cmd = "read" /\ op.where = "fifo" /\ Turn \in 0 .. op.n - 1

Samples ==
    /\ Follows(sync_st, Turn >= 0, Begins, m_bit, since)
    /\ Follows(serial_we_st, Writing, Begins, m_bit, since)
    /\ Follows(serial_oe_st, Fetching, Begins, m_bit, since)
    /\ serial_we_st[1] \/ serial_we_st[2] => slot = dout

\* What was done of the transfer.
RegistersGot ==
    /\ written \in Seq(Int \X Pairs)
    /\ Len(written) = IF op.cmd = "write" /\ op.where = "other" /\ Turn >= 0
                      THEN Turn + (IF m_bit >= 6 \/ sync_st[2] THEN 1 ELSE 0) ELSE 0
    /\ \A k \in 1 .. Len(written) : written[k] = <<Serial!Other + k - 1, <<"data", k - 1>>>>
QueueGot ==
    /\ pushed \in Seq(Pairs)
    /\ Len(pushed) = IF Writing THEN Turn + (IF m_bit >= 6 /\ ~serial_we_st[2] THEN 1 ELSE 0) ELSE 0
    /\ \A k \in 1 .. Len(pushed) : pushed[k] = <<"data", k - 1>>
QueueGave ==
    /\ before \in 0 .. Serial!Tags - 1
    /\ serial_taken =
           (before + (IF Fetching THEN Turn + (IF m_bit >= 6 /\ ~serial_oe_st[2] THEN 1 ELSE 0)
                      ELSE IF op.cmd = "read" /\ op.where = "fifo" /\ Turn >= 0 THEN op.n
                      ELSE 0)) % Serial!Tags
    /\ m_bit \in 1 .. 5 \/ (m_bit = 0 /\ since > 0) => serial_dato = serial_taken
CartridgeGot ==
    /\ op.cmd = "read" /\ Turn >= 0 /\ m_bit >= 6 => rd_buff = Value(Turn)
    /\ op.cmd = "read" /\ Turn > 0 => sout = <<Value(Turn - 1), m_bit>>
    /\ serial_got \in Seq(Pairs \X Int) /\ Len(serial_got) = m_bit
    /\ op.cmd = "read" /\ Turn > 0 =>
           \A k \in 1 .. m_bit : serial_got[k] = <<Value(Turn - 1), k - 1>>
    /\ received \in Seq(Pairs)
    /\ Len(received) = IF op.cmd = "read" /\ Turn > 0 THEN Turn - 1 ELSE 0
    /\ \A k \in 1 .. Len(received) : received[k] = Value(k - 1)

SerialIInv ==
    Place /\ SlaveAccess /\ Samples /\ RegistersGot /\ QueueGot /\ QueueGave /\ CartridgeGot

\* A level that is sampled, and a bit that comes.
LEMMA SampleLevel ==
    ASSUME NEW n \in {1, 2}, NEW b \in 0 .. 7, NEW s \in Nat, NEW on \in BOOLEAN, NEW st, NEW new,
           NEW level \in BOOLEAN, level <=> on /\ b \in n .. 5,
           Follows(st, on, n, b, s), new = <<level, st[1]>>
    PROVE  Follows(new, on, n, b, s + 1)
<1>1. PICK x \in BOOLEAN, y \in BOOLEAN : st = <<x, y>>
  BY DEF Follows
<1>2. st[1] = x /\ st[2] = y /\ new = <<level, x>>
  BY <1>1
<1>3. new[1] = level /\ new[2] = x /\ new \in BOOLEAN \X BOOLEAN
  BY <1>1, <1>2
<1>4. (new[1] <=> level) /\ (new[2] <=> x) /\ (st[1] <=> x) /\ (st[2] <=> y)
  BY <1>2, <1>3, Zenon
<1> QED
  BY <1>3, <1>4 DEF Follows

LEMMA SampleBit ==
    ASSUME NEW n \in {1, 2}, NEW b \in 0 .. 6, NEW s \in Nat, s > 0, NEW on \in BOOLEAN, NEW st,
           Follows(st, on, n, b, s)
    PROVE  Follows(st, on, n, b + 1, 0)
BY DEF Follows

LEMMA SampleByte ==
    ASSUME NEW n \in {1, 2}, NEW b \in {0, 7}, NEW s \in Nat, s > 0, NEW on \in BOOLEAN, NEW st,
           Follows(st, on, n, b, s), NEW m \in {1, 2}, NEW other \in BOOLEAN
    PROVE  Follows(st, other, m, 0, 0)
BY DEF Follows

\* Where a transfer is.
LEMMA Transfer ==
    ASSUME Place
    PROVE  /\ MaxBytes \in Nat /\ MaxBytes > 0
           /\ Serial!Header = 5 /\ Serial!Other = 2 * MaxBytes /\ Serial!Tags = 4 * MaxBytes
           /\ Serial!BlockSize = MaxBytes
           /\ op = Serial!NoTransfer <=> op.cmd = "none"
           /\ op.cmd \in {"write", "read", "none"} /\ op.where \in {"fifo", "other"}
           /\ op.n \in 0 .. MaxBytes /\ (op.cmd # "none" => op.n > 0)
           /\ Serial!AddressOf(op) = IF op.where = "fifo" THEN MaxBytes - op.n ELSE 2 * MaxBytes
           /\ Serial!LengthOf(op) = 6 + op.n
           /\ m_byte \in 0 .. 6 + op.n /\ m_bit \in 0 .. 7 /\ since \in Nat
           /\ m_byte = 6 + op.n => m_bit = 0
           /\ op.cmd = "none" => m_byte = 0 /\ m_bit = 0
           /\ Turn = m_byte - 5 - (IF op.cmd = "write" THEN 1 ELSE 0) /\ Turn \in Int
           /\ Begins \in {1, 2} /\ Begins = (IF op.cmd = "write" THEN 1 ELSE 2)
<1>1. /\ MaxBytes \in Nat /\ MaxBytes > 0
      /\ Serial!Header = 5 /\ Serial!Other = 2 * MaxBytes /\ Serial!Tags = 4 * MaxBytes
      /\ Serial!BlockSize = MaxBytes
  BY LayersAssumption
     DEF Serial!SpiAssumption, Serial!Header, Serial!Other, Serial!Tags, Serial!BlockSize
<1>2. CASE op = Serial!NoTransfer
  <2>1. op.cmd = "none" /\ op.n = 0 /\ op.where = "other" /\ m_byte = 0 /\ m_bit = 0
    BY <1>2 DEF Serial!NoTransfer, Place
  <2> QED
    BY <1>1, <1>2, <2>1 DEF Place, Serial!AddressOf, Serial!LengthOf, Turn, Begins
<1>3. CASE op # Serial!NoTransfer
  <2>1. op \in Serial!Transfers
    BY <1>3 DEF Place
  <2>2. op.cmd \in {"write", "read"} /\ op.n \in 1 .. MaxBytes /\ op.where \in {"fifo", "other"}
    BY <2>1 DEF Serial!Transfers
  <2>3. Serial!LengthOf(op) = 6 + op.n
    BY <1>1, <2>2 DEF Serial!LengthOf
  <2>4. m_byte \in 0 .. 6 + op.n /\ (m_byte = 6 + op.n => m_bit = 0) /\ m_bit \in 0 .. 7 /\ since \in Nat
    BY <1>3, <2>3 DEF Place
  <2>5. Serial!AddressOf(op) = IF op.where = "fifo" THEN MaxBytes - op.n ELSE 2 * MaxBytes
    BY <1>1 DEF Serial!AddressOf
  <2>6. Turn = m_byte - 5 - (IF op.cmd = "write" THEN 1 ELSE 0) /\ Turn \in Int
    BY <1>1, <2>4 DEF Turn
  <2>7. Begins \in {1, 2} /\ Begins = (IF op.cmd = "write" THEN 1 ELSE 2)
    BY DEF Begins
  <2>8. op.cmd # "none"
    BY <2>2
  <2> QED
    BY <1>1, <1>3, <2>2, <2>3, <2>4, <2>5, <2>6, <2>7, <2>8
<1> QED
  BY <1>2, <1>3

\* What the two queues and the registers see of the access.
LEMMA Levels ==
    ASSUME Place, SlaveAccess
    PROVE  /\ Serial!fifo_we <=> Writing /\ m_bit \in Begins .. 5
           /\ Serial!fifo_oe <=> Fetching /\ m_bit \in Begins .. 5
           /\ pi_act <=> Turn >= 0 /\ m_bit \in Begins .. 5
           /\ pi_act => aout = Serial!AddressOf(op) + Turn
           /\ pi_act => (Serial!pi_we <=> op.cmd = "write")
           /\ pi_act => (Serial!ce_fifo(aout) <=> op.where = "fifo" /\ Turn < op.n)
           /\ pi_act /\ op.cmd = "write" => (Serial!ce_fifo(aout) <=> op.where = "fifo")
           /\ pi_act /\ op.cmd = "write" => Turn \in 0 .. op.n - 1 /\ dout = <<"data", Turn>>
<1>1. pi_act <=> Turn >= 0 /\ m_bit \in Begins .. 5
  BY DEF SlaveAccess
<1>2. ASSUME pi_act
      PROVE  /\ m_byte >= 5 /\ exec /\ cmd = op.cmd /\ m_bit <= 5 /\ m_byte < 6 + op.n /\ Turn \in Nat
             /\ aout = Serial!AddressOf(op) + Turn
  <2>1. Turn \in Nat /\ m_bit \in Begins .. 5 /\ m_byte >= 5 /\ m_bit <= 5 /\ m_bit # 0
    BY <1>1, <1>2, Transfer
  <2>2. exec /\ cmd = op.cmd
    BY <2>1, Transfer DEF Place
  <2>3. m_byte < 6 + op.n
    BY <2>1, Transfer
  <2>4. aout = Serial!AddressOf(op) + Turn
    <3>1. Address = Serial!AddressOf(op) + Turn + 0
      BY <2>1, Transfer DEF Address
    <3>2. Serial!AddressOf(op) \in Int
      BY Transfer
    <3> QED
      BY <2>1, <2>2, <3>1, <3>2 DEF SlaveAccess
  <2> QED
    BY <2>1, <2>2, <2>3, <2>4
<1>3. pi_act => (Serial!pi_we <=> op.cmd = "write")
  BY <1>2 DEF Serial!pi_we
<1>4. pi_act => (Serial!pi_oe <=> op.cmd = "read")
  BY <1>2 DEF Serial!pi_oe
<1>5. pi_act => (Serial!ce_fifo(aout) <=> op.where = "fifo" /\ Turn < op.n)
  BY <1>2, Transfer DEF Serial!ce_fifo
<1>6. pi_act /\ op.cmd = "write" => Turn \in 0 .. op.n - 1
  BY <1>2, Transfer
<1>7. pi_act /\ op.cmd = "write" => dout = <<"data", Turn>>
  BY <1>6 DEF SlaveAccess
<1>8. Serial!fifo_we <=> Writing /\ m_bit \in Begins .. 5
  BY <1>1, <1>3, <1>5, <1>6, Transfer DEF Serial!fifo_we, Writing
<1>9. Serial!fifo_oe <=> Fetching /\ m_bit \in Begins .. 5
  BY <1>1, <1>2, <1>4, <1>5, Transfer DEF Serial!fifo_oe, Fetching
<1>10. pi_act /\ op.cmd = "write" => (Serial!ce_fifo(aout) <=> op.where = "fifo")
  BY <1>5, <1>6, Transfer
<1> QED
  BY <1>1, <1>2, <1>3, <1>5, <1>6, <1>7, <1>8, <1>9, <1>10

LEMMA OneMoreTag ==
    ASSUME NEW n \in Nat, n > 0, NEW x \in 0 .. n - 1, NEW y \in 0 .. n - 1
    PROVE  (((x + (y + 0)) % n) + 1) % n = (x + (y + 1)) % n
<1>1. x + (y + 0) = x + y /\ x + (y + 1) = x + y + 1
  OBVIOUS
<1>2. x + y \in 0 .. 2 * n - 1 /\ x + y + 1 \in 0 .. 2 * n - 1
  OBVIOUS
<1>3. /\ (x + y) % n = IF x + y < n THEN x + y ELSE x + y - n
      /\ (x + y + 1) % n = IF x + y + 1 < n THEN x + y + 1 ELSE x + y + 1 - n
  BY <1>2, LowWord
<1>4. PICK v \in 0 .. n - 1 : v = (x + y) % n
  BY <1>2, <1>3
<1>5. v + 1 \in 0 .. 2 * n - 1
  OBVIOUS
<1>6. (v + 1) % n = IF v + 1 < n THEN v + 1 ELSE v + 1 - n
  BY <1>5, LowWord
<1>7. (v + 1) % n = (x + y + 1) % n
  BY <1>3, <1>4, <1>6
<1> QED
  BY <1>1, <1>4, <1>7

LEMMA SampledBooleans ==
    ASSUME Samples, Place
    PROVE  /\ sync_st \in BOOLEAN \X BOOLEAN /\ serial_we_st \in BOOLEAN \X BOOLEAN
           /\ serial_oe_st \in BOOLEAN \X BOOLEAN
           /\ Writing \in BOOLEAN /\ Fetching \in BOOLEAN /\ (Turn >= 0) \in BOOLEAN
           /\ Serial!pi_sync <=> sync_st[1] /\ ~sync_st[2]
           /\ serial_we_st = <<FALSE, TRUE>> <=> ~serial_we_st[1] /\ serial_we_st[2]
           /\ serial_oe_st = <<FALSE, TRUE>> <=> ~serial_oe_st[1] /\ serial_oe_st[2]
<1>1. /\ sync_st \in BOOLEAN \X BOOLEAN /\ serial_we_st \in BOOLEAN \X BOOLEAN
      /\ serial_oe_st \in BOOLEAN \X BOOLEAN
  BY DEF Samples, Follows
<1>2. \A st \in BOOLEAN \X BOOLEAN :
          /\ st = <<TRUE, FALSE>> <=> st[1] /\ ~st[2]
          /\ st = <<FALSE, TRUE>> <=> ~st[1] /\ st[2]
  <2> SUFFICES ASSUME NEW st \in BOOLEAN \X BOOLEAN
               PROVE  /\ st = <<TRUE, FALSE>> <=> st[1] /\ ~st[2]
                      /\ st = <<FALSE, TRUE>> <=> ~st[1] /\ st[2]
    OBVIOUS
  <2>1. PICK x \in BOOLEAN, y \in BOOLEAN : st = <<x, y>>
    OBVIOUS
  <2>2. st[1] = x /\ st[2] = y
    BY <2>1
  <2>3. /\ st = <<TRUE, FALSE>> <=> x = TRUE /\ y = FALSE
        /\ st = <<FALSE, TRUE>> <=> x = FALSE /\ y = TRUE
    BY <2>1
  <2> QED
    BY <2>1, <2>2, <2>3, Zenon
<1>3. Writing \in BOOLEAN /\ Fetching \in BOOLEAN /\ (Turn >= 0) \in BOOLEAN
  BY DEF Writing, Fetching
<1> QED
  BY <1>1, <1>2, <1>3 DEF Serial!pi_sync

LEMMA ClockStep == SerialIInv /\ Serial!Clock => SerialIInv'
<1> SUFFICES ASSUME SerialIInv, Serial!Clock PROVE SerialIInv'
  OBVIOUS
<1>1. Place /\ SlaveAccess /\ Samples /\ RegistersGot /\ QueueGot /\ QueueGave /\ CartridgeGot
  BY DEF SerialIInv
<1>2. /\ cmd' = cmd /\ bit_ctr' = bit_ctr /\ byte_ctr' = byte_ctr /\ exec' = exec /\ wr_ok' = wr_ok
      /\ pi_act' = pi_act /\ aout' = aout /\ dout' = dout /\ rd_buff' = rd_buff /\ sout' = sout
      /\ op' = op /\ m_byte' = m_byte /\ m_bit' = m_bit /\ serial_got' = serial_got
      /\ received' = received /\ before' = before
  BY DEF Serial!Clock, Serial!slaveVars, Serial!masterVars
<1>3. since' = since + 1
  BY DEF Serial!Clock
<1>4. /\ Turn' = Turn /\ Begins' = Begins /\ Address' = Address
      /\ Writing' = Writing /\ Fetching' = Fetching
  BY <1>2 DEF Turn, Begins, Address, Writing, Fetching, Serial!AddressOf
<1>5. \A k \in Int : Value(k)' = Value(k)
  BY <1>2 DEF Value, Serial!AddressOf
<1>6. since \in Nat /\ m_bit \in 0 .. 7 /\ Begins \in {1, 2} /\ Turn \in Int /\ op.n \in Nat
      /\ MaxBytes \in Nat /\ MaxBytes > 0
  BY <1>1, Transfer
<1>7. Place'
  <2>1. since' \in Nat
    BY <1>3, <1>6
  <2> QED
    BY <1>1, <1>2, <2>1 DEF Place, Serial!LengthOf
<1>8. slot' \in Pairs
  BY <1>1 DEF SlaveAccess, Serial!Clock
<1>9. SlaveAccess'
  BY <1>1, <1>2, <1>4, <1>8 DEF SlaveAccess
<1>10. Samples'
  <2>1. Follows(sync_st', Turn >= 0, Begins, m_bit, since + 1)
    <3>1. sync_st' = <<pi_act, sync_st[1]>> /\ pi_act \in BOOLEAN
      BY <1>1 DEF Serial!Clock, SlaveAccess
    <3>2. pi_act <=> Turn >= 0 /\ m_bit \in Begins .. 5
      BY <1>1, Levels
    <3>3. Follows(sync_st, Turn >= 0, Begins, m_bit, since)
      BY <1>1 DEF Samples
    <3>4. (Turn >= 0) \in BOOLEAN
      BY <1>1, SampledBooleans
    <3> QED
      BY <1>6, <3>1, <3>2, <3>3, <3>4, SampleLevel
  <2>2. Follows(serial_we_st', Writing, Begins, m_bit, since + 1)
    <3>1. serial_we_st' = <<Serial!fifo_we, serial_we_st[1]>> /\ Serial!fifo_we \in BOOLEAN
      BY <1>1 DEF Serial!Clock, Serial!fifo_we
    <3>2. Serial!fifo_we <=> Writing /\ m_bit \in Begins .. 5
      BY <1>1, Levels
    <3>3. Follows(serial_we_st, Writing, Begins, m_bit, since)
      BY <1>1 DEF Samples
    <3> QED
      BY <1>1, <1>6, <3>1, <3>2, <3>3, SampledBooleans, SampleLevel
  <2>3. Follows(serial_oe_st', Fetching, Begins, m_bit, since + 1)
    <3>1. serial_oe_st' = <<Serial!fifo_oe, serial_oe_st[1]>> /\ Serial!fifo_oe \in BOOLEAN
      BY <1>1 DEF Serial!Clock, Serial!fifo_oe
    <3>2. Serial!fifo_oe <=> Fetching /\ m_bit \in Begins .. 5
      BY <1>1, Levels
    <3>3. Follows(serial_oe_st, Fetching, Begins, m_bit, since)
      BY <1>1 DEF Samples
    <3> QED
      BY <1>1, <1>6, <3>1, <3>2, <3>3, SampledBooleans, SampleLevel
  <2>4. serial_we_st'[1] \/ serial_we_st'[2] => slot' = dout'
    <3>1. /\ serial_we_st'[1] = Serial!fifo_we /\ serial_we_st'[2] = serial_we_st[1]
          /\ slot' = IF Serial!fifo_we THEN dout ELSE slot
      BY DEF Serial!Clock
    <3>2. serial_we_st[1] => slot = dout
      BY <1>1 DEF Samples
    <3>3. CASE Serial!fifo_we
      BY <1>2, <3>1, <3>3
    <3>4. CASE ~Serial!fifo_we
      BY <1>2, <3>1, <3>2, <3>4
    <3> QED
      BY <3>3, <3>4
  <2> QED
    BY <1>2, <1>3, <1>4, <2>1, <2>2, <2>3, <2>4 DEF Samples
<1>11. RegistersGot'
  <2>1. written' = IF Serial!pi_sync /\ Serial!pi_we /\ ~Serial!ce_fifo(aout)
                   THEN Append(written, <<aout, dout>>) ELSE written
    BY DEF Serial!Clock
  <2>2. sync_st'[2] = sync_st[1]
    BY DEF Serial!Clock
  <2>3. Serial!pi_sync => pi_act
    <3> SUFFICES ASSUME Serial!pi_sync PROVE pi_act
      OBVIOUS
    <3>1. sync_st[1] /\ ~sync_st[2]
      BY <1>1, SampledBooleans
    <3>2. Turn >= 0 /\ m_bit \in Begins .. 5
      BY <1>1, <1>6, <3>1 DEF Samples, Follows
    <3> QED
      BY <1>1, <3>2, Levels
  <2>4. CASE Serial!pi_sync /\ op.cmd = "write" /\ op.where = "other"
    <3>1. pi_act /\ ~sync_st[2] /\ sync_st[1] /\ m_bit \in Begins .. 5
      BY <1>1, <2>3, <2>4, SampledBooleans, Levels
    <3>2. Serial!pi_we /\ ~Serial!ce_fifo(aout) /\ Turn >= 0 /\ dout = <<"data", Turn>>
      BY <1>1, <2>4, <3>1, Levels
    <3>3. aout = Serial!Other + Turn
      BY <1>1, <2>4, <3>1, Levels, Transfer
    <3>4. written' = Append(written, <<Serial!Other + Turn, <<"data", Turn>>>>)
      BY <2>1, <2>4, <3>2, <3>3
    <3>5. Len(written) = Turn
      BY <1>1, <1>6, <2>4, <3>1, <3>2 DEF RegistersGot
    <3>6. <<Serial!Other + Turn, <<"data", Turn>>>> \in Int \X Pairs
      <4>1. Serial!Other + Turn \in Int
        BY <1>1, <1>6, Transfer
      <4>2. <<"data", Turn>> \in Pairs
        BY <1>1, <3>2 DEF SlaveAccess
      <4> QED
        BY <4>1, <4>2
    <3>7. /\ written' \in Seq(Int \X Pairs) /\ Len(written') = Turn + 1
          /\ \A k \in 1 .. Turn : written'[k] = written[k]
          /\ written'[Turn + 1] = <<Serial!Other + Turn, <<"data", Turn>>>>
      BY <1>1, <1>6, <3>4, <3>5, <3>6 DEF RegistersGot
    <3>8. \A k \in 1 .. Turn + 1 : written'[k] = <<Serial!Other + k - 1, <<"data", k - 1>>>>
      <4> SUFFICES ASSUME NEW k \in 1 .. Turn + 1
                   PROVE  written'[k] = <<Serial!Other + k - 1, <<"data", k - 1>>>>
        OBVIOUS
      <4>1. CASE k <= Turn
        BY <1>1, <1>6, <3>5, <3>7, <4>1 DEF RegistersGot
      <4>2. CASE k = Turn + 1
        <5>1. k - 1 = Turn /\ Serial!Other + k - 1 = Serial!Other + Turn
          BY <1>1, <1>6, <4>2, Transfer
        <5> QED
          BY <3>7, <4>2, <5>1
      <4> QED
        BY <1>6, <4>1, <4>2
    <3>9. m_bit < 6 /\ sync_st'[2]
      BY <1>6, <2>2, <3>1
    <3> QED
      BY <1>2, <1>4, <1>6, <2>4, <3>2, <3>7, <3>8, <3>9 DEF RegistersGot, Serial!Other, Serial!BlockSize
  <2>5. CASE ~(Serial!pi_sync /\ op.cmd = "write" /\ op.where = "other")
    <3>1. written' = written
      BY <1>1, <2>1, <2>3, <2>5, Levels, Transfer
    <3>2. op.cmd = "write" /\ op.where = "other" /\ Turn >= 0 =>
              (m_bit >= 6 \/ sync_st'[2] <=> m_bit >= 6 \/ sync_st[2])
      <4> SUFFICES ASSUME op.cmd = "write" /\ op.where = "other" /\ Turn >= 0, m_bit < 6
                   PROVE  sync_st'[2] <=> sync_st[2]
        BY <1>6
      <4>1. sync_st[1] => sync_st[2]
        BY <1>1, <2>5, SampledBooleans
      <4>2. sync_st[2] => sync_st[1]
        BY <1>1, <1>6 DEF Samples, Follows
      <4> QED
        BY <2>2, <4>1, <4>2
    <3> QED
      BY <1>1, <1>2, <1>4, <3>1, <3>2 DEF RegistersGot, Serial!Other, Serial!BlockSize
  <2> QED
    BY <2>4, <2>5
<1>12. QueueGot'
  <2>1. pushed' = IF serial_we_st = <<FALSE, TRUE>> THEN Append(pushed, slot) ELSE pushed
    BY DEF Serial!Clock
  <2>2. serial_we_st'[2] = serial_we_st[1]
    BY DEF Serial!Clock
  <2>3. CASE serial_we_st = <<FALSE, TRUE>>
    <3>1. ~serial_we_st[1] /\ serial_we_st[2]
      BY <1>1, <2>3, SampledBooleans
    <3>2. Writing /\ m_bit >= 6 /\ slot = dout
      BY <1>1, <1>6, <3>1 DEF Samples, Follows
    <3>3. op.cmd = "write" /\ Turn \in 0 .. op.n - 1
      BY <1>1, <1>6, <3>2, Transfer DEF Writing
    <3>4. slot = <<"data", Turn>> /\ slot \in Pairs
      BY <1>1, <3>2, <3>3 DEF SlaveAccess
    <3>5. Len(pushed) = Turn
      BY <1>1, <1>6, <3>1, <3>2 DEF QueueGot
    <3>6. /\ pushed' \in Seq(Pairs) /\ Len(pushed') = Turn + 1
          /\ \A k \in 1 .. Turn : pushed'[k] = pushed[k]
          /\ pushed'[Turn + 1] = <<"data", Turn>>
      BY <1>1, <1>6, <2>1, <2>3, <3>4, <3>5 DEF QueueGot
    <3>7. \A k \in 1 .. Turn + 1 : pushed'[k] = <<"data", k - 1>>
      BY <1>1, <1>6, <3>5, <3>6 DEF QueueGot
    <3>8. m_bit >= 6 /\ ~serial_we_st'[2]
      BY <2>2, <3>1, <3>2
    <3> QED
      BY <1>2, <1>4, <3>2, <3>6, <3>7, <3>8 DEF QueueGot
  <2>4. CASE serial_we_st # <<FALSE, TRUE>>
    <3>1. pushed' = pushed
      BY <2>1, <2>4
    <3>2. Writing => (m_bit >= 6 /\ ~serial_we_st'[2] <=> m_bit >= 6 /\ ~serial_we_st[2])
      <4> SUFFICES ASSUME m_bit >= 6 PROVE serial_we_st'[2] <=> serial_we_st[2]
        BY <1>6
      <4>1. serial_we_st[2] => serial_we_st[1]
        BY <1>1, <2>4, SampledBooleans
      <4>2. serial_we_st[1] => serial_we_st[2]
        BY <1>1, <1>6 DEF Samples, Follows
      <4> QED
        BY <2>2, <4>1, <4>2
    <3> QED
      BY <1>1, <1>2, <1>4, <3>1, <3>2 DEF QueueGot
  <2> QED
    BY <2>3, <2>4
<1>13. QueueGave'
  <2> DEFINE base == IF op.cmd = "read" /\ op.where = "fifo" /\ Turn >= 0 THEN op.n ELSE 0
             T == Serial!Tags
  <2>1. serial_taken' = IF serial_oe_st = <<FALSE, TRUE>> THEN (serial_taken + 1) % T
                        ELSE serial_taken
    BY DEF Serial!Clock
  <2>2. serial_oe_st'[2] = serial_oe_st[1] /\ serial_dato' = serial_taken
    BY DEF Serial!Clock
  <2>3. T \in Nat /\ T > 0 /\ before \in 0 .. T - 1
    BY <1>1, Transfer DEF QueueGave
  <2>4. CASE serial_oe_st = <<FALSE, TRUE>>
    <3>1. ~serial_oe_st[1] /\ serial_oe_st[2]
      BY <1>1, <2>4, SampledBooleans
    <3>2. Fetching /\ m_bit >= 6 /\ Turn \in Nat
      BY <1>1, <1>6, <3>1 DEF Samples, Follows, Fetching
    <3>3. serial_taken = (before + (Turn + 0)) % T
      BY <1>1, <3>1, <3>2 DEF QueueGave
    <3>4. serial_taken' = (before + (Turn + 1)) % T
      <4>1. serial_taken' = (((before + (Turn + 0)) % T) + 1) % T
        BY <2>1, <2>4, <3>3
      <4>2. Turn \in 0 .. T - 1
        BY <1>1, <3>2, Transfer DEF Fetching
      <4> HIDE DEF T
      <4> QED
        BY <2>3, <4>1, <4>2, OneMoreTag
    <3>5. m_bit >= 6 /\ ~serial_oe_st'[2]
      BY <2>2, <3>1, <3>2
    <3> QED
      BY <1>1, <1>2, <1>4, <1>6, <3>2, <3>4, <3>5 DEF QueueGave, Serial!Tags
  <2>5. CASE serial_oe_st # <<FALSE, TRUE>>
    <3>1. serial_taken' = serial_taken
      BY <2>1, <2>5
    <3>2. m_bit >= 6 /\ ~serial_oe_st'[2] <=> m_bit >= 6 /\ ~serial_oe_st[2]
      <4> SUFFICES ASSUME m_bit >= 6 PROVE serial_oe_st'[2] <=> serial_oe_st[2]
        BY <1>6
      <4>1. serial_oe_st[2] => serial_oe_st[1]
        BY <1>1, <2>5, SampledBooleans
      <4>2. serial_oe_st[1] => serial_oe_st[2]
        BY <1>1, <1>6 DEF Samples, Follows
      <4> QED
        BY <2>2, <4>1, <4>2
    <3> QED
      BY <1>1, <1>2, <1>4, <2>2, <3>1, <3>2 DEF QueueGave, Serial!Tags
  <2> QED
    BY <2>4, <2>5
<1>14. CartridgeGot'
  <2>1. Value(Turn)' = Value(Turn) /\ Value(Turn - 1)' = Value(Turn - 1)
    BY <1>2, <1>4 DEF Value, Serial!AddressOf
  <2>2. \A k \in 1 .. Len(received) : Value(k - 1)' = Value(k - 1)
    BY <1>2 DEF Value, Serial!AddressOf
  <2> QED
    BY <1>1, <1>2, <1>4, <2>1, <2>2 DEF CartridgeGot
<1> QED
  BY <1>7, <1>9, <1>10, <1>11, <1>12, <1>13, <1>14 DEF SerialIInv

\* What the bits of a byte have in common.
LEMMA BitPlaces ==
    ASSUME SerialIInv, Serial!Bit, since > 0
    PROVE  /\ op.cmd \in {"write", "read"} /\ op.n > 0 /\ m_byte < 6 + op.n
           /\ op' = op /\ before' = before /\ since' = 0
           /\ m_bit < 7 => m_bit' = m_bit + 1 /\ m_byte' = m_byte /\ Turn' = Turn
           /\ m_bit = 7 => m_bit' = 0 /\ m_byte' = m_byte + 1 /\ Turn' = Turn + 1
           /\ Begins' = Begins /\ Place'
           /\ \A k \in Int : Value(k)' = Value(k)
<1>1. Place
  BY DEF SerialIInv
<1>2. op # Serial!NoTransfer /\ m_byte # Serial!LengthOf(op)
  BY DEF Serial!Bit, Serial!idle
<1>3. op.cmd \in {"write", "read"} /\ op.n > 0 /\ m_byte < 6 + op.n
  BY <1>1, <1>2, Transfer
<1>4. op' = op /\ before' = before /\ since' = 0
  BY DEF Serial!Bit, Serial!MasterBit
<1>5. m_bit \in 0 .. 7 /\ m_byte \in Nat /\ m_byte < 6 + op.n /\ op.n \in Nat /\ Serial!Header = 5
  BY <1>1, <1>3, Transfer
<1>6. /\ m_bit < 7 => m_bit' = m_bit + 1 /\ m_byte' = m_byte
      /\ m_bit = 7 => m_bit' = 0 /\ m_byte' = m_byte + 1
  <2>1. m_bit' = (m_bit + 1) % 8
    BY DEF Serial!Bit, Serial!MasterBit
  <2>2. m_byte' = IF m_bit < 7 THEN m_byte ELSE m_byte + 1
    BY DEF Serial!Bit, Serial!MasterBit
  <2> QED
    BY <1>5, <2>1, <2>2
<1>7. /\ m_bit < 7 => Turn' = Turn
      /\ m_bit = 7 => Turn' = Turn + 1
      /\ Begins' = Begins
  BY <1>4, <1>5, <1>6 DEF Turn, Begins, Serial!Header
<1>8. \A k \in Int : Value(k)' = Value(k)
  BY <1>4 DEF Value, Serial!AddressOf
<1>9. Place'
  <2>1. /\ bit_ctr = m_bit /\ (exec <=> m_byte >= 5) /\ exec \in BOOLEAN
        /\ byte_ctr = (IF exec THEN 5 ELSE m_byte)
        /\ cmd = (IF m_byte = 0 THEN "none" ELSE op.cmd)
    BY <1>1, <1>5 DEF Place
  <2>2. bit_ctr' = m_bit'
    BY <2>1 DEF Serial!Bit, Serial!MasterBit
  <2>3. Serial!LengthOf(op)' = Serial!LengthOf(op) /\ Serial!LengthOf(op) = 6 + op.n
    BY <1>1, <1>4, Transfer DEF Serial!LengthOf
  <2>4. m_byte' \in 0 .. 6 + op.n /\ (m_byte' = 6 + op.n => m_bit' = 0) /\ m_bit' \in 0 .. 7
    BY <1>5, <1>6
  <2>5. CASE m_bit # 7 \/ exec
    <3>1. cmd' = cmd /\ exec' = exec /\ byte_ctr' = byte_ctr
      BY <2>1, <2>5 DEF Serial!Bit, Serial!HeaderByte
    <3>2. exec' <=> m_byte' >= 5
      BY <1>5, <1>6, <2>1, <2>5, <3>1
    <3>3. byte_ctr' = IF exec' THEN 5 ELSE m_byte'
      <4>1. CASE exec
        BY <2>1, <3>1, <4>1
      <4>2. CASE ~exec
        BY <1>5, <1>6, <2>1, <2>5, <3>1, <4>2
      <4> QED
        BY <4>1, <4>2
    <3>4. cmd' = IF m_byte' = 0 THEN "none" ELSE op'.cmd
      BY <1>4, <1>5, <1>6, <2>1, <2>5, <3>1
    <3> QED
      BY <1>1, <1>2, <1>4, <1>5, <2>1, <2>2, <2>3, <2>4, <3>1, <3>2, <3>3, <3>4 DEF Place, Serial!Header
  <2>6. CASE m_bit = 7 /\ ~exec
    <3>1. /\ cmd' = (IF byte_ctr = 0 THEN Serial!sin[1] ELSE cmd)
          /\ exec' = (byte_ctr = 4) /\ byte_ctr' = byte_ctr + 1
      BY <1>5, <2>1, <2>6 DEF Serial!Bit, Serial!HeaderByte
    <3>2. m_byte < 5 /\ byte_ctr = m_byte /\ m_byte' = m_byte + 1 /\ m_bit' = 0
      BY <1>5, <1>6, <2>1, <2>6
    <3>3. cmd' = op.cmd
      <4>1. CASE m_byte = 0
        <5>1. Serial!sin = <<op.cmd, 0>>
          BY <1>3, <1>5, <2>6, <4>1 DEF Serial!sin, Serial!ByteSent
        <5> QED
          BY <3>1, <3>2, <4>1, <5>1
      <4>2. CASE m_byte # 0
        BY <2>1, <3>1, <3>2, <4>2
      <4> QED
        BY <4>1, <4>2
    <3>4. (exec' <=> m_byte' >= 5) /\ exec' \in BOOLEAN
      <4>1. byte_ctr = 4 <=> m_byte' >= 5
        BY <1>5, <3>2
      <4> QED
        BY <3>1, <4>1, Zenon
    <3>5. byte_ctr' = IF exec' THEN 5 ELSE m_byte'
      BY <1>5, <3>1, <3>2, <3>4
    <3> QED
      BY <1>1, <1>2, <1>4, <1>5, <2>2, <2>3, <2>4, <3>2, <3>3, <3>4, <3>5 DEF Place, Serial!Header
  <2> QED
    BY <1>5, <2>5, <2>6
<1> QED
  BY <1>3, <1>4, <1>6, <1>7, <1>8, <1>9

LEMMA BitSamples ==
    ASSUME SerialIInv, Serial!Bit, since > 0
    PROVE  Samples' /\ RegistersGot' /\ QueueGot' /\ QueueGave'
<1>1. Place /\ Samples /\ SlaveAccess /\ RegistersGot /\ QueueGot /\ QueueGave
  BY DEF SerialIInv
<1>2. /\ sync_st' = sync_st /\ serial_we_st' = serial_we_st /\ serial_oe_st' = serial_oe_st
      /\ slot' = slot /\ serial_dato' = serial_dato /\ written' = written /\ pushed' = pushed
      /\ serial_taken' = serial_taken
  BY DEF Serial!Bit, Serial!queueVars
<1>3. /\ op.cmd \in {"write", "read"} /\ op.n > 0 /\ m_byte < 6 + op.n
      /\ op' = op /\ before' = before /\ since' = 0
      /\ m_bit < 7 => m_bit' = m_bit + 1 /\ m_byte' = m_byte /\ Turn' = Turn
      /\ m_bit = 7 => m_bit' = 0 /\ m_byte' = m_byte + 1 /\ Turn' = Turn + 1
      /\ Begins' = Begins
  BY BitPlaces
<1>4. /\ Begins \in {1, 2} /\ m_bit \in 0 .. 7 /\ since \in Nat /\ Turn \in Int /\ op.n \in Nat
      /\ m_byte \in Nat
  BY <1>1, Transfer
<1>5. /\ Follows(sync_st, Turn >= 0, Begins, m_bit, since)
      /\ Follows(serial_we_st, Writing, Begins, m_bit, since)
      /\ Follows(serial_oe_st, Fetching, Begins, m_bit, since)
      /\ Writing \in BOOLEAN /\ Fetching \in BOOLEAN /\ (Turn >= 0) \in BOOLEAN
  BY <1>1, SampledBooleans DEF Samples
<1>6. CASE m_bit < 7
  <2>1. Writing' = Writing /\ Fetching' = Fetching
    BY <1>3, <1>6 DEF Writing, Fetching
  <2>2. m_bit \in 0 .. 6
    BY <1>4, <1>6
  <2>3. /\ Follows(sync_st, Turn >= 0, Begins, m_bit + 1, 0)
        /\ Follows(serial_we_st, Writing, Begins, m_bit + 1, 0)
        /\ Follows(serial_oe_st, Fetching, Begins, m_bit + 1, 0)
    BY <1>4, <1>5, <2>2, SampleBit
  <2>4. serial_we_st'[1] \/ serial_we_st'[2] => slot' = dout'
    <3>1. dout' = dout
      <4>1. bit_ctr # 7
        BY <1>1, <1>6 DEF Place
      <4>2. Serial!WriteBit => dout' = dout
        BY <4>1 DEF Serial!WriteBit
      <4>3. Serial!ReadBit => dout' = dout
        BY DEF Serial!ReadBit
      <4> QED
        BY <4>2, <4>3 DEF Serial!Bit
    <3> QED
      BY <1>1, <1>2, <3>1 DEF Samples
  <2>5. Samples'
    BY <1>2, <1>3, <1>6, <2>1, <2>3, <2>4 DEF Samples
  <2>6. m_bit = 5 =>
            /\ Turn >= 0 => sync_st[2]
            /\ Writing => serial_we_st[2]
            /\ Fetching => serial_oe_st[2]
    BY <1>4, <1>5 DEF Follows
  <2>7. m_bit' >= 6 <=> m_bit >= 6 \/ m_bit = 5
    BY <1>3, <1>4, <1>6
  <2>8. RegistersGot'
    <3>1. op.cmd = "write" /\ op.where = "other" /\ Turn >= 0 =>
              (m_bit' >= 6 \/ sync_st[2] <=> m_bit >= 6 \/ sync_st[2])
      BY <2>6, <2>7
    <3> QED
      BY <1>1, <1>2, <1>3, <1>6, <3>1 DEF RegistersGot, Serial!Other, Serial!BlockSize
  <2>9. QueueGot'
    <3>1. Writing => (m_bit' >= 6 /\ ~serial_we_st[2] <=> m_bit >= 6 /\ ~serial_we_st[2])
      BY <2>6, <2>7
    <3> QED
      BY <1>1, <1>2, <2>1, <1>3, <1>6, <3>1 DEF QueueGot
  <2>10. QueueGave'
    <3>1. Fetching => (m_bit' >= 6 /\ ~serial_oe_st[2] <=> m_bit >= 6 /\ ~serial_oe_st[2])
      BY <2>6, <2>7
    <3>2. m_bit' \in 1 .. 5 \/ (m_bit' = 0 /\ since' > 0) => m_bit \in 1 .. 5 \/ (m_bit = 0 /\ since > 0)
      BY <1>3, <1>4, <1>6
    <3> QED
      BY <1>1, <1>2, <2>1, <1>3, <1>6, <3>1, <3>2 DEF QueueGave, Serial!Tags
  <2> QED
    BY <2>5, <2>8, <2>9, <2>10
<1>7. CASE m_bit = 7
  <2>1. Writing' \in BOOLEAN /\ Fetching' \in BOOLEAN /\ (Turn' >= 0) \in BOOLEAN
    BY DEF Writing, Fetching
  <2>2. m_bit \in {0, 7}
    BY <1>7
  <2>3. /\ Follows(sync_st, Turn' >= 0, Begins, 0, 0)
        /\ Follows(serial_we_st, Writing', Begins, 0, 0)
        /\ Follows(serial_oe_st, Fetching', Begins, 0, 0)
    <3>1. PICK x \in BOOLEAN, y \in BOOLEAN, z \in BOOLEAN :
              x = (Turn' >= 0) /\ y = Writing' /\ z = Fetching'
      BY <2>1
    <3>2. Follows(sync_st, x, Begins, 0, 0)
      <4>1. PICK w \in BOOLEAN : w = (Turn >= 0) /\ Follows(sync_st, w, Begins, m_bit, since)
        BY <1>5
      <4>2. Follows(sync_st, w, Begins, m_bit, since)
        BY <4>1
      <4>3. \A other \in BOOLEAN, m \in {1, 2} : Follows(sync_st, other, m, 0, 0)
        BY <1>4, <2>2, <4>2, SampleByte
      <4> QED
        BY <1>4, <4>3
    <3>3. Follows(serial_we_st, y, Begins, 0, 0)
      BY <1>4, <1>5, <2>2, SampleByte
    <3>4. Follows(serial_oe_st, z, Begins, 0, 0)
      BY <1>4, <1>5, <2>2, SampleByte
    <3> QED
      BY <3>1, <3>2, <3>3, <3>4
  <2>4. ~sync_st[2] /\ ~serial_we_st[1] /\ ~serial_we_st[2] /\ ~serial_oe_st[2]
    BY <1>4, <1>5, <1>7 DEF Follows
  <2>5. Samples'
    BY <1>2, <1>3, <1>7, <2>3, <2>4 DEF Samples
  <2>6. m_bit' = 0 /\ since' = 0 /\ Turn' = Turn + 1 /\ Turn' \in Int
    BY <1>3, <1>4, <1>7
  <2>7. RegistersGot'
    BY <1>1, <1>2, <1>3, <1>4, <1>7, <2>4, <2>6 DEF RegistersGot, Serial!Other, Serial!BlockSize
  <2>8. QueueGot'
    <3>1. Writing' <=> Writing \/ (op.cmd = "write" /\ op.where = "fifo" /\ Turn + 1 = 0)
      BY <1>3, <1>4, <2>6 DEF Writing
    <3>2. Len(pushed) = IF Writing THEN Turn + 1 ELSE 0
      BY <1>1, <1>4, <1>7, <2>4 DEF QueueGot
    <3>3. Len(pushed) = IF Writing' THEN Turn' + 0 ELSE 0
      BY <1>4, <2>6, <3>1, <3>2 DEF Writing
    <3> QED
      BY <1>1, <1>2, <1>3, <2>6, <3>3 DEF QueueGot
  <2>9. QueueGave'
    <3> DEFINE total(f, t) ==
                   IF f THEN t ELSE IF op.cmd = "read" /\ op.where = "fifo" /\ t >= 0 THEN op.n ELSE 0
    <3>1. serial_taken = (before + (IF Fetching THEN Turn + 1
                                    ELSE IF op.cmd = "read" /\ op.where = "fifo" /\ Turn >= 0
                                         THEN op.n ELSE 0)) % Serial!Tags
      BY <1>1, <1>4, <1>7, <2>4 DEF QueueGave
    <3>2. (IF Fetching THEN Turn + 1
           ELSE IF op.cmd = "read" /\ op.where = "fifo" /\ Turn >= 0 THEN op.n ELSE 0)
          = (IF Fetching' THEN Turn' + 0
             ELSE IF op.cmd = "read" /\ op.where = "fifo" /\ Turn' >= 0 THEN op.n ELSE 0)
      BY <1>3, <1>4, <2>6 DEF Fetching
    <3> QED
      BY <1>1, <1>2, <1>3, <2>6, <3>1, <3>2 DEF QueueGave, Serial!Tags
  <2> QED
    BY <2>5, <2>7, <2>8, <2>9
<1> QED
  BY <1>4, <1>6, <1>7

LEMMA BitAccess ==
    ASSUME SerialIInv, Serial!Bit, since > 0
    PROVE  SlaveAccess'
<1>1. Place /\ SlaveAccess
  BY DEF SerialIInv
<1>2. /\ op.cmd \in {"write", "read"} /\ op.n > 0 /\ m_byte < 6 + op.n
      /\ op' = op /\ before' = before
      /\ m_bit < 7 => m_bit' = m_bit + 1 /\ m_byte' = m_byte /\ Turn' = Turn
      /\ m_bit = 7 => m_bit' = 0 /\ m_byte' = m_byte + 1 /\ Turn' = Turn + 1
      /\ Begins' = Begins
  BY BitPlaces
<1>3. /\ m_bit \in 0 .. 7 /\ Turn \in Int /\ op.n \in Nat /\ op.n <= MaxBytes /\ m_byte \in Nat
      /\ MaxBytes \in Nat /\ MaxBytes > 0 /\ Serial!Header = 5 /\ Serial!Other = 2 * MaxBytes
      /\ Serial!AddressOf(op) = (IF op.where = "fifo" THEN MaxBytes - op.n ELSE 2 * MaxBytes)
      /\ Serial!AddressOf(op) \in 0 .. 2 * MaxBytes
      /\ Turn = m_byte - 5 - (IF op.cmd = "write" THEN 1 ELSE 0)
      /\ Begins = IF op.cmd = "write" THEN 1 ELSE 2
  BY <1>1, Transfer
<1>4. /\ bit_ctr = m_bit /\ (exec <=> m_byte >= 5) /\ cmd = (IF m_byte = 0 THEN "none" ELSE op.cmd)
      /\ (exec' <=> m_byte' >= 5) /\ exec \in BOOLEAN /\ (byte_ctr = IF exec THEN 5 ELSE m_byte)
  BY <1>1, <1>3, BitPlaces DEF Place, Serial!Header
<1>5. Address' = IF Turn' < 0 THEN Serial!AddressOf(op)
                 ELSE Serial!AddressOf(op) + Turn'
                        + (IF m_bit' = 7 \/ (m_bit' = 6 /\ op.cmd = "read") THEN 1 ELSE 0)
  BY <1>2 DEF Address, Serial!AddressOf
<1>6. exec => aout = IF Turn < 0 THEN Serial!AddressOf(op)
                     ELSE Serial!AddressOf(op) + Turn
                            + (IF m_bit = 7 \/ (m_bit = 6 /\ op.cmd = "read") THEN 1 ELSE 0)
  BY <1>1 DEF SlaveAccess, Address
<1>7. /\ wr_ok <=> op.cmd = "write" /\ m_byte > 5
      /\ pi_act <=> Turn >= 0 /\ m_bit \in Begins .. 5
      /\ pi_act \in BOOLEAN /\ aout \in 0 .. 3 * MaxBytes + 1
      /\ {dout, slot, rd_buff} \subseteq Pairs /\ sout \in Pairs \X Int
      /\ op.cmd = "write" /\ Turn \in 0 .. op.n - 1 => dout = <<"data", Turn>>
  BY <1>1, <1>3 DEF SlaveAccess
<1>8. slot' = slot
  BY DEF Serial!Bit, Serial!queueVars
<1> USE DEF Serial!Header
<1>9. CASE ~exec
  <2>1. /\ wr_ok' = wr_ok /\ pi_act' = pi_act /\ dout' = dout /\ rd_buff' = rd_buff /\ sout' = sout
        /\ Serial!AddressByte
    BY <1>9 DEF Serial!Bit, Serial!pi_we, Serial!pi_oe
  <2>2. m_byte < 5 /\ byte_ctr = m_byte /\ ~wr_ok /\ ~pi_act
    BY <1>3, <1>4, <1>7, <1>9
  <2>3. m_byte' <= 5 /\ (m_byte' = 5 => m_bit' = 0) /\ (Turn' >= 0 => m_bit' = 0) /\ Turn' \in Int
        /\ (op.cmd = "write" => Turn' < 0)
    BY <1>2, <1>3, <2>2
  <2>4. CASE m_bit = 7 /\ m_byte = 4
    <3>1. Serial!sin = <<"address", Serial!AddressOf(op)>>
      BY <1>2, <1>3, <2>4 DEF Serial!sin, Serial!ByteSent
    <3>2. aout' = Serial!AddressOf(op)
      BY <1>4, <1>9, <2>1, <2>2, <2>4, <3>1 DEF Serial!AddressByte
    <3>3. Address' = Serial!AddressOf(op)
      BY <1>2, <1>3, <1>5, <2>4
    <3> QED
      BY <1>2, <1>3, <1>7, <1>8, <2>1, <2>2, <2>3, <3>2, <3>3
         DEF SlaveAccess, Serial!Other, Serial!BlockSize
  <2>5. CASE ~(m_bit = 7 /\ m_byte = 4)
    <3>1. aout' = aout
      BY <1>4, <2>1, <2>2, <2>5 DEF Serial!AddressByte
    <3>2. ~exec'
      BY <1>2, <1>3, <1>4, <2>2, <2>5
    <3> QED
      BY <1>2, <1>3, <1>7, <1>8, <2>1, <2>2, <2>3, <3>1, <3>2
         DEF SlaveAccess, Serial!Other, Serial!BlockSize
  <2> QED
    BY <2>4, <2>5
<1>10. CASE exec /\ op.cmd = "write"
  <2>1. Serial!WriteBit
    BY <1>3, <1>4, <1>10 DEF Serial!Bit, Serial!pi_we, Serial!pi_oe
  <2>2. /\ dout' = (IF m_bit = 7 THEN Serial!sin ELSE dout)
        /\ wr_ok' = (wr_ok \/ m_bit = 7)
        /\ pi_act' = (CASE m_bit = 0 /\ wr_ok -> TRUE [] m_bit = 5 /\ wr_ok -> FALSE [] OTHER -> pi_act)
        /\ aout' = (IF m_bit = 6 /\ wr_ok THEN aout + 1 ELSE aout)
        /\ rd_buff' = rd_buff /\ sout' = sout
    BY <1>4, <2>1 DEF Serial!WriteBit
  <2>3. /\ m_byte >= 5 /\ Turn = m_byte - 6 /\ Begins = 1 /\ (wr_ok <=> Turn >= 0)
        /\ Turn <= op.n - 1
    BY <1>2, <1>3, <1>4, <1>7, <1>10
  <2>4. wr_ok' <=> m_byte' > 5
    <3>1. wr_ok \/ m_bit = 7 <=> m_byte' > 5
      BY <1>2, <1>3, <2>3
    <3> QED
      BY <2>2, <3>1, Zenon
  <2>5. (pi_act' <=> Turn' >= 0 /\ m_bit' \in 1 .. 5) /\ pi_act' \in BOOLEAN
    <3>1. CASE m_bit = 0 /\ wr_ok
      <4>1. pi_act' = TRUE
        BY <2>2, <3>1
      <4>2. Turn' >= 0 /\ m_bit' \in 1 .. 5
        BY <1>2, <2>3, <3>1
      <4> QED
        BY <4>1, <4>2, Zenon
    <3>2. CASE m_bit = 5 /\ wr_ok
      <4>1. pi_act' = FALSE
        BY <2>2, <3>2
      <4>2. ~(m_bit' \in 1 .. 5)
        BY <1>2, <3>2
      <4> QED
        BY <4>1, <4>2, Zenon
    <3>3. CASE ~(m_bit = 0 /\ wr_ok) /\ ~(m_bit = 5 /\ wr_ok)
      <4>1. pi_act' = pi_act
        BY <2>2, <3>3
      <4>2. (Turn >= 0 /\ m_bit \in 1 .. 5) <=> (Turn' >= 0 /\ m_bit' \in 1 .. 5)
        BY <1>2, <1>3, <2>3, <3>3
      <4> QED
        BY <1>7, <2>3, <4>1, <4>2
    <3> QED
      BY <3>1, <3>2, <3>3
  <2>6. aout' = Address' /\ aout' \in 0 .. 3 * MaxBytes + 1
    BY <1>2, <1>3, <1>5, <1>6, <1>10, <2>2, <2>3
  <2>7. Turn' \in 0 .. op.n - 1 => dout' = <<"data", Turn'>>
    <3>1. CASE m_bit = 7
      <4> SUFFICES ASSUME Turn' \in 0 .. op.n - 1 PROVE dout' = <<"data", Turn'>>
        OBVIOUS
      <4>1. m_byte \in 5 .. 5 + op.n - 1 /\ Turn' = m_byte - 5
        BY <1>2, <1>3, <2>3, <3>1
      <4>2. Serial!sin = <<"data", m_byte - 5>>
        BY <1>2, <1>3, <3>1, <4>1 DEF Serial!sin, Serial!ByteSent
      <4> QED
        BY <2>2, <3>1, <4>1, <4>2
    <3>2. CASE m_bit # 7
      BY <1>2, <1>3, <1>7, <1>10, <2>2, <3>2
    <3> QED
      BY <3>1, <3>2
  <2>8. dout' \in Pairs
    <3>1. CASE m_bit = 7
      <4>1. Serial!sin = <<"data", m_byte - 5>> \/ Serial!sin = <<"nothing", 0>>
        BY <1>2, <1>3, <2>3, <3>1 DEF Serial!sin, Serial!ByteSent, Serial!Nothing
      <4> QED
        BY <1>3, <2>2, <3>1, <4>1 DEF Pairs
    <3>2. CASE m_bit # 7
      BY <1>7, <2>2, <3>2
    <3> QED
      BY <3>1, <3>2
  <2> QED
    <3>1. aout' \in 0 .. Serial!Other + MaxBytes + 1
      BY <1>3, <2>6
    <3>2. {dout', slot', rd_buff'} \subseteq Pairs /\ sout' \in Pairs \X Int
      BY <1>7, <1>8, <2>2, <2>8
    <3>3. Begins' = 1 /\ op'.cmd = op.cmd /\ op'.n = op.n /\ Serial!Other' = Serial!Other
      BY <1>2, <2>3 DEF Serial!Other, Serial!BlockSize
    <3> QED
      BY <1>10, <2>4, <2>5, <2>6, <2>7, <3>1, <3>2, <3>3 DEF SlaveAccess
<1>11. CASE exec /\ op.cmd = "read"
  <2>1. Serial!ReadBit
    BY <1>3, <1>4, <1>11 DEF Serial!Bit, Serial!pi_we, Serial!pi_oe
  <2>2. /\ pi_act' = (CASE m_bit = 1 -> TRUE [] m_bit = 5 -> FALSE [] OTHER -> pi_act)
        /\ rd_buff' = (IF m_bit = 5 THEN Serial!dati ELSE rd_buff)
        /\ aout' = (IF m_bit = 5 THEN aout + 1 ELSE aout)
        /\ sout' = (IF m_bit = 7 THEN <<rd_buff, 0>> ELSE <<sout[1], sout[2] + 1>>)
        /\ wr_ok' = wr_ok /\ dout' = dout
    BY <1>4, <2>1 DEF Serial!ReadBit, Serial!NextAddress, Serial!Load
  <2>3. m_byte >= 5 /\ Turn = m_byte - 5 /\ Begins = 2 /\ ~wr_ok /\ Turn \in 0 .. op.n
    BY <1>2, <1>3, <1>4, <1>7, <1>11
  <2>4. (pi_act' <=> Turn' >= 0 /\ m_bit' \in 2 .. 5) /\ pi_act' \in BOOLEAN
    <3>1. CASE m_bit = 1
      <4>1. pi_act' = TRUE
        BY <2>2, <3>1
      <4>2. Turn' >= 0 /\ m_bit' \in 2 .. 5
        BY <1>2, <2>3, <3>1
      <4> QED
        BY <4>1, <4>2, Zenon
    <3>2. CASE m_bit = 5
      <4>1. pi_act' = FALSE
        BY <2>2, <3>2
      <4>2. ~(m_bit' \in 2 .. 5)
        BY <1>2, <3>2
      <4> QED
        BY <4>1, <4>2, Zenon
    <3>3. CASE m_bit # 1 /\ m_bit # 5
      <4>1. pi_act' = pi_act
        BY <2>2, <3>3
      <4>2. (Turn >= 0 /\ m_bit \in 2 .. 5) <=> (Turn' >= 0 /\ m_bit' \in 2 .. 5)
        BY <1>2, <1>3, <2>3, <3>3
      <4> QED
        BY <1>7, <2>3, <4>1, <4>2
    <3> QED
      BY <3>1, <3>2, <3>3
  <2>5. aout' = Address' /\ aout' \in 0 .. 3 * MaxBytes + 1
    BY <1>2, <1>3, <1>5, <1>6, <1>11, <2>2, <2>3
  <2>6. rd_buff' \in Pairs
    <3>1. m_bit = 5 => Serial!dati \in Pairs
      <4>1. m_bit = 5 => serial_dato \in Int
        BY <1>1, Transfer DEF SerialIInv, QueueGave
      <4>2. CASE Serial!ce_fifo(aout)
        BY <4>1, <4>2 DEF Serial!dati, Pairs
      <4>3. CASE ~Serial!ce_fifo(aout)
        BY <1>3, <1>7, <4>3 DEF Serial!dati, Pairs
      <4> QED
        BY <4>2, <4>3
    <3> QED
      BY <1>7, <2>2, <3>1
  <2>7. sout' \in Pairs \X Int
    BY <1>7, <2>2
  <2> QED
    <3>1. aout' \in 0 .. Serial!Other + MaxBytes + 1
      BY <1>3, <2>5
    <3>2. {dout', slot', rd_buff'} \subseteq Pairs /\ sout' \in Pairs \X Int
      BY <1>7, <1>8, <2>2, <2>6, <2>7
    <3>3. Begins' = 2 /\ op'.cmd = op.cmd /\ op'.n = op.n /\ Serial!Other' = Serial!Other
      BY <1>2, <2>3 DEF Serial!Other, Serial!BlockSize
    <3>4. ~wr_ok' /\ op.cmd # "write"
      BY <1>11, <2>2, <2>3
    <3> QED
      BY <2>4, <2>5, <3>1, <3>2, <3>3, <3>4 DEF SlaveAccess
<1> QED
  BY <1>2, <1>9, <1>10, <1>11

LEMMA BitCartridge ==
    ASSUME SerialIInv, Serial!Bit, since > 0
    PROVE  CartridgeGot'
<1>1. Place /\ SlaveAccess /\ CartridgeGot /\ QueueGave
  BY DEF SerialIInv
<1>2. /\ op.cmd \in {"write", "read"} /\ op.n > 0 /\ m_byte < 6 + op.n
      /\ op' = op /\ before' = before
      /\ m_bit < 7 => m_bit' = m_bit + 1 /\ m_byte' = m_byte /\ Turn' = Turn
      /\ m_bit = 7 => m_bit' = 0 /\ m_byte' = m_byte + 1 /\ Turn' = Turn + 1
      /\ \A k \in Int : Value(k)' = Value(k)
  BY BitPlaces
<1>3. /\ m_bit \in 0 .. 7 /\ Turn \in Int /\ op.n \in Nat /\ m_byte \in Nat
      /\ Serial!Header = 5 /\ Serial!AddressOf(op) \in Int
      /\ Turn = m_byte - 5 - (IF op.cmd = "write" THEN 1 ELSE 0)
      /\ Begins = (IF op.cmd = "write" THEN 1 ELSE 2) /\ Serial!Tags \in Nat /\ Serial!Tags > 0
  BY <1>1, Transfer
<1>4. /\ bit_ctr = m_bit /\ (exec <=> m_byte >= 5) /\ cmd = (IF m_byte = 0 THEN "none" ELSE op.cmd)
  BY <1>1, <1>3 DEF Place
<1>5. /\ op.cmd = "read" /\ Turn >= 0 /\ m_bit >= 6 => rd_buff = Value(Turn)
      /\ op.cmd = "read" /\ Turn > 0 => sout = <<Value(Turn - 1), m_bit>>
      /\ serial_got \in Seq(Pairs \X Int) /\ Len(serial_got) = m_bit
      /\ op.cmd = "read" /\ Turn > 0 =>
             \A k \in 1 .. m_bit : serial_got[k] = <<Value(Turn - 1), k - 1>>
      /\ received \in Seq(Pairs)
      /\ Len(received) = (IF op.cmd = "read" /\ Turn > 0 THEN Turn - 1 ELSE 0)
      /\ \A k \in 1 .. Len(received) : received[k] = Value(k - 1)
      /\ sout \in Pairs \X Int
  BY <1>1 DEF CartridgeGot, SlaveAccess
<1> DEFINE bits == Append(serial_got, sout)
<1>6. /\ bits \in Seq(Pairs \X Int) /\ Len(bits) = m_bit + 1
      /\ \A k \in 1 .. m_bit : bits[k] = serial_got[k]
      /\ bits[m_bit + 1] = sout
  <2>1. serial_got \in Seq(Pairs \X Int) /\ Len(serial_got) = m_bit /\ sout \in Pairs \X Int
    BY <1>5
  <2> QED
    BY <2>1, AppendProperties
<1>7. /\ m_bit < 7 => serial_got' = bits /\ received' = received
      /\ m_bit = 7 => serial_got' = << >>
      /\ m_bit = 7 => received' = IF op.cmd = "read" /\ m_byte > 5
                                  THEN Append(received, Serial!ByteOf(bits)) ELSE received
  BY <1>3 DEF Serial!Bit, Serial!MasterBit
<1> HIDE DEF bits
<1>8. serial_got' \in Seq(Pairs \X Int) /\ Len(serial_got') = m_bit'
  <2>1. CASE m_bit < 7
    BY <1>2, <1>6, <1>7, <2>1
  <2>2. CASE m_bit = 7
    <3>1. serial_got' = << >> /\ m_bit' = 0
      BY <1>2, <1>7, <2>2
    <3> QED
      BY <3>1, EmptySeq
  <2> QED
    BY <1>3, <2>1, <2>2
<1>9. op.cmd = "read" /\ Turn > 0 =>
          \A k \in 1 .. m_bit + 1 : bits[k] = <<Value(Turn - 1), k - 1>>
  <2> SUFFICES ASSUME op.cmd = "read" /\ Turn > 0, NEW k \in 1 .. m_bit + 1
               PROVE  bits[k] = <<Value(Turn - 1), k - 1>>
    OBVIOUS
  <2>1. CASE k \in 1 .. m_bit
    BY <1>5, <1>6, <2>1
  <2>2. CASE k = m_bit + 1
    <3>1. k - 1 = m_bit
      BY <1>3, <2>2
    <3> QED
      BY <1>5, <1>6, <2>2, <3>1
  <2> QED
    BY <1>3, <2>1, <2>2
<1>10. /\ received' \in Seq(Pairs)
       /\ Len(received') = (IF op.cmd = "read" /\ Turn' > 0 THEN Turn' - 1 ELSE 0)
       /\ \A k \in 1 .. Len(received') : received'[k] = Value(k - 1)
  <2>1. CASE m_bit < 7
    BY <1>2, <1>5, <1>7, <2>1
  <2>2. CASE m_bit = 7 /\ ~(op.cmd = "read" /\ m_byte > 5)
    <3>1. received' = received /\ Turn' = Turn + 1
      BY <1>2, <1>7, <2>2
    <3>2. \A t : t = Turn + 1 => Len(received) = (IF op.cmd = "read" /\ t > 0 THEN t - 1 ELSE 0)
      BY <1>3, <1>5, <2>2
    <3>3. Len(received') = (IF op.cmd = "read" /\ Turn' > 0 THEN Turn' - 1 ELSE 0)
      <4>1. Len(received) = (IF op.cmd = "read" /\ Turn' > 0 THEN Turn' - 1 ELSE 0)
        BY <3>1, <3>2
      <4> QED
        BY <3>1, <4>1
    <3>4. received' \in Seq(Pairs) /\ \A k \in 1 .. Len(received') : received'[k] = Value(k - 1)
      BY <1>5, <3>1
    <3> QED
      BY <3>3, <3>4
  <2>3. CASE m_bit = 7 /\ op.cmd = "read" /\ m_byte > 5
    <3>1. Turn > 0 /\ Turn' = Turn + 1 /\ Turn' > 0 /\ Turn \in Nat /\ Turn - 1 \in Int
      BY <1>2, <1>3, <2>3
    <3>2. PICK v \in Pairs : v = Value(Turn - 1)
      BY <1>5, <2>3, <3>1
    <3>3. \A k \in 1 .. 8 : bits[k] = <<v, k - 1>>
      BY <1>9, <2>3, <3>1, <3>2
    <3>4. bits[1] = <<v, 0>>
      BY <3>3
    <3>5. bits[1][1] = v
      BY <3>4
    <3>6. Serial!ByteOf(bits) = v
      BY <3>3, <3>5 DEF Serial!ByteOf
    <3>7. received' = Append(received, v)
      BY <1>7, <2>3, <3>6
    <3>8. /\ received' \in Seq(Pairs) /\ Len(received') = Len(received) + 1
          /\ \A k \in 1 .. Len(received) : received'[k] = received[k]
          /\ received'[Len(received) + 1] = v
      BY <1>5, <3>7
    <3>9. Len(received) = Turn - 1 /\ Len(received') = Turn
      BY <1>5, <2>3, <3>1, <3>8
    <3>10. \A k \in 1 .. Turn : received'[k] = Value(k - 1)
      <4> SUFFICES ASSUME NEW k \in 1 .. Turn PROVE received'[k] = Value(k - 1)
        OBVIOUS
      <4>1. CASE k <= Turn - 1
        BY <1>5, <3>1, <3>8, <3>9, <4>1
      <4>2. CASE k = Turn
        BY <3>1, <3>2, <3>8, <3>9, <4>2
      <4> QED
        BY <3>1, <4>1, <4>2
    <3> QED
      BY <2>3, <3>1, <3>8, <3>9, <3>10
  <2> QED
    BY <1>3, <2>1, <2>2, <2>3
<1>11. op.cmd = "read" /\ Turn' > 0 =>
           \A k \in 1 .. m_bit' : serial_got'[k] = <<Value(Turn' - 1), k - 1>>
  <2>1. CASE m_bit < 7
    BY <1>2, <1>7, <1>9, <2>1
  <2>2. CASE m_bit = 7
    BY <1>2, <2>2
  <2> QED
    BY <1>3, <2>1, <2>2
<1>12. /\ op.cmd = "read" /\ Turn' >= 0 /\ m_bit' >= 6 => rd_buff' = Value(Turn')
       /\ op.cmd = "read" /\ Turn' > 0 => sout' = <<Value(Turn' - 1), m_bit'>>
  <2> SUFFICES ASSUME op.cmd = "read", Turn' >= 0
               PROVE  /\ m_bit' >= 6 => rd_buff' = Value(Turn')
                      /\ Turn' > 0 => sout' = <<Value(Turn' - 1), m_bit'>>
    BY <1>2, <1>3
  <2>1. CASE ~exec
    <3>1. m_byte < 5 /\ Turn' = 0 /\ m_bit' = 0
      BY <1>2, <1>3, <1>4, <2>1
    <3> QED
      BY <3>1
  <2>2. CASE exec
    <3>1. Serial!ReadBit
      BY <1>3, <1>4, <2>2 DEF Serial!Bit, Serial!pi_we, Serial!pi_oe
    <3>2. /\ rd_buff' = (IF m_bit = 5 THEN Serial!dati ELSE rd_buff)
          /\ sout' = (IF m_bit = 7 THEN <<rd_buff, 0>> ELSE <<sout[1], sout[2] + 1>>)
      BY <1>4, <3>1 DEF Serial!ReadBit, Serial!Load
    <3>3. m_byte >= 5 /\ Turn = m_byte - 5 /\ Turn \in 0 .. op.n /\ Begins = 2
      BY <1>2, <1>3, <1>4, <2>2
    <3>4. m_bit = 5 => Serial!dati = Value(Turn)
      <4> SUFFICES ASSUME m_bit = 5 PROVE Serial!dati = Value(Turn)
        OBVIOUS
      <4>1. /\ pi_act /\ aout = Serial!AddressOf(op) + Turn
            /\ Serial!ce_fifo(aout) <=> op.where = "fifo" /\ Turn < op.n
        BY <1>1, <3>3, Levels
      <4>2. CASE op.where = "fifo" /\ Turn < op.n
        <5>1. Fetching
          BY <3>3, <1>3, <4>2 DEF Fetching
        <5>2. serial_dato = (before + (Turn + 0)) % Serial!Tags
          BY <1>1, <5>1 DEF QueueGave
        <5>3. before + (Turn + 0) = before + Turn
          BY <1>1, <1>3 DEF QueueGave
        <5> QED
          BY <4>1, <4>2, <5>2, <5>3 DEF Serial!dati, Value
      <4>3. CASE ~(op.where = "fifo" /\ Turn < op.n)
        BY <4>1, <4>3 DEF Serial!dati, Value
      <4> QED
        BY <4>2, <4>3
    <3>5. m_bit' >= 6 => rd_buff' = Value(Turn')
      <4>1. CASE m_bit = 5
        BY <1>2, <3>2, <3>4, <4>1
      <4>2. CASE m_bit # 5
        BY <1>2, <1>3, <1>5, <3>2, <3>3, <4>2
      <4> QED
        BY <4>1, <4>2
    <3>6. Turn' > 0 => sout' = <<Value(Turn' - 1), m_bit'>>
      <4>1. CASE m_bit = 7
        <5>1. rd_buff = Value(Turn) /\ Turn' = Turn + 1 /\ m_bit' = 0
          BY <1>2, <1>5, <3>3, <4>1
        <5>2. Turn' - 1 = Turn
          BY <1>3, <5>1
        <5> QED
          BY <3>2, <4>1, <5>1, <5>2
      <4>2. CASE m_bit < 7
        <5> SUFFICES ASSUME Turn > 0 PROVE sout' = <<Value(Turn - 1), m_bit + 1>>
          BY <1>2, <4>2
        <5>1. sout[1] = Value(Turn - 1) /\ sout[2] = m_bit
          BY <1>5
        <5> QED
          BY <3>2, <4>2, <5>1
      <4> QED
        BY <1>3, <4>1, <4>2
    <3> QED
      BY <3>5, <3>6
  <2> QED
    BY <2>1, <2>2
<1>13. Turn' \in Int /\ Turn' - 1 \in Int
  BY <1>2, <1>3
<1>14. Value(Turn)' = Value(Turn') /\ Value(Turn - 1)' = Value(Turn' - 1)
  BY <1>2 DEF Value, Serial!AddressOf, Serial!Tags
<1> QED
  BY <1>2, <1>8, <1>10, <1>11, <1>12, <1>14 DEF CartridgeGot

LEMMA TakenTag ==
    ASSUME Place, QueueGave
    PROVE  serial_taken \in 0 .. Serial!Tags - 1
<1>1. Serial!Tags \in Nat /\ Serial!Tags > 0 /\ op.n \in Nat /\ Turn \in Int
  BY Transfer
<1>2. PICK k \in Nat : serial_taken = (before + k) % Serial!Tags
  <2> DEFINE x == IF Fetching THEN Turn + (IF m_bit >= 6 /\ ~serial_oe_st[2] THEN 1 ELSE 0)
                  ELSE IF op.cmd = "read" /\ op.where = "fifo" /\ Turn >= 0 THEN op.n ELSE 0
  <2>1. x \in Nat
    <3>1. CASE Fetching
      <4>1. Turn \in Nat
        BY <1>1, <3>1 DEF Fetching
      <4> QED
        BY <3>1, <4>1
    <3>2. CASE ~Fetching
      BY <1>1, <3>2
    <3> QED
      BY <3>1, <3>2
  <2>2. serial_taken = (before + x) % Serial!Tags
    BY DEF QueueGave
  <2> HIDE DEF x
  <2> QED
    BY <2>1, <2>2
<1>3. before + k \in Nat
  BY <1>1 DEF QueueGave
<1> QED
  BY <1>1, <1>2, <1>3, Words

LEMMA SelectStep == SerialIInv /\ since > 0 /\ Serial!Select => SerialIInv'
<1> SUFFICES ASSUME SerialIInv, since > 0, Serial!Select PROVE SerialIInv'
  OBVIOUS
<1>1. Place /\ SlaveAccess /\ Samples /\ QueueGave
  BY DEF SerialIInv
<1>2. /\ since' = 0 /\ cmd' = "none" /\ sout' = <<Serial!Nothing, 0>> /\ bit_ctr' = 0 /\ byte_ctr' = 0
      /\ ~pi_act' /\ pi_act' \in BOOLEAN /\ ~wr_ok' /\ ~exec' /\ exec' \in BOOLEAN
      /\ op' \in Serial!Transfers /\ m_byte' = 0 /\ m_bit' = 0 /\ serial_got' = << >>
      /\ received' = << >> /\ written' = << >> /\ pushed' = << >> /\ before' = serial_taken
      /\ aout' = aout /\ dout' = dout /\ rd_buff' = rd_buff /\ sync_st' = sync_st
      /\ serial_we_st' = serial_we_st /\ serial_oe_st' = serial_oe_st /\ slot' = slot
      /\ serial_taken' = serial_taken
  BY DEF Serial!Select
<1>3. /\ op'.cmd \in {"write", "read"} /\ op'.n \in 1 .. MaxBytes /\ op' # Serial!NoTransfer
      /\ Serial!Header = 5 /\ Serial!Header' = 5 /\ Serial!Other' = Serial!Other
      /\ Serial!Tags' = Serial!Tags /\ Serial!Tags \in Nat /\ Serial!Tags > 0
  <2>1. op'.cmd \in {"write", "read"} /\ op'.n \in 1 .. MaxBytes /\ op' # Serial!NoTransfer
    BY <1>2 DEF Serial!Transfers, Serial!NoTransfer
  <2>2. Serial!Header' = 5 /\ Serial!Other' = Serial!Other /\ Serial!Tags' = Serial!Tags
    BY DEF Serial!Header, Serial!Other, Serial!BlockSize, Serial!Tags
  <2>3. Serial!Header = 5 /\ Serial!Tags \in Nat /\ Serial!Tags > 0
    BY <1>1, Transfer
  <2> QED
    BY <2>1, <2>2, <2>3
<1>4. /\ Turn' \in Int /\ Turn' < 0 /\ Begins' \in {1, 2}
      /\ Serial!LengthOf(op)' \in Nat /\ Serial!LengthOf(op)' > 5
  BY <1>2, <1>3 DEF Turn, Begins, Serial!LengthOf, Serial!Header
<1>5. m_bit = 0 /\ Begins \in {1, 2} /\ since \in Nat
  <2>1. op = Serial!NoTransfer \/ m_byte = Serial!LengthOf(op)
    BY DEF Serial!Select, Serial!idle
  <2> QED
    BY <1>1, <2>1, Transfer DEF Place
<1>6. Place'
  <2>1. op' \in Serial!Transfers \cup {Serial!NoTransfer}
    BY <1>2
  <2>2. Serial!Transfers' = Serial!Transfers /\ Serial!NoTransfer' = Serial!NoTransfer
    BY DEF Serial!Transfers, Serial!NoTransfer
  <2> QED
    BY <1>2, <1>3, <1>4, <2>1, <2>2 DEF Place
<1>7. SlaveAccess'
  <2>1. sout' \in Pairs \X Int
    BY <1>2 DEF Serial!Nothing, Pairs
  <2>2. {dout', slot', rd_buff'} \subseteq Pairs /\ aout' \in 0 .. Serial!Other' + MaxBytes + 1
    BY <1>1, <1>2, <1>3 DEF SlaveAccess
  <2>3. ~(m_byte' > Serial!Header')
    BY <1>2, <1>3
  <2>4. ~(Turn' >= 0) /\ ~(Turn' \in 0 .. op'.n - 1)
    BY <1>4
  <2> QED
    BY <1>2, <2>1, <2>2, <2>3, <2>4, Zenon DEF SlaveAccess
<1>8. Samples'
  <2>1. (Turn' >= 0) = FALSE /\ Writing' = FALSE /\ Fetching' = FALSE
    BY <1>4 DEF Writing, Fetching
  <2>2. /\ Follows(sync_st, Turn >= 0, Begins, m_bit, since)
        /\ Follows(serial_we_st, Writing, Begins, m_bit, since)
        /\ Follows(serial_oe_st, Fetching, Begins, m_bit, since)
    BY <1>1 DEF Samples
  <2>3. \A st, on : Follows(st, on, Begins, m_bit, since) =>
                        Follows(st, FALSE, Begins', 0, 0) /\ ~st[1] /\ ~st[2]
    BY <1>4, <1>5 DEF Follows
  <2>4. /\ Follows(sync_st, FALSE, Begins', 0, 0) /\ Follows(serial_we_st, FALSE, Begins', 0, 0)
        /\ Follows(serial_oe_st, FALSE, Begins', 0, 0) /\ ~serial_we_st[1] /\ ~serial_we_st[2]
    BY <2>2, <2>3
  <2> QED
    BY <1>2, <2>1, <2>4 DEF Samples
<1>9. RegistersGot' /\ QueueGot'
  <2>1. written' \in Seq(Int \X Pairs) /\ Len(written') = 0 /\ pushed' \in Seq(Pairs) /\ Len(pushed') = 0
    BY <1>2, EmptySeq
  <2>2. ~(Turn' >= 0) /\ ~Writing' /\ Pairs' = Pairs
    BY <1>4 DEF Writing, Pairs
  <2>3. 1 .. 0 = {}
    OBVIOUS
  <2>4. RegistersGot'
    BY <2>1, <2>2, <2>3 DEF RegistersGot
  <2>5. QueueGot'
    BY <2>1, <2>2, <2>3 DEF QueueGot
  <2> QED
    BY <2>4, <2>5
<1>10. QueueGave'
  <2>1. serial_taken \in 0 .. Serial!Tags - 1
    BY <1>1, TakenTag
  <2>2. (serial_taken + 0) % Serial!Tags = serial_taken
    <3>1. serial_taken + 0 = serial_taken /\ serial_taken \in 0 .. 2 * Serial!Tags - 1
      BY <1>3, <2>1
    <3> QED
      BY <1>3, <2>1, <3>1, LowWord
  <2>3. ~Fetching' /\ ~(Turn' >= 0)
    BY <1>4 DEF Fetching
  <2>4. ~(m_bit' \in 1 .. 5) /\ ~(since' > 0)
    BY <1>2
  <2>5. serial_taken' = (before' + 0) % Serial!Tags
    BY <1>2, <2>2
  <2> QED
    BY <1>2, <1>3, <2>1, <2>3, <2>4, <2>5 DEF QueueGave
<1>11. CartridgeGot'
  BY <1>2, <1>4, EmptySeq DEF CartridgeGot
<1> QED
  BY <1>6, <1>7, <1>8, <1>9, <1>10, <1>11 DEF SerialIInv

LEMMA InitSerial == Serial!Init => SerialIInv
<1> SUFFICES ASSUME Serial!Init PROVE SerialIInv
  OBVIOUS
<1>1. /\ cmd = "none" /\ bit_ctr = 0 /\ byte_ctr = 0 /\ ~exec /\ exec \in BOOLEAN /\ ~wr_ok
      /\ ~pi_act /\ pi_act \in BOOLEAN /\ aout = Serial!Other /\ dout = Serial!Nothing
      /\ rd_buff = Serial!Nothing /\ sout = <<Serial!Nothing, 0>> /\ slot = Serial!Nothing
      /\ serial_dato = 0 /\ since = 1 /\ op = Serial!NoTransfer /\ m_byte = 0 /\ m_bit = 0
      /\ serial_got = << >> /\ received = << >> /\ written = << >> /\ pushed = << >>
      /\ serial_taken = 0 /\ before = 0
  BY DEF Serial!Init
<1>2. Place
  BY <1>1 DEF Place, Serial!Header
<1>3. /\ op.cmd = "none" /\ Turn = -5 /\ Begins = 2 /\ MaxBytes \in Nat /\ MaxBytes > 0
      /\ Serial!Header = 5 /\ Serial!Other = 2 * MaxBytes /\ Serial!Tags = 4 * MaxBytes
  BY <1>1, <1>2, Transfer
<1>4. SlaveAccess
  <2>1. {dout, slot, rd_buff} \subseteq Pairs /\ sout \in Pairs \X Int
    BY <1>1 DEF Serial!Nothing, Pairs
  <2>2. aout \in 0 .. Serial!Other + MaxBytes + 1
    BY <1>1, <1>3
  <2> QED
    BY <1>1, <1>3, <2>1, <2>2 DEF SlaveAccess
<1>5. Samples
  <2>1. \A st, on : st = <<FALSE, FALSE>> => Follows(st, on, 2, 0, 1) /\ ~st[1] /\ ~st[2]
    <3> SUFFICES ASSUME NEW st, NEW on, st = <<FALSE, FALSE>>
                 PROVE  Follows(st, on, 2, 0, 1) /\ ~st[1] /\ ~st[2]
      OBVIOUS
    <3>1. st \in BOOLEAN \X BOOLEAN /\ st[1] = FALSE /\ st[2] = FALSE
      OBVIOUS
    <3>2. ~st[1] /\ ~st[2]
      BY <3>1, Zenon
    <3> QED
      BY <3>1, <3>2 DEF Follows
  <2>2. sync_st = <<FALSE, FALSE>> /\ serial_we_st = <<FALSE, FALSE>> /\ serial_oe_st = <<FALSE, FALSE>>
    BY DEF Serial!Init
  <2>3. /\ Follows(sync_st, Turn >= 0, 2, 0, 1) /\ Follows(serial_we_st, Writing, 2, 0, 1)
        /\ Follows(serial_oe_st, Fetching, 2, 0, 1)
        /\ ~serial_we_st[1] /\ ~serial_we_st[2]
    BY <2>1, <2>2
  <2> QED
    BY <1>1, <1>3, <2>3 DEF Samples
<1>6. RegistersGot /\ QueueGot /\ CartridgeGot
  BY <1>1, <1>3, EmptySeq DEF RegistersGot, QueueGot, CartridgeGot, Writing
<1>7. QueueGave
  <2>1. 0 \in 0 .. 2 * Serial!Tags - 1 /\ Serial!Tags \in Nat /\ Serial!Tags > 0
    BY <1>3
  <2>2. 0 % Serial!Tags = 0
    BY <2>1, LowWord
  <2> QED
    BY <1>1, <1>3, <2>1, <2>2 DEF QueueGave, Fetching
<1> QED
  BY <1>2, <1>4, <1>5, <1>6, <1>7 DEF SerialIInv

LEMMA NextSerial == SerialIInv /\ [Serial!Next]_serialVars => SerialIInv'
<1>1. ASSUME SerialIInv, since > 0, Serial!Bit PROVE SerialIInv'
  BY <1>1, BitPlaces, BitSamples, BitAccess, BitCartridge DEF SerialIInv
<1>2. ASSUME SerialIInv, UNCHANGED serialVars PROVE SerialIInv'
  <2>1. /\ UNCHANGED <<cmd, bit_ctr, byte_ctr, exec, wr_ok, pi_act, aout, dout, rd_buff, sout>>
        /\ UNCHANGED <<sync_st, serial_we_st, serial_oe_st, slot, serial_dato, since>>
        /\ UNCHANGED <<op, m_byte, m_bit, serial_got, received, written, pushed, serial_taken, before>>
    BY <1>2 DEF serialVars
  <2>2. UNCHANGED <<Turn, Begins, Address, Writing, Fetching>>
    BY <2>1 DEF Turn, Begins, Address, Writing, Fetching, Serial!AddressOf
  <2>3. Place' /\ SlaveAccess' /\ Samples'
    BY <1>2, <2>1, <2>2 DEF SerialIInv, Place, SlaveAccess, Samples, Serial!LengthOf
  <2>4. RegistersGot' /\ QueueGot' /\ QueueGave'
    BY <1>2, <2>1, <2>2 DEF SerialIInv, RegistersGot, QueueGot, QueueGave, Serial!Other,
           Serial!BlockSize, Serial!Tags
  <2>5. CartridgeGot'
    <3>1. Value(Turn)' = Value(Turn) /\ Value(Turn - 1)' = Value(Turn - 1)
      BY <2>1, <2>2 DEF Value, Serial!AddressOf
    <3>2. \A k \in 1 .. Len(received) : Value(k - 1)' = Value(k - 1)
      BY <2>1 DEF Value, Serial!AddressOf
    <3> QED
      BY <1>2, <2>1, <2>2, <3>1, <3>2 DEF SerialIInv, CartridgeGot
  <2> QED
    BY <2>3, <2>4, <2>5 DEF SerialIInv
<1> QED
  BY <1>1, <1>2, ClockStep, SelectStep DEF Serial!Next

LEMMA SerialKept == SerialIInv => TransfersWhole
<1> SUFFICES ASSUME SerialIInv PROVE TransfersWhole
  OBVIOUS
<1>1. Place /\ SlaveAccess /\ Samples /\ RegistersGot /\ QueueGot /\ QueueGave /\ CartridgeGot
  BY DEF SerialIInv
<1>2. /\ MaxBytes \in Nat /\ MaxBytes > 0
      /\ Serial!Header = 5 /\ Serial!Other = 2 * MaxBytes /\ Serial!Tags \in Nat /\ Serial!Tags > 0
      /\ op.cmd \in {"write", "read", "none"} /\ op.where \in {"fifo", "other"}
      /\ op.n \in 0 .. MaxBytes /\ (op.cmd # "none" => op.n > 0)
      /\ Serial!AddressOf(op) = (IF op.where = "fifo" THEN MaxBytes - op.n ELSE 2 * MaxBytes)
      /\ m_byte \in 0 .. 6 + op.n /\ m_bit \in 0 .. 7 /\ Serial!LengthOf(op) = 6 + op.n
      /\ Turn = m_byte - 5 - (IF op.cmd = "write" THEN 1 ELSE 0) /\ Turn \in Int
      /\ op = Serial!NoTransfer <=> op.cmd = "none"
      /\ m_byte = 6 + op.n => m_bit = 0
  BY <1>1, Transfer
<1>3. Serial!TypeOK
  <2>1. /\ bit_ctr = m_bit /\ (exec <=> m_byte >= 5) /\ exec \in BOOLEAN
        /\ byte_ctr = (IF exec THEN 5 ELSE m_byte)
        /\ cmd = (IF m_byte = 0 THEN "none" ELSE op.cmd)
    BY <1>1, <1>2 DEF Place
  <2>2. bit_ctr \in 0 .. 7 /\ byte_ctr \in 0 .. 5 /\ (exec <=> byte_ctr = 5) /\ cmd \in {"none", "write", "read"}
    BY <1>2, <2>1
  <2>3. serial_taken \in 0 .. Serial!Tags - 1
    BY <1>1, TakenTag
  <2> QED
    BY <1>1, <1>2, <2>1, <2>2, <2>3 DEF Serial!TypeOK, SlaveAccess
<1>4. ASSUME Serial!idle, op.cmd # "none"
      PROVE  m_bit = 0 /\ Turn = op.n + (IF op.cmd = "read" THEN 1 ELSE 0)
  BY <1>2, <1>4 DEF Serial!idle
<1>5. Serial!WritesOnce
  <2> SUFFICES ASSUME Serial!idle, op.cmd = "write"
               PROVE  IF op.where = "fifo" THEN pushed = Serial!Data(op.n) /\ written = << >>
                      ELSE /\ written = [k \in 1 .. op.n |-> <<Serial!Other + k - 1, <<"data", k - 1>>>>]
                           /\ pushed = << >>
    BY DEF Serial!WritesOnce
  <2>1. m_bit = 0 /\ Turn = op.n /\ Turn \in Nat
    BY <1>2, <1>4
  <2>2. CASE op.where = "fifo"
    <3>1. Len(pushed) = op.n /\ Len(written) = 0
      BY <1>1, <2>1, <2>2 DEF QueueGot, RegistersGot, Writing
    <3>2. pushed = [k \in 1 .. op.n |-> pushed[k]]
      BY <1>1, <3>1 DEF QueueGot
    <3>3. written = << >>
      BY <1>1, <3>1, EmptySeq DEF RegistersGot
    <3>4. \A k \in 1 .. op.n : pushed[k] = <<"data", k - 1>>
      BY <1>1, <3>1 DEF QueueGot
    <3> QED
      BY <2>2, <3>2, <3>3, <3>4 DEF Serial!Data
  <2>3. CASE op.where # "fifo"
    <3>1. Len(written) = op.n /\ Len(pushed) = 0
      <4>1. ~sync_st[2]
        BY <1>1, <2>1, Transfer DEF Samples, Follows
      <4> QED
        BY <1>1, <1>2, <2>1, <2>3, <4>1 DEF QueueGot, RegistersGot, Writing
    <3>2. written = [k \in 1 .. op.n |-> written[k]]
      BY <1>1, <3>1 DEF RegistersGot
    <3>3. pushed = << >>
      BY <1>1, <3>1, EmptySeq DEF QueueGot
    <3>4. \A k \in 1 .. op.n : written[k] = <<Serial!Other + k - 1, <<"data", k - 1>>>>
      BY <1>1, <3>1 DEF RegistersGot
    <3> QED
      BY <2>3, <3>2, <3>3, <3>4
  <2> QED
    BY <2>2, <2>3
<1>6. Serial!ReadsInOrder
  <2> SUFFICES ASSUME Serial!idle, op.cmd = "read"
               PROVE  received = [k \in 1 .. op.n |->
                          IF op.where = "fifo" THEN <<"fifo", (before + k - 1) % Serial!Tags>>
                          ELSE <<"other", Serial!Other + k - 1>>]
    BY DEF Serial!ReadsInOrder
  <2>1. Turn = op.n + 1
    BY <1>4
  <2>2. Len(received) = op.n
    BY <1>1, <1>2, <2>1 DEF CartridgeGot
  <2>3. received = [k \in 1 .. op.n |-> received[k]]
    BY <1>1, <2>2 DEF CartridgeGot
  <2>4. ASSUME NEW k \in 1 .. op.n
        PROVE  received[k] = IF op.where = "fifo" THEN <<"fifo", (before + k - 1) % Serial!Tags>>
                             ELSE <<"other", Serial!Other + k - 1>>
    <3>1. received[k] = Value(k - 1)
      BY <1>1, <2>2 DEF CartridgeGot
    <3>2. before + (k - 1) = before + k - 1 /\ k - 1 < op.n /\ Serial!Other + (k - 1) = Serial!Other + k - 1
      BY <1>1, <1>2 DEF QueueGave
    <3>3. op.where # "fifo" => Serial!AddressOf(op) = Serial!Other
      BY <1>2
    <3> QED
      BY <3>1, <3>2, <3>3 DEF Value
  <2> QED
    BY <2>3, <2>4
<1>7. Serial!NothingLost
  <2> SUFFICES ASSUME Serial!idle
               PROVE  serial_taken = IF op.cmd = "read" /\ op.where = "fifo"
                                     THEN (before + op.n) % Serial!Tags ELSE before
    BY DEF Serial!NothingLost
  <2>1. CASE op.cmd = "read" /\ op.where = "fifo"
    <3>1. Turn = op.n + 1
      BY <1>4, <2>1
    <3>2. ~Fetching /\ Turn >= 0
      BY <1>2, <3>1 DEF Fetching
    <3> QED
      BY <1>1, <2>1, <3>2 DEF QueueGave
  <2>2. CASE ~(op.cmd = "read" /\ op.where = "fifo")
    <3>1. serial_taken = (before + 0) % Serial!Tags /\ before \in 0 .. Serial!Tags - 1
      BY <1>1, <2>2 DEF QueueGave, Fetching
    <3>2. before + 0 = before /\ before \in 0 .. 2 * Serial!Tags - 1
      BY <1>2, <3>1
    <3>3. before % Serial!Tags = before
      BY <1>2, <3>1, <3>2, LowWord
    <3> QED
      BY <2>2, <3>1, <3>2, <3>3
  <2> QED
    BY <2>1, <2>2
<1> QED
  BY <1>3, <1>5, <1>6, <1>7 DEF TransfersWhole
-----------------------------------------------------------------------------
(***************************************************************************)
(* The line of the messages.  First what the operators of sequences do to  *)
(* sequences of any length: induction, for a property that is a set of     *)
(* numbers, and functions that are defined by recursion.                   *)
(***************************************************************************)
\* A set of numbers that is not empty has a least one.
LEMMA Least ==
    ASSUME NEW T \in SUBSET Nat, T # {}
    PROVE  \E n \in T : \A m \in T : n <= m
<1>1. PICK n \in T : \A m \in T : ~ (<<m, n>> \in OpToRel(<, Nat))
  BY NatLessThanWellFounded, WFMin
<1>2. \A m \in T : ~(m < n)
  BY <1>1 DEF OpToRel
<1>3. n \in Nat /\ \A m \in T : m \in Nat
  OBVIOUS
<1> QED
  BY ONLY <1>2, <1>3

LEMMA Induction ==
    ASSUME NEW S, 0 \in S, \A n \in Nat : n \in S => n + 1 \in S
    PROVE  Nat \subseteq S
<1> SUFFICES ASSUME Nat \ S # {} PROVE FALSE
  OBVIOUS
<1>1. PICK n \in Nat \ S : \A m \in Nat \ S : n <= m
  BY Least
<1>2. n # 0 /\ n - 1 \in Nat /\ n - 1 \notin Nat \ S
  BY <1>1
<1> QED
  BY <1>1, <1>2

\* What is made one after the other, each from the one before.
Makes(h, n, A) == \A k \in 1 .. n : \A x \in A : h[<<k, x>>] \in A
Made(h, n, A, a) == \E f \in [0 .. n -> A] : f[0] = a /\ \A k \in 1 .. n : f[k] = h[<<k, f[k - 1]>>]

LEMMA Recursion ==
    ASSUME NEW A, NEW a \in A, NEW n \in Nat, NEW h, Makes(h, n, A)
    PROVE  Made(h, n, A, a)
<1> DEFINE S == {m \in Nat : m <= n =>
                     \E f \in [0 .. m -> A] : f[0] = a /\ \A k \in 1 .. m : f[k] = h[<<k, f[k - 1]>>]}
<1>1. 0 \in S
  <2> DEFINE z == [k \in 0 .. 0 |-> a]
  <2>1. z \in [0 .. 0 -> A] /\ z[0] = a
    OBVIOUS
  <2>2. \A k \in 1 .. 0 : z[k] = h[<<k, z[k - 1]>>]
    OBVIOUS
  <2> HIDE DEF z
  <2>3. \E f \in [0 .. 0 -> A] : f[0] = a /\ \A k \in 1 .. 0 : f[k] = h[<<k, f[k - 1]>>]
    BY <2>1, <2>2
  <2> QED
    BY <2>3
<1>2. ASSUME NEW m \in Nat, m \in S PROVE m + 1 \in S
  <2> SUFFICES ASSUME m + 1 <= n
               PROVE  \E f \in [0 .. m + 1 -> A] :
                          f[0] = a /\ \A k \in 1 .. m + 1 : f[k] = h[<<k, f[k - 1]>>]
    OBVIOUS
  <2>1. PICK f \in [0 .. m -> A] : f[0] = a /\ \A k \in 1 .. m : f[k] = h[<<k, f[k - 1]>>]
    BY <1>2
  <2> DEFINE g == [k \in 0 .. m + 1 |-> IF k <= m THEN f[k] ELSE h[<<m + 1, f[m]>>]]
  <2>2. g \in [0 .. m + 1 -> A]
    <3>1. m + 1 \in 1 .. n /\ f[m] \in A
      BY <2>1
    <3>2. h[<<m + 1, f[m]>>] \in A
      BY <3>1 DEF Makes
    <3> QED
      BY <2>1, <3>2
  <2>3. g[0] = a
    BY <2>1
  <2>4. ASSUME NEW k \in 1 .. m + 1 PROVE g[k] = h[<<k, g[k - 1]>>]
    <3>1. k - 1 \in 0 .. m /\ g[k - 1] = f[k - 1]
      BY <2>1
    <3>2. CASE k <= m
      BY <2>1, <3>1, <3>2
    <3>3. CASE k = m + 1
      <4>1. g[k - 1] = f[m] /\ k \in 0 .. m + 1 /\ ~(k <= m)
        BY <3>1, <3>3
      <4> QED
        BY <3>3, <4>1
    <3> QED
      BY <3>2, <3>3
  <2> HIDE DEF g
  <2> QED
    BY <2>2, <2>3, <2>4
<1>3. n \in S
  <2> HIDE DEF S
  <2> QED
    BY <1>1, <1>2, Induction
<1> QED
  BY <1>3 DEF Made

\* Two that are made alike are the same.
Alike(f, g, n) == f[0] = g[0] /\ \A k \in 1 .. n : f[k - 1] = g[k - 1] => f[k] = g[k]

LEMMA MadeAlike ==
    ASSUME NEW n \in Nat, NEW f, NEW g, Alike(f, g, n)
    PROVE  f[n] = g[n]
<1> DEFINE S == {m \in Nat : m <= n => f[m] = g[m]}
<1>1. 0 \in S
  BY DEF Alike
<1>2. ASSUME NEW m \in Nat, m \in S PROVE m + 1 \in S
  <2> SUFFICES ASSUME m + 1 <= n PROVE f[m + 1] = g[m + 1]
    OBVIOUS
  <2>1. m + 1 \in 1 .. n /\ (m + 1) - 1 = m /\ f[m] = g[m]
    BY <1>2
  <2> QED
    BY <2>1 DEF Alike
<1>3. n \in S
  <2> HIDE DEF S
  <2> QED
    BY <1>1, <1>2, Induction
<1> QED
  BY <1>3

\* Sequences put one behind the other, and what they are together.
Together(ss, f) == f[0] = << >> /\ \A k \in 1 .. Len(ss) : f[k] = f[k - 1] \o ss[k]

LEMMA TogetherExists ==
    ASSUME NEW A, NEW ss \in Seq(Seq(A))
    PROVE  \E f \in [0 .. Len(ss) -> Seq(A)] : Together(ss, f)
<1> DEFINE h == [t \in (1 .. Len(ss)) \X Seq(A) |-> t[2] \o ss[t[1]]]
<1>1. ASSUME NEW k \in 1 .. Len(ss), NEW x \in Seq(A) PROVE h[<<k, x>>] = x \o ss[k] /\ h[<<k, x>>] \in Seq(A)
  <2>1. ss[k] \in Seq(A)
    OBVIOUS
  <2>2. x \o ss[k] \in Seq(A)
    BY <2>1
  <2>3. <<k, x>> \in (1 .. Len(ss)) \X Seq(A)
    OBVIOUS
  <2> QED
    BY <2>2, <2>3
<1> HIDE DEF h
<1>2. << >> \in Seq(A) /\ Len(ss) \in Nat
  OBVIOUS
<1>3. PICK f \in [0 .. Len(ss) -> Seq(A)] :
          f[0] = << >> /\ \A k \in 1 .. Len(ss) : f[k] = h[<<k, f[k - 1]>>]
  <2> DEFINE B == Seq(A)
             e == << >>
             n == Len(ss)
  <2>1. e \in B /\ n \in Nat /\ Makes(h, n, B)
    BY <1>1, <1>2 DEF Makes
  <2> HIDE DEF B, e, n
  <2>2. Made(h, n, B, e)
    BY ONLY <2>1, Recursion
  <2> QED
    BY <2>2 DEF B, e, n, Made
<1>4. ASSUME NEW k \in 1 .. Len(ss) PROVE f[k] = f[k - 1] \o ss[k]
  <2>1. f[k - 1] \in Seq(A)
    OBVIOUS
  <2> QED
    BY <1>1, <1>3, <2>1
<1> QED
  BY <1>3, <1>4 DEF Together

LEMMA Flat ==
    ASSUME NEW A, NEW ss \in Seq(Seq(A)), NEW f, Together(ss, f)
    PROVE  Messages!FlattenSeq(ss) = f[Len(ss)]
<1> DEFINE n == Len(ss)
           Out(g) == [k \in 1 .. n |-> IF k = 1 THEN ss[k] ELSE g[k - 1] \o ss[k]]
           t == CHOOSE g : g = Out(g)
<1>1. n \in Nat
  OBVIOUS
<1>2. CASE n = 0
  <2>1. ss = << >>
    BY <1>2
  <2> QED
    BY <1>2, <2>1 DEF Together, Messages!FlattenSeq
<1>3. CASE n # 0
  <2>1. Messages!FlattenSeq(ss) = t[n]
    BY <1>3, Zenon DEF Messages!FlattenSeq
  <2>2. PICK e \in [0 .. n -> Seq(A)] : Together(ss, e)
    BY TogetherExists
  <2> DEFINE g == [k \in 1 .. n |-> e[k]]
  <2>3. g = Out(g)
    <3> SUFFICES ASSUME NEW k \in 1 .. n PROVE e[k] = IF k = 1 THEN ss[k] ELSE g[k - 1] \o ss[k]
      OBVIOUS
    <3>1. e[k] = e[k - 1] \o ss[k]
      BY <2>2 DEF Together
    <3>2. CASE k = 1
      <4>1. e[k - 1] = << >> /\ ss[k] \in Seq(A)
        BY <2>2, <3>2 DEF Together
      <4> QED
        BY <3>1, <3>2, <4>1
    <3>3. CASE k # 1
      <4>1. g[k - 1] = e[k - 1]
        BY <3>3
      <4> QED
        BY ONLY <3>1, <3>3, <4>1
    <3> QED
      BY <3>2, <3>3
  <2> HIDE DEF g
  <2>4. t = Out(t)
    BY <2>3
  <2> HIDE DEF t
  <2> DEFINE u == [k \in 0 .. n |-> IF k = 0 THEN << >> ELSE t[k]]
  <2>5. ASSUME NEW k \in 1 .. n, f[k - 1] = u[k - 1] PROVE f[k] = u[k]
    <3>1. f[k] = f[k - 1] \o ss[k]
      BY DEF Together
    <3>2. t[k] = IF k = 1 THEN ss[k] ELSE t[k - 1] \o ss[k]
      BY <2>4
    <3>3. CASE k = 1
      <4>1. f[k - 1] = << >> /\ ss[k] \in Seq(A)
        BY <3>3 DEF Together
      <4> QED
        BY <3>1, <3>2, <3>3, <4>1
    <3>4. CASE k # 1
      <4>1. u[k - 1] = t[k - 1] /\ u[k] = t[k]
        BY <1>1, <3>4
      <4> QED
        BY ONLY <2>5, <3>1, <3>2, <3>4, <4>1
    <3> QED
      BY <3>3, <3>4
  <2>6. f[0] = u[0]
    BY <1>1 DEF Together
  <2>7. u[n] = t[n]
    BY <1>1, <1>3
  <2> HIDE DEF u, n
  <2>8. f[n] = u[n]
    <3>1. Alike(f, u, n)
      BY <2>5, <2>6 DEF Alike
    <3> QED
      BY <1>1, <3>1, MadeAlike
  <2> QED
    BY <2>1, <2>7, <2>8 DEF n
<1> QED
  BY <1>2, <1>3

LEMMA FlatType ==
    ASSUME NEW A, NEW ss \in Seq(Seq(A))
    PROVE  Messages!FlattenSeq(ss) \in Seq(A)
<1>1. PICK f \in [0 .. Len(ss) -> Seq(A)] : Together(ss, f)
  BY TogetherExists
<1>2. Messages!FlattenSeq(ss) = f[Len(ss)]
  BY <1>1, Flat
<1> QED
  BY <1>1, <1>2

Associate(s1, s2, s3) == (s1 \o s2) \o s3 = s1 \o (s2 \o s3)

LEMMA Associates ==
    ASSUME NEW S, NEW s1 \in Seq(S), NEW s2 \in Seq(S), NEW s3 \in Seq(S)
    PROVE  Associate(s1, s2, s3)
BY ConcatAssociative DEF Associate

LEMMA FlatConcat ==
    ASSUME NEW A, NEW ss \in Seq(Seq(A)), NEW tt \in Seq(Seq(A))
    PROVE  Messages!FlattenSeq(ss \o tt) = Messages!FlattenSeq(ss) \o Messages!FlattenSeq(tt)
<1>1. PICK f \in [0 .. Len(ss) -> Seq(A)] : Together(ss, f)
  BY TogetherExists
<1>2. PICK g \in [0 .. Len(tt) -> Seq(A)] : Together(tt, g)
  BY TogetherExists
<1> DEFINE m == Len(ss)
           n == Len(tt)
           all == ss \o tt
           h == [k \in 0 .. m + n |-> IF k <= m THEN f[k] ELSE f[m] \o g[k - m]]
<1>3. m \in Nat /\ n \in Nat /\ all \in Seq(Seq(A)) /\ Len(all) = m + n
      /\ \A k \in 1 .. m + n : all[k] = IF k <= m THEN ss[k] ELSE tt[k - m]
  OBVIOUS
<1>4. Messages!FlattenSeq(ss) = f[m] /\ Messages!FlattenSeq(tt) = g[n]
  BY <1>1, <1>2, Flat
<1>5. f[m] \in Seq(A) /\ g[0] = << >> /\ f[0] = << >>
  BY <1>1, <1>2, <1>3 DEF Together
<1>6. ASSUME NEW k \in 1 .. m + n PROVE h[k] = h[k - 1] \o all[k]
  <2>1. CASE k <= m
    <3>0. k \in 1 .. Len(ss)
      BY <1>3, <2>1
    <3>1. f[k] = f[k - 1] \o ss[k]
      BY <1>1, <3>0 DEF Together
    <3>2. h[k] = f[k] /\ h[k - 1] = f[k - 1] /\ all[k] = ss[k]
      BY <1>3, <2>1
    <3> QED
      BY <3>1, <3>2
  <2>2. CASE k > m
    <3>1. k - m \in 1 .. n /\ (k - m) - 1 \in 0 .. n /\ (k - 1) - m = (k - m) - 1
      BY <1>3, <2>2
    <3>2. g[k - m] = g[(k - m) - 1] \o tt[k - m]
      BY <1>2, <3>1 DEF Together
    <3>3. h[k] = f[m] \o g[k - m] /\ all[k] = tt[k - m]
      <4>1. k \in 0 .. m + n /\ ~(k <= m)
        BY ONLY <1>3, <2>2, k \in 1 .. m + n
      <4>2. h[k] = f[m] \o g[k - m]
        BY <4>1
      <4>3. all[k] = IF k <= m THEN ss[k] ELSE tt[k - m]
        BY ONLY <1>3, k \in 1 .. m + n
      <4> QED
        BY ONLY <4>1, <4>2, <4>3
    <3>4. h[k - 1] = f[m] \o g[(k - m) - 1]
      <4>1. CASE k - 1 = m
        <5>1. (k - m) - 1 = 0 /\ h[k - 1] = f[m]
          BY <1>3, <4>1
        <5>2. f[m] \o << >> = f[m]
          BY <1>5
        <5> QED
          BY <1>5, <5>1, <5>2
      <4>2. CASE k - 1 # m
        <5>1. k - 1 \in 0 .. m + n /\ ~(k - 1 <= m)
          BY <1>3, <2>2, <4>2
        <5>2. h[k - 1] = f[m] \o g[(k - 1) - m]
          BY <5>1
        <5> QED
          BY ONLY <3>1, <5>2
      <4> QED
        BY <4>1, <4>2
    <3>5. g[(k - m) - 1] \in Seq(A) /\ tt[k - m] \in Seq(A)
      <4>1. \A e \in 0 .. n : g[e] \in Seq(A)
        BY <1>2
      <4>2. \A e \in 1 .. n : tt[e] \in Seq(A)
        OBVIOUS
      <4> QED
        BY ONLY <3>1, <4>1, <4>2
    <3> HIDE DEF h, all
    <3>6. (f[m] \o g[(k - m) - 1]) \o tt[k - m] = f[m] \o (g[(k - m) - 1] \o tt[k - m])
      <4>1. f[m] \in Seq(A) /\ g[(k - m) - 1] \in Seq(A) /\ tt[k - m] \in Seq(A)
        BY ONLY <1>5, <3>5
      <4>3. PICK a, b, d : a = f[m] /\ b = g[(k - m) - 1] /\ d = tt[k - m]
        OBVIOUS
      <4>4. a \in Seq(A) /\ b \in Seq(A) /\ d \in Seq(A)
        BY ONLY <4>1, <4>3
      <4>5. (a \o b) \o d = a \o (b \o d)
        <5>1. Associate(a, b, d)
          BY ONLY <4>4, Associates, Zenon
        <5> QED
          BY ONLY <5>1 DEF Associate
      <4> QED
        BY ONLY <4>3, <4>5, Zenon
    <3> QED
      BY <3>2, <3>3, <3>4, <3>6
  <2>3. k \in Int /\ m \in Int
    BY <1>3
  <2>4. k <= m \/ k > m
    BY ONLY <2>3
  <2> HIDE DEF h, all, m, n
  <2> QED
    BY <2>1, <2>2, <2>4, Zenon
<1>7. h[0] = << >>
  BY <1>3, <1>5
<1>8. h[m + n] = f[m] \o g[n]
  <2>1. CASE n = 0
    <3>1. f[m] \o << >> = f[m]
      BY <1>5
    <3> QED
      BY <1>3, <1>5, <2>1, <3>1
  <2>2. CASE n # 0
    BY <1>3, <2>2
  <2> QED
    BY <2>1, <2>2
<1>9. Together(all, h)
  <2> HIDE DEF h, all
  <2> QED
    BY <1>3, <1>6, <1>7 DEF Together
<1> HIDE DEF h, all
<1>10. Messages!FlattenSeq(all) = h[m + n]
  BY <1>3, <1>9, Flat
<1> QED
  BY <1>4, <1>8, <1>10 DEF all

LEMMA FlatOne ==
    ASSUME NEW A, NEW s \in Seq(A)
    PROVE  Messages!FlattenSeq(<<s>>) = s
<1> DEFINE f == [k \in 0 .. 1 |-> IF k = 0 THEN << >> ELSE s]
<1>1. << >> \o s = s
  OBVIOUS
<1>2. Together(<<s>>, f)
  BY <1>1 DEF Together
<1>3. <<s>> \in Seq(Seq(A)) /\ Len(<<s>>) = 1
  OBVIOUS
<1>4. Messages!FlattenSeq(<<s>>) = f[1]
  <2> HIDE DEF f
  <2> QED
    BY <1>2, <1>3, Flat
<1> QED
  BY <1>4

LEMMA FlatNone == Messages!FlattenSeq(<< >>) = << >>
BY DEF Messages!FlattenSeq

(***************************************************************************)
(* Numerals.                                                               *)
(***************************************************************************)
Bases == {10, 16}

LEMMA Division ==
    ASSUME NEW b \in Bases, NEW x \in Nat
    PROVE  /\ b \in Nat /\ b > 1
           /\ x \div b \in Nat /\ x % b \in Nat /\ x % b < b
           /\ x < b => x \div b = 0 /\ x % b = x
           /\ x >= b => x \div b # 0 /\ x \div b < x
           /\ x \div b = 0 => x % b = x
           /\ x \div b <= x
<1>1. CASE b = 10
  BY <1>1
<1>2. CASE b = 16
  BY <1>2
<1> QED
  BY <1>1, <1>2 DEF Bases

DividedFrom(d, x, b, n) ==
    d \in [0 .. n -> Nat] /\ d[0] = x /\ \A k \in 1 .. n : d[k] = d[k - 1] \div b

LEMMA DividedAs ==
    ASSUME NEW b \in Bases, NEW x \in Nat, NEW n \in Nat
    PROVE  DividedFrom(Messages!Divided(x, b, n), x, b, n)
<1> DEFINE Out(f) == [k \in 0 .. n |-> IF k = 0 THEN x ELSE f[k - 1] \div b]
           d == CHOOSE f : f = Out(f)
           h == [t \in (1 .. n) \X Nat |-> t[2] \div b]
<1>1. ASSUME NEW k \in 1 .. n, NEW y \in Nat PROVE h[<<k, y>>] = y \div b /\ h[<<k, y>>] \in Nat
  <2>1. y \div b \in Nat
    BY Division
  <2>2. <<k, y>> \in (1 .. n) \X Nat
    OBVIOUS
  <2> QED
    BY <2>1, <2>2
<1> HIDE DEF h
<1>2. Made(h, n, Nat, x)
  <2>1. Makes(h, n, Nat)
    BY <1>1 DEF Makes
  <2> QED
    BY <2>1, Recursion
<1>3. PICK f \in [0 .. n -> Nat] : f[0] = x /\ \A k \in 1 .. n : f[k] = h[<<k, f[k - 1]>>]
  BY <1>2 DEF Made
<1>4. ASSUME NEW k \in 1 .. n PROVE f[k] = f[k - 1] \div b
  <2>1. k - 1 \in 0 .. n
    OBVIOUS
  <2>2. f[k - 1] \in Nat
    BY <2>1
  <2> QED
    BY <1>1, <1>3, <2>2
<1>5. f = Out(f)
  BY <1>3, <1>4
<1>6. d = Out(d)
  BY <1>5
<1>7. Messages!Divided(x, b, n) = d
  BY DEF Messages!Divided
<1> HIDE DEF d
<1>8. d[0] = x /\ \A k \in 1 .. n : d[k] = d[k - 1] \div b
  BY <1>6
<1>9. d = [k \in 0 .. n |-> d[k]]
  BY <1>6
<1>10. \A k \in 0 .. n : d[k] = f[k]
  <2> TAKE k \in 0 .. n
  <2>1. Alike(d, f, k)
    BY <1>3, <1>4, <1>8 DEF Alike
  <2> QED
    BY <2>1, MadeAlike
<1> QED
  BY <1>7, <1>8, <1>9, <1>10 DEF DividedFrom

LEMMA DividedFirst ==
    ASSUME NEW b \in Bases, NEW x \in Nat, NEW n \in Nat, NEW k \in 0 .. n - 1
    PROVE  Messages!Divided(x \div b, b, n)[k] = Messages!Divided(x, b, n)[k + 1]
<1>1. PICK y : y = x \div b /\ y \in Nat
  BY Division
<1>2. PICK d, e : d = Messages!Divided(x, b, n) /\ e = Messages!Divided(y, b, n)
  OBVIOUS
<1>3. d[0] = x /\ \A m \in 1 .. n : d[m] = d[m - 1] \div b
  <2>1. DividedFrom(d, x, b, n)
    BY <1>2, DividedAs
  <2> QED
    BY <2>1 DEF DividedFrom
<1>4. e[0] = y /\ \A m \in 1 .. n : e[m] = e[m - 1] \div b
  <2>1. DividedFrom(e, y, b, n)
    BY <1>1, <1>2, DividedAs
  <2> QED
    BY <2>1 DEF DividedFrom
<1> DEFINE g == [m \in 0 .. n - 1 |-> d[m + 1]]
<1>5. e[0] = g[0]
  BY <1>1, <1>3, <1>4
<1>6. ASSUME NEW m \in 1 .. k, e[m - 1] = g[m - 1] PROVE e[m] = g[m]
  <2>1. m \in 1 .. n /\ m + 1 \in 1 .. n /\ m - 1 \in 0 .. n - 1 /\ m \in 0 .. n - 1
        /\ (m - 1) + 1 = m /\ (m + 1) - 1 = m
    OBVIOUS
  <2>2. e[m] = e[m - 1] \div b
    BY <1>4, <2>1
  <2>3. d[m + 1] = d[(m + 1) - 1] \div b
    BY ONLY <1>3, <2>1
  <2>4. g[m - 1] = d[(m - 1) + 1] /\ g[m] = d[m + 1]
    BY <2>1
  <2> HIDE DEF g
  <2> QED
    BY ONLY <1>6, <2>1, <2>2, <2>3, <2>4
<1>7. k \in Nat /\ g[k] = d[k + 1]
  OBVIOUS
<1> HIDE DEF g
<1>8. e[k] = g[k]
  <2>1. Alike(e, g, k)
    BY <1>5, <1>6 DEF Alike
  <2> QED
    BY <1>7, <2>1, MadeAlike
<1> QED
  BY <1>1, <1>2, <1>7, <1>8

\* Digits of a number, and the highest of them that is not a zero, if any.
DigitAt(x, b, n, k) == Messages!Divided(x, b, n)[k] % b
IsTop(x, b, n, top) ==
    /\ top \in 0 .. n - 1 /\ (top = 0 \/ DigitAt(x, b, n, top) # 0)
    /\ \A m \in top + 1 .. n - 1 : DigitAt(x, b, n, m) = 0
Enough(x, b, n) == Messages!Divided(x, b, n)[n] = 0

LEMMA DigitNat ==
    ASSUME NEW b \in Bases, NEW x \in Nat, NEW n \in Nat, NEW k \in 0 .. n
    PROVE  /\ DigitAt(x, b, n, k) \in Nat /\ DigitAt(x, b, n, k) < b
           /\ Messages!Divided(x, b, n)[k] \in Nat
<1>1. Messages!Divided(x, b, n)[k] \in Nat
  BY DividedAs DEF DividedFrom
<1> QED
  BY <1>1, Division DEF DigitAt

LEMMA TopOnce ==
    ASSUME NEW b \in Bases, NEW x \in Nat, NEW n \in Nat, NEW k, NEW m,
           IsTop(x, b, n, k), IsTop(x, b, n, m)
    PROVE  k = m
<1>1. k \in 0 .. n - 1 /\ m \in 0 .. n - 1
  BY DEF IsTop
<1>2. ~(k < m) /\ ~(m < k)
  BY <1>1 DEF IsTop
<1> QED
  BY <1>1, <1>2

\* A number whose digits are zeros from some place on is less than that.
LEMMA ZerosAbove ==
    ASSUME NEW b \in Bases, NEW x \in Nat, NEW n \in Nat, NEW k \in 0 .. n, Enough(x, b, n),
           \A m \in k .. n - 1 : DigitAt(x, b, n, m) = 0
    PROVE  Messages!Divided(x, b, n)[k] = 0
<1>1. PICK d : d = Messages!Divided(x, b, n)
  OBVIOUS
<1>2. d \in [0 .. n -> Nat] /\ \A m \in 1 .. n : d[m] = d[m - 1] \div b
  <2>1. DividedFrom(d, x, b, n)
    BY <1>1, DividedAs
  <2> QED
    BY <2>1 DEF DividedFrom
<1> DEFINE S == {m \in Nat : m <= n - k => d[n - m] = 0}
<1>3. 0 \in S
  BY <1>1 DEF Enough
<1>4. ASSUME NEW m \in Nat, m \in S PROVE m + 1 \in S
  <2> SUFFICES ASSUME m + 1 <= n - k PROVE d[n - (m + 1)] = 0
    OBVIOUS
  <2>1. PICK j : j = n - (m + 1) /\ j \in k .. n - 1 /\ j + 1 = n - m /\ j + 1 \in 1 .. n /\ j \in 0 .. n
    OBVIOUS
  <2>2. d[j + 1] = 0
    BY <1>4, <2>1
  <2>3. d[j] \div b = 0
    BY <1>2, <2>1, <2>2
  <2>4. d[j] % b = 0
    BY <1>1, <2>1 DEF DigitAt
  <2>5. d[j] \in Nat
    BY <1>2, <2>1
  <2>6. d[j] = 0
    BY ONLY <2>3, <2>4, <2>5, Division, b \in Bases
  <2> QED
    BY <2>1, <2>6
<1>5. n - k \in S
  <2> HIDE DEF S
  <2> QED
    BY <1>3, <1>4, Induction
<1> QED
  BY <1>1, <1>5

\* The highest digit of a number is one above that of the number divided.
LEMMA TopAbove ==
    ASSUME NEW b \in Bases, NEW x \in Nat, NEW n \in Nat, NEW top,
           Enough(x, b, n), Enough(x \div b, b, n), x >= b, IsTop(x \div b, b, n, top)
    PROVE  IsTop(x, b, n, top + 1)
<1>1. PICK y : y = x \div b /\ y \in Nat /\ y # 0
  BY Division
<1>2. top \in 0 .. n - 1
  BY DEF IsTop
<1>3. ASSUME NEW m \in 0 .. n - 1 PROVE DigitAt(y, b, n, m) = DigitAt(x, b, n, m + 1)
  BY <1>1, <1>3, DividedFirst DEF DigitAt
<1>4. top = 0 => DigitAt(y, b, n, 0) # 0
  <2> SUFFICES ASSUME top = 0, DigitAt(y, b, n, 0) = 0 PROVE FALSE
    OBVIOUS
  <2>1. \A m \in 0 .. n - 1 : DigitAt(y, b, n, m) = 0
    BY <1>1 DEF IsTop
  <2>2. Messages!Divided(y, b, n)[0] = 0
    BY <1>1, <1>2, <2>1, ZerosAbove
  <2> QED
    BY <1>1, <2>2, DividedAs DEF DividedFrom
<1>5. top # n - 1
  <2> SUFFICES ASSUME top = n - 1 PROVE FALSE
    OBVIOUS
  <2>1. DigitAt(y, b, n, top) # 0
    BY <1>1, <1>4 DEF IsTop
  <2>2. DigitAt(x, b, n, n) = 0
    <3>1. 0 % b = 0
      BY Division
    <3> QED
      BY <3>1 DEF DigitAt, Enough
  <2>3. n - 1 \in 0 .. n - 1 /\ (n - 1) + 1 = n
    BY <1>2
  <2> QED
    BY <1>3, <2>1, <2>2, <2>3
<1>6. DigitAt(x, b, n, top + 1) # 0
  BY <1>1, <1>2, <1>3, <1>4 DEF IsTop
<1>7. ASSUME NEW m \in (top + 1) + 1 .. n - 1 PROVE DigitAt(x, b, n, m) = 0
  <2>1. m - 1 \in top + 1 .. n - 1 /\ m - 1 \in 0 .. n - 1 /\ (m - 1) + 1 = m
    BY <1>2
  <2>2. DigitAt(y, b, n, m - 1) = 0
    BY <1>1, <2>1 DEF IsTop
  <2> QED
    BY <1>3, <2>1, <2>2
<1> QED
  BY <1>2, <1>5, <1>6, <1>7 DEF IsTop

\* A number below the base has one digit, itself.
LEMMA TopOfDigit ==
    ASSUME NEW b \in Bases, NEW x \in Nat, NEW n \in Nat \ {0}, x < b
    PROVE  IsTop(x, b, n, 0) /\ DigitAt(x, b, n, 0) = x /\ Enough(x, b, n)
<1>1. PICK d : d = Messages!Divided(x, b, n)
  OBVIOUS
<1>2. d[0] = x /\ \A m \in 1 .. n : d[m] = d[m - 1] \div b
  <2>1. DividedFrom(d, x, b, n)
    BY <1>1, DividedAs
  <2> QED
    BY <2>1 DEF DividedFrom
<1>3. 0 \div b = 0 /\ 0 % b = 0
  BY Division
<1> DEFINE z == [m \in 0 .. n |-> IF m = 0 THEN x ELSE 0]
<1>4. ASSUME NEW m \in 1 .. n PROVE d[m] = 0
  <2>1. z[0] = d[0]
    BY <1>2
  <2>2. ASSUME NEW k \in 1 .. m, z[k - 1] = d[k - 1] PROVE z[k] = d[k]
    <3>1. d[k] = d[k - 1] \div b /\ k \in 0 .. n /\ k - 1 \in 0 .. n
      BY <1>2
    <3>2. z[k] = 0 /\ (z[k - 1] = x \/ z[k - 1] = 0)
      BY <3>1
    <3>3. x \div b = 0
      BY Division
    <3> HIDE DEF z
    <3> QED
      BY <1>3, <2>2, <3>1, <3>2, <3>3
  <2>3. z[m] = 0
    OBVIOUS
  <2> HIDE DEF z
  <2>4. Alike(z, d, m)
    BY <2>1, <2>2 DEF Alike
  <2> QED
    BY <2>3, <2>4, MadeAlike
<1>5. DigitAt(x, b, n, 0) = x
  BY <1>1, <1>2, Division DEF DigitAt
<1>6. \A m \in 0 + 1 .. n - 1 : DigitAt(x, b, n, m) = 0
  BY <1>1, <1>3, <1>4 DEF DigitAt
<1> QED
  BY <1>1, <1>4, <1>5, <1>6 DEF IsTop, Enough

LEMMA TopThere ==
    ASSUME NEW b \in Bases, NEW x \in Nat, NEW n \in Nat \ {0}
    PROVE  \E top \in 0 .. n - 1 : IsTop(x, b, n, top)
<1> DEFINE T == {m \in Nat : m <= n - 1 /\ \A k \in (n - 1) - m + 1 .. n - 1 : DigitAt(x, b, n, k) = 0}
           U == {m \in Nat : m <= n - 1 /\ DigitAt(x, b, n, (n - 1) - m) # 0}
<1>1. CASE U = {}
  <2>1. \A k \in 0 .. n - 1 : DigitAt(x, b, n, k) = 0
    <3> TAKE k \in 0 .. n - 1
    <3>1. (n - 1) - k \in Nat /\ (n - 1) - k <= n - 1 /\ (n - 1) - ((n - 1) - k) = k
      OBVIOUS
    <3> QED
      BY <1>1, <3>1
  <2>2. IsTop(x, b, n, 0)
    BY <2>1 DEF IsTop
  <2> QED
    BY <2>2
<1>2. CASE U # {}
  <2>1. PICK m \in U : \A k \in U : m <= k
    <3>1. U \in SUBSET Nat
      OBVIOUS
    <3> HIDE DEF U
    <3> QED
      BY <1>2, <3>1, Least
  <2>2. (n - 1) - m \in 0 .. n - 1 /\ DigitAt(x, b, n, (n - 1) - m) # 0
    OBVIOUS
  <2>3. ASSUME NEW k \in (n - 1) - m + 1 .. n - 1 PROVE DigitAt(x, b, n, k) = 0
    <3>1. (n - 1) - k \in Nat /\ (n - 1) - k <= n - 1 /\ (n - 1) - ((n - 1) - k) = k /\ (n - 1) - k < m
      BY <2>1
    <3> QED
      BY <2>1, <3>1
  <2>4. IsTop(x, b, n, (n - 1) - m)
    BY <2>2, <2>3 DEF IsTop
  <2> QED
    BY <2>2, <2>4
<1> QED
  BY <1>1, <1>2

\* A numeral: the digits from the highest on.
DigitsFrom(x, b, n, top) == [j \in 1 .. top + 1 |-> DigitAt(x, b, n, top + 1 - j)]
EnoughFor(b, n) == \A x \in Messages!Word : Enough(x, b, n)

LEMMA WordNat ==
    ASSUME DevicesAssumption, NEW x \in Messages!Word
    PROVE  x \in Nat /\ x < Modulus /\ \A y \in Nat : y <= x => y \in Messages!Word
BY DEF DevicesAssumption, Messages!ConsoleAssumption, Messages!Word

LEMMA WrittenNext ==
    ASSUME DevicesAssumption, NEW b \in Bases, NEW n \in Nat \ {0}, EnoughFor(b, n),
           NEW x \in Messages!Word, NEW top, IsTop(x \div b, b, n, top), x >= b
    PROVE  DigitsFrom(x, b, n, top + 1) = DigitsFrom(x \div b, b, n, top) \o <<x % b>>
<1>1. PICK y : y = x \div b /\ y \in Nat
  BY WordNat, Division
<1>2. top \in 0 .. n - 1
  BY DEF IsTop
<1>3. ASSUME NEW k \in 0 .. n - 1 PROVE DigitAt(y, b, n, k) = DigitAt(x, b, n, k + 1)
  BY <1>1, WordNat, DividedFirst DEF DigitAt
<1>4. DigitAt(x, b, n, 0) = x % b
  <2>1. DividedFrom(Messages!Divided(x, b, n), x, b, n)
    BY WordNat, DividedAs
  <2> QED
    BY <2>1 DEF DividedFrom, DigitAt
<1>5. PICK r : r = x % b
  OBVIOUS
<1> DEFINE u == DigitsFrom(y, b, n, top)
           v == DigitsFrom(x, b, n, top + 1)
<1>6. u = [j \in 1 .. top + 1 |-> DigitAt(y, b, n, top + 1 - j)]
  BY DEF DigitsFrom
<1>7. v = [j \in 1 .. top + 2 |-> DigitAt(x, b, n, top + 2 - j)]
  <2>1. PICK m : m = top + 1 /\ m + 1 = top + 2
    BY <1>2
  <2>2. DigitsFrom(x, b, n, m) = [j \in 1 .. m + 1 |-> DigitAt(x, b, n, m + 1 - j)]
    BY DEF DigitsFrom
  <2>3. \A j \in 1 .. m + 1 : m + 1 - j = top + 2 - j
    BY <1>2, <2>1
  <2>4. v = DigitsFrom(x, b, n, m)
    BY <2>1
  <2> HIDE DEF v
  <2>5. DOMAIN v = 1 .. top + 2 /\ v = [j \in 1 .. top + 2 |-> v[j]]
    BY ONLY <2>1, <2>2, <2>4
  <2>6. \A j \in 1 .. top + 2 : v[j] = DigitAt(x, b, n, top + 2 - j)
    BY ONLY <2>1, <2>2, <2>3, <2>4
  <2> QED
    BY ONLY <2>5, <2>6
<1> HIDE DEF u, v
<1>8. \A j \in 1 .. top + 1 : v[j] = u[j]
  <2> TAKE j \in 1 .. top + 1
  <2>1. PICK k : k = top + 1 - j /\ k \in 0 .. n - 1 /\ k + 1 = top + 2 - j
    BY <1>2
  <2>2. j \in 1 .. top + 2
    BY <1>2
  <2>3. u[j] = DigitAt(y, b, n, k) /\ v[j] = DigitAt(x, b, n, k + 1)
    BY <1>6, <1>7, <2>1, <2>2
  <2> QED
    BY <1>3, <2>1, <2>3
<1>9. v[top + 2] = r
  <2>1. top + 2 - (top + 2) = 0 /\ top + 2 \in 1 .. top + 2
    BY <1>2
  <2> QED
    BY <1>4, <1>5, <1>7, <2>1
<1>10. v = u \o <<r>>
  <2>1. Len(u) = top + 1 /\ u \in Seq({u[j] : j \in 1 .. top + 1})
    <3>1. top + 1 \in Nat
      BY <1>2
    <3> QED
      BY <1>6, <3>1
  <2>2. Len(v) = top + 2 /\ v \in Seq({v[j] : j \in 1 .. top + 2})
    <3>1. PICK m : m = top + 2 /\ m \in Nat
      BY <1>2
    <3>2. v = [j \in 1 .. m |-> v[j]]
      BY <1>7, <3>1
    <3>3. v \in Seq({v[j] : j \in 1 .. m}) /\ Len(v) = m
      BY ONLY <3>1, <3>2
    <3> QED
      BY <3>1, <3>3
  <2>3. \A j \in 1 .. top + 2 : (u \o <<r>>)[j] = v[j]
    BY <1>2, <1>8, <1>9, <2>1
  <2>4. u \o <<r>> = [j \in 1 .. top + 2 |-> v[j]]
    BY <1>2, <2>1, <2>3
  <2>5. v = [j \in 1 .. top + 2 |-> v[j]]
    BY <1>7
  <2> QED
    BY <2>4, <2>5
<1> QED
  BY <1>1, <1>5, <1>10 DEF u, v

LEMMA NumeralIs ==
    ASSUME DevicesAssumption, NEW b \in Bases, NEW n \in Nat \ {0}, EnoughFor(b, n),
           NEW x \in Messages!Word, NEW top, IsTop(x, b, n, top)
    PROVE  Messages!Numeral(b)[x] = DigitsFrom(x, b, n, top)
<1> DEFINE Top(z) == CHOOSE t : IsTop(z, b, n, t)
           W(z) == DigitsFrom(z, b, n, Top(z))
           w == [z \in Messages!Word |-> W(z)]
           Out(f) == [z \in Messages!Word |-> IF z < b THEN <<z>> ELSE f[z \div b] \o <<z % b>>]
           N == CHOOSE f : f = Out(f)
<1>1. ASSUME NEW z \in Messages!Word PROVE IsTop(z, b, n, Top(z))
  BY WordNat, TopThere
<1>2. ASSUME NEW z \in Messages!Word, z >= b PROVE z \div b \in Messages!Word /\ z \div b < z
  BY <1>2, WordNat, Division
<1>3. ASSUME NEW z \in Messages!Word
      PROVE  W(z) = IF z < b THEN <<z>> ELSE W(z \div b) \o <<z % b>>
  <2>0. z \in Nat /\ b \in Nat
    BY WordNat, Division
  <2>1. CASE z < b
    <3>1. IsTop(z, b, n, 0) /\ DigitAt(z, b, n, 0) = z
      BY <2>0, <2>1, TopOfDigit
    <3>2. Top(z) = 0
      BY <1>1, <2>0, <3>1, TopOnce
    <3>3. DigitsFrom(z, b, n, 0) = <<z>>
      BY <3>1 DEF DigitsFrom
    <3> QED
      BY <2>1, <3>2, <3>3
  <2>2. CASE z >= b
    <3>1. PICK y : y = z \div b /\ y \in Messages!Word
      BY <1>2, <2>2
    <3>2. IsTop(y, b, n, Top(y))
      BY <1>1, <3>1
    <3>3. IsTop(z, b, n, Top(y) + 1)
      <4>1. Enough(z, b, n) /\ Enough(z \div b, b, n)
        BY <3>1 DEF EnoughFor
      <4> HIDE DEF Top
      <4> QED
        BY <2>0, <2>2, <3>1, <3>2, <4>1, TopAbove
    <3>4. Top(z) = Top(y) + 1
      BY <1>1, <2>0, <3>3, TopOnce
    <3> HIDE DEF Top
    <3>5. DigitsFrom(z, b, n, Top(y) + 1) = DigitsFrom(z \div b, b, n, Top(y)) \o <<z % b>>
      BY <2>2, <3>1, <3>2, WrittenNext
    <3>6. W(z) = W(y) \o <<z % b>>
      BY <3>1, <3>4, <3>5
    <3> QED
      BY <2>0, <2>2, <3>1, <3>6
  <2> QED
    BY <2>0, <2>1, <2>2
<1>4. w = Out(w)
  <2> SUFFICES \A z \in Messages!Word : W(z) = IF z < b THEN <<z>> ELSE w[z \div b] \o <<z % b>>
    <3> DEFINE R(z) == IF z < b THEN <<z>> ELSE w[z \div b] \o <<z % b>>
    <3>1. Out(w) = [z \in Messages!Word |-> R(z)]
      BY Zenon
    <3>2. \A z \in Messages!Word : W(z) = R(z)
      BY Zenon
    <3> HIDE DEF W, R
    <3>3. [z \in Messages!Word |-> W(z)] = [z \in Messages!Word |-> R(z)]
      BY <3>2
    <3> QED
      BY <3>1, <3>3
  <2> TAKE z \in Messages!Word
  <2>1. CASE z < b
    BY <1>3, <2>1
  <2>2. CASE ~(z < b)
    <3>1. z >= b
      BY <2>2, WordNat, Division
    <3>2. PICK y : y = z \div b /\ y \in Messages!Word
      BY <1>2, <3>1
    <3>3. w[z \div b] = W(z \div b)
      BY <3>2
    <3> HIDE DEF w, W
    <3> QED
      BY <1>3, <2>2, <3>3
  <2> QED
    BY <2>1, <2>2
<1>5. N = Out(N)
  BY <1>4
<1>6. Messages!Numeral(b) = N
  BY DEF Messages!Numeral
<1> HIDE DEF N, w, W
<1> DEFINE T == {z \in Messages!Word : N[z] # w[z]}
<1>7. T = {}
  <2> SUFFICES ASSUME T # {} PROVE FALSE
    OBVIOUS
  <2>1. T \in SUBSET Nat
    BY WordNat
  <2>2. PICK z \in T : \A y \in T : z <= y
    <3> HIDE DEF T
    <3> QED
      BY <2>1, Least
  <2>3. z \in Messages!Word /\ z \in Nat /\ b \in Nat
    BY WordNat, Division
  <2>4. N[z] = IF z < b THEN <<z>> ELSE N[z \div b] \o <<z % b>>
    BY <1>5, <2>3
  <2>5. w[z] = IF z < b THEN <<z>> ELSE w[z \div b] \o <<z % b>>
    BY <1>4, <2>3
  <2>6. CASE z < b
    BY <2>4, <2>5, <2>6
  <2>7. CASE z >= b
    <3>1. PICK y : y = z \div b /\ y \in Messages!Word /\ y < z
      BY <1>2, <2>3, <2>7
    <3>2. y \notin T
      BY <2>2, <2>3, <3>1, WordNat
    <3>3. N[y] = w[y]
      BY <3>1, <3>2
    <3>4. z \notin T
      BY <2>3, <2>4, <2>5, <2>7, <3>1, <3>3
    <3> QED
      BY <3>4
  <2> QED
    BY <2>3, <2>6, <2>7
<1>8. N[x] = w[x]
  BY <1>7
<1>9. w[x] = DigitsFrom(x, b, n, Top(x))
  BY DEF w, W
<1>10. Top(x) = top
  BY <1>1, WordNat, TopOnce
<1> QED
  BY <1>6, <1>8, <1>9, <1>10

\* What the firmware prints of a number are the digits of its numeral.
LEMMA ItoaIs ==
    ASSUME DevicesAssumption, NEW x \in Messages!Word
    PROVE  /\ Messages!Itoa(x) = Messages!Numeral(10)[x]
           /\ Messages!Itoa(x) \in Seq(0 .. 15)
<1>1. Places \in Nat \ {0} /\ EnoughFor(10, Places) /\ 10 \in Bases /\ x \in Nat
  <2>1. \A z \in Messages!Word : Messages!Divided(z, 10, Places)[Places] = 0
    BY DEF DevicesAssumption, Messages!ConsoleAssumption
  <2> QED
    BY <2>1, WordNat DEF DevicesAssumption, Messages!ConsoleAssumption, EnoughFor, Enough, Bases
<1> DEFINE digits == [k \in 0 .. Places - 1 |-> Messages!Divided(x, 10, Places)[k] % 10]
           IsIt(k) == /\ k = 0 \/ digits[k] # 0
                      /\ \A m \in k + 1 .. Places - 1 : digits[m] = 0
           top == CHOOSE k \in 0 .. Places - 1 : IsIt(k)
<1>2. \A k \in 0 .. Places - 1 : digits[k] = DigitAt(x, 10, Places, k)
  BY DEF DigitAt
<1>3. Messages!Itoa(x) = [j \in 1 .. top + 1 |-> digits[top + 1 - j]]
  BY DEF Messages!Itoa
<1> HIDE DEF digits
<1>4. \A k \in 0 .. Places - 1 : IsIt(k) <=> IsTop(x, 10, Places, k)
  <2> TAKE k \in 0 .. Places - 1
  <2>1. \A m \in k + 1 .. Places - 1 : m \in 0 .. Places - 1
    OBVIOUS
  <2> QED
    BY <1>2, <2>1 DEF IsTop
<1>5. \E k \in 0 .. Places - 1 : IsIt(k)
  BY <1>1, <1>4, TopThere
<1>6. top \in 0 .. Places - 1 /\ IsIt(top)
  BY <1>5
<1> HIDE DEF top, IsIt
<1>7. IsTop(x, 10, Places, top)
  BY <1>4, <1>6
<1>8. Messages!Itoa(x) = DigitsFrom(x, 10, Places, top)
  <2>1. \A j \in 1 .. top + 1 : top + 1 - j \in 0 .. Places - 1
    BY ONLY <1>1, <1>6
  <2> QED
    BY <1>2, <1>3, <2>1 DEF DigitsFrom
<1>9. \A j \in 1 .. top + 1 : DigitAt(x, 10, Places, top + 1 - j) \in 0 .. 15
  <2> TAKE j \in 1 .. top + 1
  <2>1. PICK k : k = top + 1 - j /\ k \in 0 .. Places
    BY <1>1, <1>6
  <2>2. DigitAt(x, 10, Places, k) \in Nat /\ DigitAt(x, 10, Places, k) < 10
    BY <1>1, <2>1, DigitNat
  <2> QED
    BY <2>1, <2>2
<1>10. DigitsFrom(x, 10, Places, top) \in Seq(0 .. 15)
  <2>1. PICK n : n = top + 1 /\ n \in Nat
    <3>1. top + 1 \in Nat
      BY <1>6
    <3> QED
      BY ONLY <3>1
  <2>2. PICK f : f = DigitsFrom(x, 10, Places, top)
    OBVIOUS
  <2>3. f = [j \in 1 .. top + 1 |-> DigitAt(x, 10, Places, top + 1 - j)]
    BY ONLY <2>2 DEF DigitsFrom
  <2>4. \A j \in 1 .. top + 1 : f[j] \in 0 .. 15
    <3> TAKE j \in 1 .. top + 1
    <3>1. f[j] = DigitAt(x, 10, Places, top + 1 - j)
      BY ONLY <2>3, j \in 1 .. top + 1
    <3>2. DigitAt(x, 10, Places, top + 1 - j) \in 0 .. 15
      BY ONLY <1>9, j \in 1 .. top + 1, Zenon
    <3> QED
      BY ONLY <3>1, <3>2, Zenon
  <2>5. f = [j \in 1 .. top + 1 |-> f[j]]
    BY ONLY <2>3
  <2>6. f = [j \in 1 .. n |-> f[j]] /\ \A j \in 1 .. n : f[j] \in 0 .. 15
    BY ONLY <2>1, <2>4, <2>5, Zenon
  <2>7. f \in Seq(0 .. 15)
    BY ONLY <2>1, <2>6
  <2> QED
    BY ONLY <2>2, <2>7, Zenon
<1> QED
  BY <1>1, <1>7, <1>8, <1>10, NumeralIs

LEMMA ToHexIs ==
    ASSUME DevicesAssumption, NEW x \in Messages!Word
    PROVE  /\ Messages!ToHex(x) = [k \in 1 .. Nibbles - Len(Messages!Numeral(16)[x]) |-> 0]
                                      \o Messages!Numeral(16)[x]
           /\ Messages!ToHex(x) \in Seq(0 .. 15)
<1>1. Nibbles \in Nat \ {0} /\ EnoughFor(16, Nibbles) /\ 16 \in Bases /\ x \in Nat
  <2>1. \A z \in Messages!Word : Messages!Divided(z, 16, Nibbles)[Nibbles] = 0
    BY DEF DevicesAssumption, Messages!ConsoleAssumption
  <2> QED
    BY <2>1, WordNat DEF DevicesAssumption, Messages!ConsoleAssumption, EnoughFor, Enough, Bases
<1>2. PICK top \in 0 .. Nibbles - 1 : IsTop(x, 16, Nibbles, top)
  BY <1>1, TopThere
<1>3. PICK w : w = DigitsFrom(x, 16, Nibbles, top)
  OBVIOUS
<1>4. Messages!Numeral(16)[x] = w
  BY <1>1, <1>2, <1>3, NumeralIs
<1>5. w = [j \in 1 .. top + 1 |-> DigitAt(x, 16, Nibbles, top + 1 - j)] /\ Len(w) = top + 1
  <2>1. top + 1 \in Nat
    BY <1>2
  <2> QED
    BY <1>3, <2>1 DEF DigitsFrom
<1>6. PICK h : h = Messages!ToHex(x)
  OBVIOUS
<1>7. h = [j \in 1 .. Nibbles |-> DigitAt(x, 16, Nibbles, Nibbles - j)]
  BY <1>6 DEF Messages!ToHex, DigitAt
<1>8. ASSUME NEW k \in 0 .. Nibbles - 1
      PROVE  DigitAt(x, 16, Nibbles, k) \in 0 .. 15 /\ (k > top => DigitAt(x, 16, Nibbles, k) = 0)
  <2>1. DigitAt(x, 16, Nibbles, k) \in Nat /\ DigitAt(x, 16, Nibbles, k) < 16
    <3>1. k \in 0 .. Nibbles
      BY <1>1
    <3> QED
      BY <1>1, <3>1, DigitNat
  <2>2. k > top => k \in top + 1 .. Nibbles - 1
    BY <1>1, <1>2
  <2> QED
    BY <1>2, <2>1, <2>2 DEF IsTop
<1>9. h \in Seq(0 .. 15)
  <2>1. \A j \in 1 .. Nibbles : Nibbles - j \in 0 .. Nibbles - 1
    BY <1>1
  <2>2. \A j \in 1 .. Nibbles : DigitAt(x, 16, Nibbles, Nibbles - j) \in 0 .. 15
    BY <1>8, <2>1
  <2> QED
    BY <1>1, <1>7, <2>2
<1> DEFINE rest == Nibbles - (top + 1)
           zeros == [k \in 1 .. rest |-> 0]
<1>10. rest \in Nat /\ zeros \in Seq({0}) /\ Len(zeros) = rest
  <2>1. rest \in Nat
    BY <1>1, <1>2
  <2> HIDE DEF rest
  <2> QED
    BY <2>1
<1>11. w \in Seq({w[j] : j \in 1 .. top + 1})
  <2>1. PICK m : m = top + 1 /\ m \in Nat
    BY <1>2
  <2>2. w = [j \in 1 .. m |-> w[j]]
    BY <1>5, <2>1
  <2>3. w \in Seq({w[j] : j \in 1 .. m})
    BY ONLY <2>1, <2>2
  <2> QED
    BY <2>1, <2>3
<1>12. ASSUME NEW j \in 1 .. Nibbles PROVE h[j] = IF j <= rest THEN 0 ELSE w[j - rest]
  <2>1. PICK k : k = Nibbles - j /\ k \in 0 .. Nibbles - 1
    BY <1>1
  <2>2. h[j] = DigitAt(x, 16, Nibbles, k)
    BY <1>7, <2>1
  <2>3. CASE j <= rest
    <3>1. k > top
      BY <1>1, <1>2, <2>1, <2>3
    <3> QED
      BY <1>8, <2>1, <2>2, <2>3, <3>1
  <2>4. CASE j > rest
    <3>1. j - rest \in 1 .. top + 1 /\ top + 1 - (j - rest) = k
      BY <1>1, <1>2, <2>1, <2>4
    <3>2. w[j - rest] = DigitAt(x, 16, Nibbles, k)
      BY <1>5, <3>1
    <3> QED
      BY <1>10, <2>2, <2>4, <3>2
  <2> QED
    BY <1>10, <2>3, <2>4
<1>13. h = zeros \o w
  <2>1. Nibbles = rest + (top + 1) /\ top + 1 \in Nat
    BY <1>1, <1>2
  <2> HIDE DEF rest
  <2>2. \A j \in 1 .. rest : zeros[j] = 0
    OBVIOUS
  <2> HIDE DEF zeros
  <2>3. Len(zeros \o w) = Nibbles /\ zeros \o w = [j \in 1 .. Nibbles |-> (zeros \o w)[j]]
    <3>1. zeros \o w \in Seq({0} \cup {w[j] : j \in 1 .. top + 1})
      <4>1. \A A, B : Seq(A) \subseteq Seq(A \cup B) /\ Seq(B) \subseteq Seq(A \cup B)
        OBVIOUS
      <4>2. PICK B : B = {w[j] : j \in 1 .. top + 1}
        OBVIOUS
      <4>3. w \in Seq({0} \cup B) /\ zeros \in Seq({0} \cup B)
        BY <1>10, <1>11, <4>1, <4>2
      <4> QED
        BY ONLY <4>2, <4>3
    <3>2. Len(zeros \o w) = Nibbles
      BY ONLY <1>5, <1>10, <1>11, <2>1
    <3> DEFINE q == zeros \o w
    <3> HIDE DEF q
    <3>3. q \in Seq({0} \cup {w[j] : j \in 1 .. top + 1}) /\ Len(q) = Nibbles
      BY <3>1, <3>2 DEF q
    <3>4. q = [j \in 1 .. Nibbles |-> q[j]]
      BY ONLY <3>3
    <3> QED
      BY <3>2, <3>4 DEF q
  <2>4. \A j \in 1 .. Nibbles : (zeros \o w)[j] = h[j]
    <3> TAKE j \in 1 .. Nibbles
    <3>1. h[j] = IF j <= rest THEN 0 ELSE w[j - rest]
      BY ONLY <1>12, j \in 1 .. Nibbles
    <3>2. (zeros \o w)[j] = IF j <= rest THEN zeros[j] ELSE w[j - rest]
      BY ONLY <1>5, <1>10, <1>11, <2>1, j \in 1 .. Nibbles
    <3>3. j <= rest => zeros[j] = 0
      <4>1. j <= rest => j \in 1 .. rest
        BY ONLY <1>10, <1>11, j \in 1 .. Nibbles
      <4> QED
        BY ONLY <2>2, <4>1
    <3> QED
      BY ONLY <3>1, <3>2, <3>3
  <2>5. h = [j \in 1 .. Nibbles |-> h[j]]
    BY <1>7
  <2> QED
    BY <2>3, <2>4, <2>5
<1> QED
  BY <1>4, <1>5, <1>6, <1>9, <1>13

(***************************************************************************)
(* The characters of a text, with and without their returns.               *)
(***************************************************************************)
CR == Messages!Return
LF == Messages!LineFeed
Kept(k) == IF k = CR THEN << >> ELSE <<k>>
Returned(k) == IF k = LF THEN <<CR, LF>> ELSE <<k>>
Paired(s1) == \A k \in 1 .. Len(s1) : s1[k] = LF => k > 1 /\ s1[k - 1] = CR

LEMMA Signs == CR \in Nat /\ LF \in Nat /\ CR # LF /\ CR = 17 /\ LF = 16
BY DEF CR, LF, Messages!Return, Messages!LineFeed

LEMMA WithoutOf ==
    ASSUME NEW s1
    PROVE  Messages!WithoutReturns(s1) = Messages!FlattenSeq([k \in 1 .. Len(s1) |-> Kept(s1[k])])
BY Zenon DEF Messages!WithoutReturns, Kept, CR

LEMMA KeptSeqs ==
    ASSUME NEW s1 \in Seq(Nat)
    PROVE  /\ [k \in 1 .. Len(s1) |-> Kept(s1[k])] \in Seq(Seq(Nat))
           /\ Len([k \in 1 .. Len(s1) |-> Kept(s1[k])]) = Len(s1)
<1>1. \A k \in 1 .. Len(s1) : Kept(s1[k]) \in Seq(Nat)
  BY DEF Kept
<1>2. Len(s1) \in Nat
  OBVIOUS
<1> QED
  BY <1>1, <1>2

LEMMA WithoutType ==
    ASSUME NEW s1 \in Seq(Nat)
    PROVE  Messages!WithoutReturns(s1) \in Seq(Nat)
BY KeptSeqs, FlatType, WithoutOf

LEMMA SequenceIs ==
    ASSUME NEW S, NEW s1 \in Seq(S) PROVE s1 = [k \in 1 .. Len(s1) |-> s1[k]]
OBVIOUS

LEMMA WithoutConcat ==
    ASSUME NEW s1 \in Seq(Nat), NEW s2 \in Seq(Nat)
    PROVE  Messages!WithoutReturns(s1 \o s2) =
               Messages!WithoutReturns(s1) \o Messages!WithoutReturns(s2)
<1> DEFINE q == s1 \o s2
           K1 == [k \in 1 .. Len(s1) |-> Kept(s1[k])]
           K2 == [k \in 1 .. Len(s2) |-> Kept(s2[k])]
           K == [k \in 1 .. Len(q) |-> Kept(q[k])]
<1>1. PICK m, n : m = Len(s1) /\ n = Len(s2) /\ m \in Nat /\ n \in Nat
  <2>1. Len(s1) \in Nat /\ Len(s2) \in Nat
    OBVIOUS
  <2> QED
    BY ONLY <2>1
<1>2. K1 \in Seq(Seq(Nat)) /\ Len(K1) = m /\ \A k \in 1 .. m : K1[k] = Kept(s1[k])
  BY <1>1, KeptSeqs
<1>3. K2 \in Seq(Seq(Nat)) /\ Len(K2) = n /\ \A k \in 1 .. n : K2[k] = Kept(s2[k])
  BY <1>1, KeptSeqs
<1>4. q \in Seq(Nat) /\ Len(q) = m + n
      /\ \A k \in 1 .. m + n : q[k] = IF k <= m THEN s1[k] ELSE s2[k - m]
  BY <1>1
<1>5. K \in Seq(Seq(Nat)) /\ Len(K) = m + n /\ \A k \in 1 .. m + n : K[k] = Kept(q[k])
  BY <1>4, KeptSeqs
<1> HIDE DEF K1, K2, q, K
<1>6. PICK L : L = K1 \o K2 /\ L \in Seq(Seq(Nat)) /\ Len(L) = m + n
               /\ \A k \in 1 .. m + n : L[k] = IF k <= m THEN K1[k] ELSE K2[k - m]
  <2>1. PICK L : L = K1 \o K2
    OBVIOUS
  <2>2. L \in Seq(Seq(Nat))
    BY ONLY <1>2, <1>3, <2>1
  <2>3. Len(L) = m + n
    <3>1. K1 \in Seq(Seq(Nat)) /\ K2 \in Seq(Seq(Nat)) /\ Len(K1) = m /\ Len(K2) = n
      BY ONLY <1>2, <1>3
    <3>2. Len(K1 \o K2) = Len(K1) + Len(K2)
      BY ONLY <3>1, ConcatProperties
    <3> QED
      BY <2>1, <3>1, <3>2
  <2>4. \A k \in 1 .. m + n : L[k] = IF k <= m THEN K1[k] ELSE K2[k - m]
    BY ONLY <1>2, <1>3, <2>1
  <2> QED
    BY <2>1, <2>2, <2>3, <2>4
<1>7. K = L
  <2>1. \A k \in 1 .. m + n : K[k] = L[k]
    <3> TAKE k \in 1 .. m + n
    <3>1. CASE k <= m
      <4>1. k \in 1 .. m
        BY <1>1, <3>1
      <4> QED
        BY ONLY <1>2, <1>4, <1>5, <1>6, <3>1, <4>1, k \in 1 .. m + n
    <3>2. CASE k > m
      <4>1. k - m \in 1 .. n /\ ~(k <= m)
        BY <1>1, <3>2
      <4> QED
        BY ONLY <1>3, <1>4, <1>5, <1>6, <4>1, k \in 1 .. m + n
    <3>3. k <= m \/ k > m
      BY <1>1
    <3> QED
      BY <3>1, <3>2, <3>3, Zenon
  <2>2. L = [k \in 1 .. m + n |-> L[k]]
    BY ONLY <1>6, SequenceIs
  <2>3. K = [k \in 1 .. m + n |-> K[k]]
    BY ONLY <1>5, SequenceIs
  <2> QED
    BY ONLY <2>1, <2>2, <2>3
<1>8. Messages!FlattenSeq(K) = Messages!FlattenSeq(K1) \o Messages!FlattenSeq(K2)
  BY <1>2, <1>3, <1>6, <1>7, FlatConcat
<1> QED
  BY <1>8, WithoutOf DEF K1, K2, K, q

LEMMA WithoutNone == Messages!WithoutReturns(<< >>) = << >>
<1>1. [k \in 1 .. Len(<< >>) |-> Kept(<< >>[k])] = << >>
  OBVIOUS
<1> QED
  BY <1>1, WithoutOf, FlatNone

LEMMA WithoutOne ==
    ASSUME NEW k \in Nat PROVE Messages!WithoutReturns(<<k>>) = Kept(k)
<1>1. [m \in 1 .. Len(<<k>>) |-> Kept(<<k>>[m])] = <<Kept(k)>>
  OBVIOUS
<1>2. Kept(k) \in Seq(Nat)
  BY DEF Kept
<1> QED
  BY <1>1, <1>2, WithoutOf, FlatOne

LEMMA PairedConcat ==
    ASSUME NEW s1 \in Seq(Nat), NEW s2 \in Seq(Nat), Paired(s1), Paired(s2)
    PROVE  Paired(s1 \o s2)
<1> SUFFICES ASSUME NEW k \in 1 .. Len(s1 \o s2), (s1 \o s2)[k] = LF
             PROVE  k > 1 /\ (s1 \o s2)[k - 1] = CR
  BY DEF Paired
<1>1. CASE k <= Len(s1)
  <2>1. k \in 1 .. Len(s1) /\ s1[k] = LF
    BY <1>1
  <2>2. k > 1 /\ s1[k - 1] = CR
    BY <2>1 DEF Paired
  <2>3. (s1 \o s2)[k - 1] = s1[k - 1]
    BY <2>1, <2>2
  <2> QED
    BY <2>2, <2>3
<1>2. CASE k > Len(s1)
  <2>1. k - Len(s1) \in 1 .. Len(s2) /\ s2[k - Len(s1)] = LF
    BY <1>2
  <2>2. k - Len(s1) > 1 /\ s2[(k - Len(s1)) - 1] = CR
    BY <2>1 DEF Paired
  <2>3. k - 1 > Len(s1) /\ k - 1 \in 1 .. Len(s1) + Len(s2) /\ (k - 1) - Len(s1) = (k - Len(s1)) - 1
    BY <2>1, <2>2
  <2>4. (s1 \o s2)[k - 1] = s2[(k - 1) - Len(s1)]
    BY <2>3
  <2> QED
    BY <2>2, <2>3, <2>4
<1> QED
  BY <1>1, <1>2

LEMMA PairedFirst ==
    ASSUME NEW s1 \in Seq(Nat), NEW s2 \in Seq(Nat), Paired(s1 \o s2)
    PROVE  Paired(s1)
<1> SUFFICES ASSUME NEW k \in 1 .. Len(s1), s1[k] = LF
             PROVE  k > 1 /\ s1[k - 1] = CR
  BY DEF Paired
<1>1. k \in 1 .. Len(s1 \o s2) /\ (s1 \o s2)[k] = LF
  OBVIOUS
<1>2. k > 1 /\ (s1 \o s2)[k - 1] = CR
  BY <1>1 DEF Paired
<1>3. (s1 \o s2)[k - 1] = s1[k - 1]
  BY <1>2
<1> QED
  BY <1>2, <1>3

LEMMA SentOne ==
    ASSUME NEW k \in Nat
    PROVE  /\ Returned(k) \in Seq(Nat) /\ Paired(Returned(k))
           /\ k # CR => Messages!WithoutReturns(Returned(k)) = <<k>>
<1>1. CASE k = LF
  <2>1. <<CR>> \in Seq(Nat) /\ <<LF>> \in Seq(Nat) /\ <<CR>> \o <<LF>> = <<CR, LF>>
    <3>1. CR \in Nat /\ LF \in Nat
      BY Signs
    <3>2. <<CR>> \in Seq(Nat) /\ <<LF>> \in Seq(Nat)
      BY <3>1
    <3>3. <<CR>> \o <<LF>> = <<CR, LF>>
      <4>1. \A k1, k2 \in Nat : <<k1>> \o <<k2>> = <<k1, k2>>
        <5> TAKE k1 \in Nat, k2 \in Nat
        <5>1. PICK q, r : q = <<k1>> \o <<k2>> /\ r = <<k1, k2>>
          OBVIOUS
        <5>2. q \in Seq(Nat) /\ Len(q) = 2 /\ q[1] = k1 /\ q[2] = k2
          BY <5>1
        <5>3. r \in Seq(Nat) /\ Len(r) = 2 /\ r[1] = k1 /\ r[2] = k2
          BY <5>1
        <5>4. \A j \in 1 .. 2 : q[j] = r[j]
          BY <5>2, <5>3
        <5>5. q = [j \in 1 .. 2 |-> q[j]] /\ r = [j \in 1 .. 2 |-> r[j]]
          BY <5>2, <5>3, SequenceIs
        <5> QED
          BY ONLY <5>1, <5>4, <5>5
      <4> QED
        BY ONLY <3>1, <4>1
    <3> QED
      BY <3>2, <3>3
  <2>2. Messages!WithoutReturns(<<CR, LF>>) = Kept(CR) \o Kept(LF)
    BY <2>1, Signs, WithoutConcat, WithoutOne
  <2>3. Kept(CR) \o Kept(LF) = <<LF>>
    BY Signs DEF Kept
  <2>4. Paired(<<CR, LF>>)
    BY Signs DEF Paired
  <2> QED
    BY <1>1, <2>1, <2>2, <2>3, <2>4, Signs DEF Returned
<1>2. CASE k # LF
  <2>1. Paired(<<k>>)
    BY <1>2 DEF Paired
  <2> QED
    BY <1>2, <2>1, WithoutOne DEF Returned, Kept
<1> QED
  BY <1>1, <1>2

\* What is sent of a text with a return before each line feed.
LEMMA TextSent ==
    ASSUME NEW s1 \in Seq(Nat \ {CR})
    PROVE  /\ Messages!Text(s1) \in Seq(Nat) /\ Paired(Messages!Text(s1))
           /\ Messages!WithoutReturns(Messages!Text(s1)) = s1
<1> DEFINE n == Len(s1)
           ss == [k \in 1 .. n |-> Returned(s1[k])]
<1>1. n \in Nat /\ \A k \in 1 .. n : s1[k] \in Nat /\ s1[k] # CR
  OBVIOUS
<1>2. Messages!Text(s1) = Messages!FlattenSeq(ss)
  BY Zenon DEF Messages!Text, Returned, CR, LF
<1>3. ss \in Seq(Seq(Nat)) /\ Len(ss) = n /\ \A k \in 1 .. n : ss[k] = Returned(s1[k])
  <2>1. \A k \in 1 .. n : Returned(s1[k]) \in Seq(Nat)
    BY <1>1, SentOne
  <2> QED
    BY <1>1, <2>1
<1> HIDE DEF ss
<1>4. PICK f \in [0 .. n -> Seq(Nat)] : Together(ss, f)
  BY <1>3, TogetherExists
<1>5. f[0] = << >> /\ \A k \in 1 .. n : f[k] = f[k - 1] \o Returned(s1[k])
  BY <1>3, <1>4 DEF Together
<1> DEFINE Good(k) == Paired(f[k]) /\ Messages!WithoutReturns(f[k]) = SubSeq(s1, 1, k)
           S == {k \in Nat : k <= n => Good(k)}
<1>6. 0 \in S
  <2>1. Paired(<< >>) /\ SubSeq(s1, 1, 0) = << >>
    BY DEF Paired
  <2> QED
    BY <1>5, <2>1, WithoutNone
<1>7. ASSUME NEW m \in Nat, m \in S PROVE m + 1 \in S
  <2> SUFFICES ASSUME m + 1 <= n PROVE Good(m + 1)
    OBVIOUS
  <2>1. m + 1 \in 1 .. n /\ m \in 0 .. n /\ (m + 1) - 1 = m
    BY <1>1
  <2>2. PICK k, a, b : k = s1[m + 1] /\ a = f[m] /\ b = Returned(k)
    OBVIOUS
  <2>3. k \in Nat /\ k # CR /\ a \in Seq(Nat)
    BY <1>1, <1>4, <2>1, <2>2
  <2>4. b \in Seq(Nat) /\ Paired(b) /\ Messages!WithoutReturns(b) = <<k>>
    BY <2>2, <2>3, SentOne
  <2>5. Paired(a) /\ Messages!WithoutReturns(a) = SubSeq(s1, 1, m)
    BY <1>7, <2>1, <2>2
  <2>6. f[m + 1] = a \o b
    BY <1>5, <2>1, <2>2
  <2>7. Paired(a \o b)
    BY <2>3, <2>4, <2>5, PairedConcat
  <2>8. Messages!WithoutReturns(a \o b) = SubSeq(s1, 1, m) \o <<k>>
    BY <2>3, <2>4, <2>5, WithoutConcat
  <2>9. SubSeq(s1, 1, m) \o <<k>> = SubSeq(s1, 1, m + 1)
    BY <2>1, <2>2
  <2> QED
    BY <2>6, <2>7, <2>8, <2>9
<1>8. n \in S
  <2> HIDE DEF S
  <2> QED
    BY <1>1, <1>6, <1>7, Induction
<1>9. Messages!FlattenSeq(ss) = f[n]
  BY <1>3, <1>4, Flat
<1>10. f[n] \in Seq(Nat)
  BY <1>1
<1>11. SubSeq(s1, 1, n) = s1
  OBVIOUS
<1> QED
  BY <1>1, <1>2, <1>8, <1>9, <1>10, <1>11

(***************************************************************************)
(* What a call prints, piece by piece.                                     *)
(***************************************************************************)
LEMMA DigitsShown ==
    ASSUME NEW s1 \in Seq(0 .. 15)
    PROVE  s1 \in Seq(Nat \ {CR}) /\ s1 \in Seq(Nat)
<1>1. 0 .. 15 \subseteq Nat \ {CR}
  BY Signs
<1> QED
  BY <1>1

LEMMA WithSign ==
    ASSUME NEW s1 \in Seq(Nat), Paired(s1)
    PROVE  /\ <<Messages!Minus>> \o s1 \in Seq(Nat) /\ Paired(<<Messages!Minus>> \o s1)
           /\ Messages!WithoutReturns(<<Messages!Minus>> \o s1)
                  = <<Messages!Minus>> \o Messages!WithoutReturns(s1)
<1>1. PICK k : k = Messages!Minus /\ k \in Nat /\ k # CR /\ k # LF
  BY Signs DEF Messages!Minus
<1>2. <<k>> \in Seq(Nat) /\ Paired(<<k>>) /\ Messages!WithoutReturns(<<k>>) = <<k>>
  BY <1>1, WithoutOne DEF Kept, Paired
<1>3. PICK q : q = <<k>> /\ q \in Seq(Nat) /\ Paired(q) /\ Messages!WithoutReturns(q) = q
  BY <1>2
<1>4. q \o s1 \in Seq(Nat) /\ Paired(q \o s1)
  <2>1. q \o s1 \in Seq(Nat)
    BY <1>3
  <2>2. Paired(q \o s1)
    BY ONLY <1>3, s1 \in Seq(Nat), Paired(s1), PairedConcat
  <2> QED
    BY <2>1, <2>2
<1>5. Messages!WithoutReturns(q \o s1) = q \o Messages!WithoutReturns(s1)
  BY <1>3, WithoutConcat
<1> QED
  BY <1>1, <1>3, <1>4, <1>5

LEMMA NumbersShown ==
    ASSUME DevicesAssumption, NEW x \in Messages!Word
    PROVE  /\ Messages!Text(Messages!Itoa(x)) \in Seq(Nat) /\ Paired(Messages!Text(Messages!Itoa(x)))
           /\ Messages!WithoutReturns(Messages!Text(Messages!Itoa(x))) = Messages!Numeral(10)[x]
           /\ Messages!Numeral(10)[x] \in Seq(Nat)
<1>1. PICK q : q = Messages!Itoa(x)
  OBVIOUS
<1>2. q \in Seq(0 .. 15) /\ q = Messages!Numeral(10)[x]
  BY <1>1, ItoaIs
<1>3. q \in Seq(Nat \ {CR}) /\ q \in Seq(Nat)
  BY <1>2, DigitsShown
<1> QED
  BY <1>1, <1>2, <1>3, TextSent

LEMMA CharactersMean ==
    ASSUME DevicesAssumption, NEW piece \in Messages!Pieces, piece.kind \in Messages!Known
    PROVE  /\ Messages!Characters(piece) \in Seq(Nat) /\ Paired(Messages!Characters(piece))
           /\ Messages!WithoutReturns(Messages!Characters(piece)) = Messages!Meaning(piece)
           /\ Messages!Meaning(piece) \in Seq(Nat)
<1>1. /\ piece.n \in Nat /\ piece.text \in Seq(Nat \ {CR})
      /\ piece.kind \in {"i", "u", "x"} => piece.n \in Messages!Word
      /\ piece.kind = "plain" => piece.n # CR
      /\ piece.kind = "c" => piece.n # CR /\ piece.n # LF
  BY DEF Messages!Pieces, Messages!Numbered, CR, LF
<1>2. CASE piece.kind = "s"
  <2>1. Messages!Characters(piece) = Messages!Text(piece.text) /\ Messages!Meaning(piece) = piece.text
    BY <1>2 DEF Messages!Characters, Messages!Meaning
  <2>2. piece.text \in Seq(Nat)
    <3>1. Nat \ {CR} \subseteq Nat
      OBVIOUS
    <3> QED
      BY <1>1, <3>1
  <2> QED
    BY <1>1, <2>1, <2>2, TextSent
<1>3. CASE piece.kind = "c"
  <2>1. Messages!Characters(piece) = <<piece.n>> /\ Messages!Meaning(piece) = <<piece.n>>
    BY <1>3 DEF Messages!Characters, Messages!Meaning
  <2>2. PICK k : k = piece.n /\ k \in Nat /\ k # CR /\ k # LF
    BY <1>1, <1>3
  <2>3. <<k>> \in Seq(Nat) /\ Paired(<<k>>) /\ Messages!WithoutReturns(<<k>>) = <<k>>
    BY <2>2, WithoutOne DEF Kept, Paired
  <2> QED
    BY <2>1, <2>2, <2>3
<1>4. CASE piece.kind = "plain"
  <2>1. Messages!Characters(piece) = Messages!Text(<<piece.n>>) /\ Messages!Meaning(piece) = <<piece.n>>
    BY <1>4 DEF Messages!Characters, Messages!Meaning
  <2>2. <<piece.n>> \in Seq(Nat \ {CR}) /\ <<piece.n>> \in Seq(Nat)
    BY <1>1, <1>4
  <2> QED
    BY <2>1, <2>2, TextSent
<1>5. CASE piece.kind = "u"
  <2>1. /\ Messages!Characters(piece) = Messages!Text(Messages!Itoa(piece.n))
        /\ Messages!Meaning(piece) = Messages!Numeral(10)[piece.n]
    BY <1>5 DEF Messages!Characters, Messages!Meaning
  <2> QED
    BY <1>1, <1>5, <2>1, NumbersShown
<1>6. CASE piece.kind = "x"
  <2>1. PICK x \in Messages!Word : x = piece.n
    BY <1>1, <1>6
  <2>2. /\ Messages!Characters(piece) = Messages!Text(Messages!ToHex(x))
        /\ Messages!Meaning(piece) = [k \in 1 .. Nibbles - Len(Messages!Numeral(16)[x]) |-> 0]
                                         \o Messages!Numeral(16)[x]
    BY <1>6, <2>1 DEF Messages!Characters, Messages!Meaning
  <2>3. PICK q : q = Messages!ToHex(x)
    OBVIOUS
  <2>4. q = Messages!Meaning(piece) /\ q \in Seq(0 .. 15)
    BY <2>2, <2>3, ToHexIs
  <2>5. q \in Seq(Nat \ {CR}) /\ q \in Seq(Nat)
    BY <2>4, DigitsShown
  <2>6. Messages!Characters(piece) = Messages!Text(q)
    BY <2>2, <2>3
  <2> QED
    BY ONLY <2>4, <2>5, <2>6, TextSent
<1>7. CASE piece.kind = "i"
  <2>1. PICK x \in Messages!Word : x = piece.n
    BY <1>1, <1>7
  <2>2. /\ Messages!Characters(piece) =
               IF x >= Modulus \div 2
               THEN <<Messages!Minus>> \o Messages!Text(Messages!Itoa((Modulus - x) % Modulus))
               ELSE Messages!Text(Messages!Itoa(x))
        /\ Messages!Meaning(piece) =
               IF x < Modulus \div 2 THEN Messages!Numeral(10)[x]
               ELSE <<Messages!Minus>> \o Messages!Numeral(10)[Modulus - x]
    BY <1>7, <2>1 DEF Messages!Characters, Messages!Meaning
  <2>3. Modulus \in Nat \ {0, 1}
    BY DEF DevicesAssumption, Messages!ConsoleAssumption
  <2>4. x \in Nat /\ x < Modulus /\ Modulus \div 2 \in Nat /\ Modulus \div 2 > 0
    BY <2>3, WordNat
  <2>5. CASE x < Modulus \div 2
    <3>1. /\ Messages!Characters(piece) = Messages!Text(Messages!Itoa(x))
          /\ Messages!Meaning(piece) = Messages!Numeral(10)[x]
      BY <2>2, <2>4, <2>5
    <3> QED
      BY <3>1, NumbersShown
  <2>6. CASE x >= Modulus \div 2
    <3>1. PICK y : y = Modulus - x
      OBVIOUS
    <3>2. y \in Nat /\ y < Modulus /\ y \in Messages!Word
      BY <2>3, <2>4, <2>6, <3>1 DEF Messages!Word
    <3>3. (Modulus - x) % Modulus = y
      <4>1. y % Modulus = y
        BY <2>3, <3>2
      <4> QED
        BY <3>1, <4>1
    <3>4. /\ Messages!Characters(piece) = <<Messages!Minus>> \o Messages!Text(Messages!Itoa(y))
          /\ Messages!Meaning(piece) = <<Messages!Minus>> \o Messages!Numeral(10)[y]
      BY <2>2, <2>4, <2>6, <3>1, <3>3
    <3>5. PICK q, r : q = Messages!Text(Messages!Itoa(y)) /\ r = Messages!Numeral(10)[y]
      OBVIOUS
    <3>6. q \in Seq(Nat) /\ Paired(q) /\ Messages!WithoutReturns(q) = r /\ r \in Seq(Nat)
      BY <3>2, <3>5, NumbersShown
    <3>7. /\ <<Messages!Minus>> \o q \in Seq(Nat) /\ Paired(<<Messages!Minus>> \o q)
          /\ Messages!WithoutReturns(<<Messages!Minus>> \o q) = <<Messages!Minus>> \o r
      BY <3>6, WithSign
    <3>8. <<Messages!Minus>> \o r \in Seq(Nat)
      BY <3>6 DEF Messages!Minus
    <3> QED
      BY <3>4, <3>5, <3>7, <3>8
  <2> QED
    BY <2>4, <2>5, <2>6
<1> QED
  BY <1>2, <1>3, <1>4, <1>5, <1>6, <1>7 DEF Messages!Known

\* The pieces of a call that are printed, up to one printf does not know.
IsEnd(s1, e) ==
    /\ e \in 0 .. Len(s1)
    /\ \A k \in 1 .. e : s1[k].kind \in Messages!Known
    /\ e < Len(s1) => s1[e + 1].kind \notin Messages!Known

LEMMA EndOnce ==
    ASSUME NEW s1 \in Seq(Messages!Pieces), NEW e, NEW f, IsEnd(s1, e), IsEnd(s1, f)
    PROVE  e = f
<1>1. Len(s1) \in Nat /\ e \in 0 .. Len(s1) /\ f \in 0 .. Len(s1)
  BY DEF IsEnd
<1>2. ~(e < f)
  <2> SUFFICES ASSUME e < f PROVE FALSE
    OBVIOUS
  <2>1. e + 1 \in 1 .. f /\ e < Len(s1)
    BY <1>1
  <2> QED
    BY <2>1 DEF IsEnd
<1>3. ~(f < e)
  <2> SUFFICES ASSUME f < e PROVE FALSE
    OBVIOUS
  <2>1. f + 1 \in 1 .. e /\ f < Len(s1)
    BY <1>1
  <2> QED
    BY <2>1 DEF IsEnd
<1> QED
  BY <1>1, <1>2, <1>3

LEMMA HeardTo ==
    ASSUME NEW s1 \in Seq(Messages!Pieces)
    PROVE  \E e : /\ IsEnd(s1, e)
                  /\ Messages!Heard(s1) = Messages!FlattenSeq([k \in 1 .. e |-> Messages!Meaning(s1[k])])
<1> DEFINE ends == {k \in 1 .. Len(s1) : s1[k].kind \notin Messages!Known}
           first == CHOOSE k \in ends : \A m \in ends : k <= m
           e == IF ends = {} THEN Len(s1) ELSE first - 1
<1>1. Messages!Heard(s1) = Messages!FlattenSeq([k \in 1 .. e |-> Messages!Meaning(s1[k])])
  BY Zenon DEF Messages!Heard
<1>2. IsEnd(s1, e)
  <2>1. CASE ends = {}
    BY <2>1 DEF IsEnd
  <2>2. CASE ends # {}
    <3>1. ends \in SUBSET Nat
      OBVIOUS
    <3>2. \E k \in ends : \A m \in ends : k <= m
      <4> HIDE DEF ends
      <4> QED
        BY <2>2, <3>1, Least
    <3>3. first \in ends /\ \A m \in ends : first <= m
      <4> HIDE DEF ends
      <4> QED
        BY <3>2
    <3> HIDE DEF first
    <3>4. first \in 1 .. Len(s1) /\ s1[first].kind \notin Messages!Known
      BY <3>3
    <3>5. \A k \in 1 .. first - 1 : s1[k].kind \in Messages!Known
      <4> TAKE k \in 1 .. first - 1
      <4>1. k \in 1 .. Len(s1) /\ ~(first <= k)
        BY <3>4
      <4> QED
        BY <3>3, <4>1
    <3>6. e = first - 1
      BY <2>2
    <3>7. (first - 1) + 1 = first /\ first - 1 \in 0 .. Len(s1)
      BY <3>4
    <3> HIDE DEF e
    <3> QED
      BY <3>4, <3>5, <3>6, <3>7 DEF IsEnd
  <2> QED
    BY <2>1, <2>2
<1> HIDE DEF e
<1> QED
  BY <1>1, <1>2

LEMMA HeardNone ==
    ASSUME NEW s1 \in Seq(Messages!Pieces),
           s1 = << >> \/ Head(s1).kind \notin Messages!Known
    PROVE  Messages!Heard(s1) = << >>
<1>1. PICK e : /\ IsEnd(s1, e)
               /\ Messages!Heard(s1) = Messages!FlattenSeq([k \in 1 .. e |-> Messages!Meaning(s1[k])])
  BY HeardTo
<1>2. IsEnd(s1, 0)
  BY DEF IsEnd
<1>3. e = 0
  BY <1>1, <1>2, EndOnce
<1>4. [k \in 1 .. e |-> Messages!Meaning(s1[k])] = << >>
  BY <1>3
<1> QED
  BY <1>1, <1>4, FlatNone

LEMMA MeaningsType ==
    ASSUME DevicesAssumption, NEW s1 \in Seq(Messages!Pieces), NEW e, IsEnd(s1, e)
    PROVE  /\ [k \in 1 .. e |-> Messages!Meaning(s1[k])] \in Seq(Seq(Nat))
           /\ Len([k \in 1 .. e |-> Messages!Meaning(s1[k])]) = e
<1>1. e \in Nat /\ e <= Len(s1) /\ Len(s1) \in Nat
  BY DEF IsEnd
<1>2. ASSUME NEW k \in 1 .. e PROVE Messages!Meaning(s1[k]) \in Seq(Nat)
  <2>1. s1[k] \in Messages!Pieces /\ s1[k].kind \in Messages!Known
    BY <1>1 DEF IsEnd
  <2> QED
    BY <2>1, CharactersMean
<1> QED
  BY <1>1, <1>2

LEMMA HeardType ==
    ASSUME DevicesAssumption, NEW s1 \in Seq(Messages!Pieces)
    PROVE  Messages!Heard(s1) \in Seq(Nat)
BY HeardTo, MeaningsType, FlatType

LEMMA SingleIs ==
    ASSUME NEW S, NEW y \in S
    PROVE  \E q : q = <<y>> /\ q \in Seq(S) /\ Len(q) = 1 /\ q[1] = y
<1>1. <<y>> \in Seq(S) /\ Len(<<y>>) = 1 /\ <<y>>[1] = y
  OBVIOUS
<1> QED
  BY ONLY <1>1

LEMMA HeardFirst ==
    ASSUME DevicesAssumption, NEW s1 \in Seq(Messages!Pieces), s1 # << >>,
           Head(s1).kind \in Messages!Known
    PROVE  Messages!Heard(s1) = Messages!Meaning(Head(s1)) \o Messages!Heard(Tail(s1))
<1>1. PICK e : /\ IsEnd(s1, e)
               /\ Messages!Heard(s1) = Messages!FlattenSeq([k \in 1 .. e |-> Messages!Meaning(s1[k])])
  BY HeardTo
<1>2. PICK t : t = Tail(s1) /\ t \in Seq(Messages!Pieces)
  <2>1. Tail(s1) \in Seq(Messages!Pieces)
    OBVIOUS
  <2> QED
    BY ONLY <2>1
<1>3. PICK f : /\ IsEnd(t, f)
               /\ Messages!Heard(t) = Messages!FlattenSeq([k \in 1 .. f |-> Messages!Meaning(t[k])])
  BY <1>2, HeardTo
<1>4. Len(s1) \in Nat \ {0} /\ Len(t) = Len(s1) - 1 /\ \A k \in 1 .. Len(t) : t[k] = s1[k + 1]
  BY <1>2
<1>5. f \in Nat /\ f <= Len(t)
  BY <1>3, <1>4 DEF IsEnd
<1>6. IsEnd(s1, f + 1)
  <2>1. f + 1 \in 0 .. Len(s1)
    BY <1>4, <1>5
  <2>2. ASSUME NEW k \in 1 .. f + 1 PROVE s1[k].kind \in Messages!Known
    <3>1. CASE k = 1
      BY <3>1
    <3>2. CASE k # 1
      <4>1. k - 1 \in 1 .. f /\ k - 1 \in 1 .. Len(t) /\ (k - 1) + 1 = k
        BY <1>4, <1>5, <3>2
      <4>2. t[k - 1].kind \in Messages!Known
        BY <1>3, <4>1 DEF IsEnd
      <4> QED
        BY <1>4, <4>1, <4>2
    <3> QED
      BY <3>1, <3>2
  <2>3. f + 1 < Len(s1) => s1[(f + 1) + 1].kind \notin Messages!Known
    <3> SUFFICES ASSUME f + 1 < Len(s1) PROVE s1[(f + 1) + 1].kind \notin Messages!Known
      OBVIOUS
    <3>1. f < Len(t) /\ f + 1 \in 1 .. Len(t)
      BY <1>4, <1>5
    <3>2. t[f + 1].kind \notin Messages!Known
      BY <1>3, <3>1 DEF IsEnd
    <3> QED
      BY <1>4, <3>1, <3>2
  <2> QED
    BY <2>1, <2>2, <2>3 DEF IsEnd
<1>7. e = f + 1
  BY <1>1, <1>6, EndOnce
<1> DEFINE M1 == [k \in 1 .. e |-> Messages!Meaning(s1[k])]
           M2 == [k \in 1 .. f |-> Messages!Meaning(t[k])]
<1>8. M1 \in Seq(Seq(Nat)) /\ Len(M1) = e /\ \A k \in 1 .. e : M1[k] = Messages!Meaning(s1[k])
  BY <1>1, MeaningsType
<1>9. M2 \in Seq(Seq(Nat)) /\ Len(M2) = f /\ \A k \in 1 .. f : M2[k] = Messages!Meaning(t[k])
  BY <1>2, <1>3, MeaningsType
<1> HIDE DEF M1, M2
<1>10. PICK first : first = Messages!Meaning(Head(s1))
  OBVIOUS
<1>11. M1[1] = first /\ first \in Seq(Nat)
  <2>1. 1 \in 1 .. e /\ Head(s1) = s1[1]
    BY <1>4, <1>5, <1>7
  <2>2. M1[1] \in Seq(Nat)
    BY <1>8, <2>1
  <2> QED
    BY <1>8, <1>10, <2>1, <2>2
<1>12. PICK L : L = <<first>> \o M2
  OBVIOUS
<1>13. L \in Seq(Seq(Nat)) /\ Len(L) = f + 1 /\ \A k \in 1 .. f + 1 : L[k] = IF k = 1 THEN first ELSE M2[k - 1]
  <2>1. PICK q : q = <<first>> /\ q \in Seq(Seq(Nat)) /\ Len(q) = 1 /\ q[1] = first
    BY <1>11, SingleIs
  <2>2. L \in Seq(Seq(Nat)) /\ Len(L) = 1 + f
    BY <1>9, <1>12, <2>1
  <2>3. \A k \in 1 .. 1 + f : L[k] = IF k <= 1 THEN q[k] ELSE M2[k - 1]
    BY ONLY <1>5, <1>9, <1>12, <2>1
  <2> QED
    BY ONLY <1>5, <2>1, <2>2, <2>3
<1>14. M1 = L
  <2>1. \A k \in 1 .. f + 1 : M1[k] = L[k]
    <3> TAKE k \in 1 .. f + 1
    <3>1. CASE k = 1
      BY <1>11, <1>13, <3>1
    <3>2. CASE k # 1
      <4>1. k - 1 \in 1 .. f /\ k - 1 \in 1 .. Len(t) /\ (k - 1) + 1 = k
        BY <1>4, <1>5, <3>2
      <4>2. M1[k] = Messages!Meaning(s1[k])
        BY <1>7, <1>8
      <4>3. M2[k - 1] = Messages!Meaning(t[k - 1]) /\ t[k - 1] = s1[k]
        BY ONLY <1>4, <1>9, <4>1
      <4>4. L[k] = M2[k - 1]
        BY <1>13, <3>2
      <4> QED
        BY ONLY <4>2, <4>3, <4>4
    <3> QED
      BY <3>1, <3>2
  <2>2. M1 = [k \in 1 .. f + 1 |-> M1[k]]
    BY ONLY <1>7, <1>8, SequenceIs
  <2>3. L = [k \in 1 .. f + 1 |-> L[k]]
    BY ONLY <1>13, SequenceIs
  <2> QED
    BY ONLY <2>1, <2>2, <2>3
<1>15. Messages!FlattenSeq(L) = Messages!FlattenSeq(<<first>>) \o Messages!FlattenSeq(M2)
  <2>1. PICK q : q = <<first>> /\ q \in Seq(Seq(Nat))
    BY <1>11, SingleIs
  <2>2. Messages!FlattenSeq(q \o M2) = Messages!FlattenSeq(q) \o Messages!FlattenSeq(M2)
    BY <1>9, <2>1, FlatConcat
  <2> QED
    BY <1>12, <2>1, <2>2
<1>16. Messages!FlattenSeq(<<first>>) = first
  BY <1>11, FlatOne
<1>17. Messages!Heard(s1) = Messages!FlattenSeq(M1) /\ Messages!Heard(t) = Messages!FlattenSeq(M2)
  BY <1>1, <1>3 DEF M1, M2
<1> QED
  BY <1>2, <1>10, <1>14, <1>15, <1>16, <1>17

(***************************************************************************)
(* The rate of the line.                                                   *)
(***************************************************************************)
Prescale(q) == <<2, 4, 8, 64, 128, 1024, 2048, 4096>>[q + 1]

\* The rate asked for lies between those of this divisor and the one below,
\* and the divisor is large enough for what is cut off to be small.
Near(q, d) ==
    /\ Prescale(q) * baud * d <= SystemClock
    /\ SystemClock < Prescale(q) * baud * (d + 1)
    /\ 18 * (Prescale(q) * baud) <= SystemClock
Divisors(q) == IF q = 0 THEN 65535 ELSE IF q = 1 THEN 32767 ELSE IF q = 2 THEN 16383 ELSE 2047
SettingUp == console_pc \in {"divide", "scale"}

RateTypes == baud \in Bauds /\ p \in 0 .. 3 /\ i \in Nat /\ i <= Divisors(p) /\ (ct.en <=> ~SettingUp)
RateAsked == console_pc # "divide" => Near(p, i)
RateKept == ct.en => ct.prsc = p /\ ct.baud = i
RateFound == RateTypes /\ RateAsked /\ RateKept

LEMMA DivisorsFall ==
    ASSUME NEW q \in 0 .. 2, NEW d \in Nat, d <= Divisors(q), d >= 4095 \/ q < 2,
           NEW m \in {2, 8}, m = (IF q \in {2, 4} THEN 8 ELSE 2)
    PROVE  /\ d \div m \in Nat /\ d \div m <= Divisors(q + 1)
           /\ Prescale(q + 1) = m * Prescale(q) /\ Prescale(q) \in Nat
<1>1. q = 0 \/ q = 1 \/ q = 2
  OBVIOUS
<1>2. CASE q = 0
  BY <1>2 DEF Divisors, Prescale
<1>3. CASE q = 1
  BY <1>3 DEF Divisors, Prescale
<1>4. CASE q = 2
  BY <1>4 DEF Divisors, Prescale
<1> QED
  BY <1>1, <1>2, <1>3, <1>4

LEMMA Products ==
    ASSUME NEW X \in Nat, NEW m \in Nat, NEW n \in Nat, m <= n
    PROVE  X * m <= X * n /\ X * m \in Nat /\ X * n \in Nat
<1>1. X * m \in Nat /\ X * (n - m) \in Nat /\ X * n \in Nat
  OBVIOUS
<1>2. X * n = X * m + X * (n - m)
  OBVIOUS
<1> QED
  BY <1>1, <1>2

LEMMA Rates ==
    ASSUME DevicesAssumption, NEW b \in Bauds
    PROVE  /\ b \in Nat /\ b > 0 /\ SystemClock \in Nat
           /\ SystemClock \div (2 * b) < 65536 /\ 36 * b <= SystemClock
BY DEF DevicesAssumption, Messages!ConsoleAssumption

LEMMA NextDivisor ==
    ASSUME NEW X \in Nat, NEW d \in Nat, NEW C \in Nat, NEW m \in {2, 8},
           d >= 4095, X * d <= C, C < X * (d + 1)
    PROVE  /\ (m * X) * (d \div m) <= C /\ C < (m * X) * (d \div m + 1)
           /\ 18 * (m * X) <= C
<1>1. PICK e : e = d \div m /\ e \in Nat /\ m * e <= d /\ d + 1 <= m * (e + 1) /\ 18 * m <= d
               /\ m * e \in Nat /\ m * (e + 1) \in Nat
  BY SMT
<1>2. X * (m * e) <= X * d /\ X * (d + 1) <= X * (m * (e + 1)) /\ X * (18 * m) <= X * d
      /\ X * (m * e) \in Nat /\ X * d \in Nat /\ X * (d + 1) \in Nat /\ X * (m * (e + 1)) \in Nat
  BY <1>1, Products
<1>3. X * (m * e) = (m * X) * e /\ X * (m * (e + 1)) = (m * X) * (e + 1) /\ X * (18 * m) = 18 * (m * X)
  BY <1>1
<1>4. (m * X) * e <= C /\ C < (m * X) * (e + 1) /\ 18 * (m * X) <= C
  BY ONLY <1>2, <1>3, X * d <= C, C < X * (d + 1), C \in Nat
<1> QED
  BY <1>1, <1>4

\* A bit of the line is near enough to one of the rate asked for.
LEMMA BitInPlace ==
    ASSUME NEW Y \in Nat, NEW d \in Nat, NEW C \in Nat, NEW k \in 0 .. 9,
           Y * d <= C, C < Y * (d + 1), 18 * Y <= C
    PROVE  (2 * k) * (Y * (d + 1)) <= C * (2 * k + 1) /\ C * (2 * k + 1) < (2 * (k + 1)) * (Y * (d + 1))
<1>1. PICK Z : Z = Y * (d + 1) /\ Z \in Nat /\ Z = Y * d + Y
  OBVIOUS
<1>2. C < Z /\ Z <= C + Y /\ 18 * Y <= C
  BY <1>1
<1>3. (2 * k) * Z <= C * (2 * k + 1) /\ C * (2 * k + 1) < (2 * (k + 1)) * Z
  <2>1. k \in {0, 1, 2, 3, 4, 5, 6, 7, 8, 9}
    OBVIOUS
  <2> QED
    BY <1>1, <1>2, <2>1
<1> QED
  BY <1>1, <1>3

LEMMA DivideRate ==
    ASSUME DevicesAssumption, RateFound, Messages!Divide
    PROVE  RateFound'
<1>1. PICK b : b = baud /\ b \in Bauds
  BY DEF RateFound, RateTypes
<1>2. b \in Nat /\ b > 0 /\ SystemClock \in Nat /\ SystemClock \div (2 * b) < 65536
      /\ 36 * b <= SystemClock
  BY ONLY DevicesAssumption, <1>1, Rates
<1>3. PICK d : d = SystemClock \div (2 * b)
  OBVIOUS
<1>4. d \in Nat /\ (2 * b) * d <= SystemClock /\ SystemClock < (2 * b) * (d + 1)
  <2>1. PICK X, C : X = 2 * b /\ C = SystemClock /\ X \in Nat /\ X > 0 /\ C \in Nat
    BY ONLY <1>2
  <2>2. d = C \div X
    BY ONLY <1>3, <2>1
  <2>3. d \in Nat /\ X * d <= C /\ C < X * (d + 1)
    BY ONLY <2>1, <2>2
  <2> QED
    BY ONLY <2>1, <2>3
<1>5. d % 65536 = d /\ d <= 65535
  BY ONLY <1>2, <1>3, <1>4
<1>6. i' = d % 65536 /\ p' = 0 /\ baud' = baud /\ console_pc' = "scale" /\ ct'.en = FALSE
  BY <1>1, <1>3 DEF Messages!Divide, Messages!Off
<1>7. Near(0, d)
  <2>1. PICK X : X = 2 * b /\ X \in Nat
    BY <1>2
  <2>2. Prescale(0) * baud = X
    BY <1>1, <2>1 DEF Prescale
  <2>3. 18 * X <= SystemClock
    BY <1>2, <2>1
  <2> QED
    BY ONLY <1>4, <2>1, <2>2, <2>3 DEF Near
<1>8. Near(p, i)'
  BY ONLY <1>5, <1>6, <1>7 DEF Near
<1>9. RateTypes'
  <2>1. d <= Divisors(0)
    BY ONLY <1>5 DEF Divisors
  <2>2. i' = d
    BY ONLY <1>5, <1>6
  <2>3. 0 \in 0 .. 3
    OBVIOUS
  <2>4. (i <= Divisors(p))'
    BY ONLY <1>6, <2>1, <2>2
  <2> QED
    BY ONLY <1>1, <1>4, <1>6, <2>2, <2>3, <2>4 DEF RateTypes, SettingUp
<1> QED
  BY ONLY <1>6, <1>8, <1>9 DEF RateFound, RateAsked, RateKept

LEMMA ScaleRate ==
    ASSUME DevicesAssumption, RateFound, Messages!Scale
    PROVE  RateFound'
<1>1. i >= 4095 /\ p' = p + 1 /\ baud' = baud /\ console_pc = "scale" /\ console_pc' = "scale"
      /\ i' = i \div (IF p \in {2, 4} THEN 8 ELSE 2) /\ ct' = ct
  BY DEF Messages!Scale
<1>2. baud \in Bauds /\ p \in 0 .. 3 /\ i \in Nat /\ i <= Divisors(p) /\ ~ct.en /\ Near(p, i)
  BY <1>1 DEF RateFound, RateTypes, RateAsked, SettingUp
<1>3. baud \in Nat /\ SystemClock \in Nat
  BY ONLY DevicesAssumption, <1>2, Rates
<1>4. p \in 0 .. 2
  BY ONLY <1>1, <1>2 DEF Divisors
<1>5. PICK m \in {2, 8} : m = (IF p \in {2, 4} THEN 8 ELSE 2)
  OBVIOUS
<1>6. PICK e : e = i \div m
  OBVIOUS
<1>7. e \in Nat /\ e <= Divisors(p + 1) /\ Prescale(p + 1) = m * Prescale(p) /\ Prescale(p) \in Nat
  BY ONLY <1>1, <1>2, <1>4, <1>5, <1>6, DivisorsFall
<1>8. PICK P : P = Prescale(p) /\ P \in Nat
  BY ONLY <1>7
<1>9. PICK X : X = P * baud /\ X \in Nat
  <2>1. P * baud \in Nat
    BY ONLY <1>3, <1>8
  <2> QED
    BY ONLY <2>1
<1>10. X * i <= SystemClock /\ SystemClock < X * (i + 1)
  BY ONLY <1>2, <1>8, <1>9 DEF Near
<1>11. (m * X) * e <= SystemClock /\ SystemClock < (m * X) * (e + 1) /\ 18 * (m * X) <= SystemClock
  BY ONLY <1>1, <1>2, <1>3, <1>5, <1>6, <1>9, <1>10, NextDivisor
<1>12. m * X = Prescale(p + 1) * baud
  <2>1. m * X = (m * P) * baud
    BY ONLY <1>3, <1>5, <1>8, <1>9
  <2> QED
    BY ONLY <1>7, <1>8, <2>1
<1>13. i' = e
  BY ONLY <1>1, <1>5, <1>6
<1>14. Near(p, i)'
  <2>1. Near(p + 1, e)
    BY ONLY <1>11, <1>12 DEF Near
  <2> QED
    BY ONLY <1>1, <1>13, <2>1 DEF Near
<1>15. RateTypes'
  <2>1. (i <= Divisors(p))' /\ p' \in 0 .. 3
    BY ONLY <1>1, <1>4, <1>7, <1>13
  <2> QED
    BY ONLY <1>1, <1>2, <1>7, <1>13, <2>1 DEF RateTypes, SettingUp
<1> QED
  BY ONLY <1>1, <1>2, <1>14, <1>15 DEF RateFound, RateAsked, RateKept

LEMMA EnableRate ==
    ASSUME RateFound, Messages!Enable
    PROVE  RateFound'
<1>1. ct'.prsc = p /\ ct'.baud = i /\ ct'.en = TRUE /\ console_pc = "scale" /\ console_pc' = "idle"
      /\ baud' = baud /\ i' = i /\ p' = p
  BY DEF Messages!Enable
<1>2. RateTypes /\ Near(p, i)
  BY <1>1 DEF RateFound, RateAsked
<1>3. Near(p, i)'
  BY ONLY <1>1, <1>2 DEF Near
<1>4. RateTypes'
  <2>1. (i <= Divisors(p))'
    BY ONLY <1>1, <1>2 DEF RateTypes
  <2> QED
    BY ONLY <1>1, <1>2, <2>1 DEF RateTypes, SettingUp
<1> QED
  BY ONLY <1>1, <1>3, <1>4 DEF RateFound, RateAsked, RateKept

LEMMA OtherRate ==
    ASSUME RateFound, UNCHANGED <<baud, i, p, ct>>,
           console_pc' = console_pc \/ (~SettingUp /\ ~SettingUp')
    PROVE  RateFound'
<1>1. RateTypes'
  <2>1. (i <= Divisors(p))'
    BY DEF RateFound, RateTypes
  <2> QED
    BY <2>1 DEF RateFound, RateTypes, SettingUp
<1>2. RateAsked'
  <2>1. console_pc' # "divide" => Near(p, i)
    BY DEF RateFound, RateAsked, SettingUp
  <2>2. Near(p, i)' <=> Near(p, i)
    BY DEF Near
  <2> QED
    BY <2>1, <2>2 DEF RateAsked
<1>3. RateKept'
  BY DEF RateFound, RateKept
<1> QED
  BY <1>1, <1>2, <1>3 DEF RateFound

LEMMA RateStep ==
    ASSUME DevicesAssumption, RateFound, [Messages!Next]_consoleVars
    PROVE  RateFound'
<1>1. CASE Messages!Divide
  BY <1>1, DivideRate
<1>2. CASE Messages!Scale
  BY <1>2, ScaleRate
<1>3. CASE Messages!Enable
  BY <1>3, EnableRate
<1>5. CASE Messages!Call
  BY <1>5, OtherRate DEF Messages!Call, Messages!setupVars, SettingUp
<1>6. CASE Messages!Piece
  BY <1>6, OtherRate DEF Messages!Piece, Messages!setupVars, SettingUp
<1>7. CASE Messages!Printed
  BY <1>7, OtherRate DEF Messages!Printed, Messages!setupVars, SettingUp
<1>8. CASE Messages!Putc
  BY <1>8, OtherRate DEF Messages!Putc, Messages!setupVars, SettingUp
<1>9. CASE Messages!Write
  BY <1>9, OtherRate DEF Messages!Write, Messages!setupVars, SettingUp
<1>10. CASE Messages!Transmit
  BY <1>10, OtherRate DEF Messages!Transmit, Messages!setupVars
<1>11. CASE UNCHANGED consoleVars \/ Messages!Done
  <2>1. UNCHANGED consoleVars
    BY <1>11 DEF Messages!Done, Messages!vars, consoleVars
  <2> QED
    BY <2>1, OtherRate DEF consoleVars
<1> QED
  BY <1>1, <1>2, <1>3, <1>5, <1>6, <1>7, <1>8, <1>9, <1>10, <1>11 DEF Messages!Next, Messages!Firmware

LEMMA RateReadable ==
    ASSUME DevicesAssumption, RateFound
    PROVE  Messages!Readable
<1> SUFFICES ASSUME ct.en, NEW k \in 0 .. 9
             PROVE  /\ 2 * k * Messages!BitClocks * baud <= SystemClock * (2 * k + 1)
                    /\ SystemClock * (2 * k + 1) < 2 * (k + 1) * Messages!BitClocks * baud
  BY DEF Messages!Readable
<1>1. baud \in Nat /\ SystemClock \in Nat /\ Near(ct.prsc, ct.baud) /\ ct.prsc \in 0 .. 3 /\ ct.baud \in Nat
  <2>1. baud \in Bauds /\ p \in 0 .. 3 /\ i \in Nat /\ ct.prsc = p /\ ct.baud = i /\ console_pc # "divide"
    BY DEF RateFound, RateTypes, RateKept, SettingUp
  <2>2. Near(p, i)
    BY <2>1 DEF RateFound, RateAsked
  <2> QED
    BY ONLY DevicesAssumption, <2>1, <2>2, Rates
<1>2. PICK P, d : P = Prescale(ct.prsc) /\ d = ct.baud /\ P \in Nat
  <2>1. Prescale(ct.prsc) \in Nat
    <3>1. ct.prsc = 0 \/ ct.prsc = 1 \/ ct.prsc = 2 \/ ct.prsc = 3
      BY <1>1
    <3> QED
      BY <3>1 DEF Prescale
  <2> QED
    BY <2>1
<1>3. Messages!BitClocks = P * (d + 1)
  BY <1>2 DEF Messages!BitClocks, Prescale
<1>4. PICK Y : Y = P * baud /\ Y \in Nat
  <2>1. P * baud \in Nat
    BY <1>1, <1>2
  <2> QED
    BY <2>1
<1>5. Y * d <= SystemClock /\ SystemClock < Y * (d + 1) /\ 18 * Y <= SystemClock
  BY <1>1, <1>2, <1>4 DEF Near
<1>6. (2 * k) * (Y * (d + 1)) <= SystemClock * (2 * k + 1)
      /\ SystemClock * (2 * k + 1) < (2 * (k + 1)) * (Y * (d + 1))
  BY <1>1, <1>2, <1>4, <1>5, BitInPlace
<1>7. PICK B : B = Messages!BitClocks /\ B \in Nat /\ B * baud = Y * (d + 1)
  BY <1>1, <1>2, <1>3, <1>4
<1>8. 2 * k * B * baud = (2 * k) * (B * baud) /\ 2 * (k + 1) * B * baud = (2 * (k + 1)) * (B * baud)
  BY <1>1, <1>7
<1> QED
  BY <1>6, <1>7, <1>8

(***************************************************************************)
(* What comes out on the line: the characters that are out, the one under  *)
(* way and those still to be written are the text of the calls so far, up  *)
(* to what is left of the format.                                          *)
(***************************************************************************)
InFlight == IF tx_busy /\ tx_bitcnt >= 2 THEN <<sreg>> ELSE << >>
Stream == line \o (InFlight \o text)

SendTypes ==
    /\ console_pc \in {"divide", "scale", "idle", "format", "putc", "write"}
    /\ tx_busy \in BOOLEAN /\ tx_bitcnt \in 0 .. 15 /\ (tx_busy => tx_bitcnt <= 10)
    /\ sreg \in Nat /\ text \in Seq(Nat) /\ line \in Seq(Nat)
    /\ format \in Seq(Messages!Pieces)
    /\ calls \in Seq(Seq(Messages!Pieces)) /\ said \in Seq(Seq(Messages!Pieces))
SendPlace ==
    /\ console_pc \in {"divide", "scale", "idle"} => format = << >> /\ text = << >>
    /\ console_pc = "format" => text = << >>
    /\ console_pc = "write" => text # << >> /\ ~tx_busy
    /\ console_pc \in {"divide", "scale"} => ~tx_busy
SendText ==
    /\ Messages!WithoutReturns(Stream) \o Messages!Heard(format) = Messages!HeardAll
    /\ Paired(Stream)
SendIInv == SendTypes /\ SendPlace /\ SendText

LEMMA AllHeardNext ==
    ASSUME DevicesAssumption, NEW s1 \in Seq(Seq(Messages!Pieces)), NEW f \in Seq(Messages!Pieces)
    PROVE  Messages!FlattenSeq([k \in 1 .. Len(Append(s1, f)) |-> Messages!Heard(Append(s1, f)[k])])
               = Messages!FlattenSeq([k \in 1 .. Len(s1) |-> Messages!Heard(s1[k])]) \o Messages!Heard(f)
<1> DEFINE H1 == [k \in 1 .. Len(s1) |-> Messages!Heard(s1[k])]
           a == Append(s1, f)
           H == [k \in 1 .. Len(a) |-> Messages!Heard(a[k])]
<1>1. PICK n : n = Len(s1) /\ n \in Nat
  <2>1. Len(s1) \in Nat
    OBVIOUS
  <2> QED
    BY ONLY <2>1
<1>2. Len(a) = n + 1 /\ a[n + 1] = f /\ \A k \in 1 .. n : a[k] = s1[k] /\ a \in Seq(Seq(Messages!Pieces))
  BY <1>1
<1>3. H1 \in Seq(Seq(Nat)) /\ Len(H1) = n /\ \A k \in 1 .. n : H1[k] = Messages!Heard(s1[k])
  <2>1. \A k \in 1 .. n : Messages!Heard(s1[k]) \in Seq(Nat)
    BY <1>1, HeardType
  <2> QED
    BY <1>1, <2>1
<1>4. PICK h : h = Messages!Heard(f) /\ h \in Seq(Nat)
  BY HeardType
<1>5. H = [k \in 1 .. n + 1 |-> Messages!Heard(a[k])]
  BY <1>2
<1> HIDE DEF H1, H, a
<1>6. PICK q : q = <<h>> /\ q \in Seq(Seq(Nat)) /\ Len(q) = 1 /\ q[1] = h
  BY <1>4, SingleIs
<1>7. H1 \o q \in Seq(Seq(Nat)) /\ Len(H1 \o q) = n + 1
      /\ \A k \in 1 .. n + 1 : (H1 \o q)[k] = IF k <= n THEN H1[k] ELSE q[k - n]
  BY ONLY <1>1, <1>3, <1>6
<1>8. H = H1 \o q
  <2>1. \A k \in 1 .. n + 1 : Messages!Heard(a[k]) = (H1 \o q)[k]
    <3> TAKE k \in 1 .. n + 1
    <3>1. CASE k <= n
      <4>1. k \in 1 .. n
        BY <1>1, <3>1
      <4> QED
        BY <1>2, <1>3, <1>7, <3>1, <4>1
    <3>2. CASE k = n + 1
      <4>1. ~(k <= n) /\ k - n = 1
        BY <1>1, <3>2
      <4> QED
        BY <1>2, <1>4, <1>6, <1>7, <3>2, <4>1
    <3>3. k <= n \/ k = n + 1
      BY <1>1
    <3> QED
      BY <3>1, <3>2, <3>3, Zenon
  <2>2. PICK L : L = H1 \o q
    OBVIOUS
  <2>3. L = [k \in 1 .. n + 1 |-> L[k]]
    BY ONLY <1>7, <2>2, SequenceIs
  <2>4. \A k \in 1 .. n + 1 : Messages!Heard(a[k]) = L[k]
    BY ONLY <2>1, <2>2
  <2> QED
    BY ONLY <1>5, <2>2, <2>3, <2>4
<1>9. Messages!FlattenSeq(H1 \o q) = Messages!FlattenSeq(H1) \o Messages!FlattenSeq(q)
  BY ONLY <1>3, <1>6, FlatConcat
<1>10. Messages!FlattenSeq(q) = h
  BY <1>4, <1>6, FlatOne
<1> QED
  BY <1>4, <1>8, <1>9, <1>10 DEF H, H1, a

LEMMA StreamTypes ==
    ASSUME SendTypes
    PROVE  InFlight \in Seq(Nat) /\ InFlight \o text \in Seq(Nat) /\ Stream \in Seq(Nat)
<1>1. InFlight \in Seq(Nat)
  BY DEF SendTypes, InFlight
<1>2. line \in Seq(Nat) /\ text \in Seq(Nat)
  BY DEF SendTypes
<1>3. InFlight \o text \in Seq(Nat)
  BY ONLY <1>1, <1>2
<1>4. line \o (InFlight \o text) \in Seq(Nat)
  BY ONLY <1>2, <1>3
<1> QED
  BY <1>1, <1>3, <1>4 DEF Stream

\* A step that leaves the stream and the format leaves what is said of them.
LEMMA SameStream ==
    ASSUME SendText, Stream' = Stream, format' = format, said' = said
    PROVE  SendText'
<1>1. Messages!HeardAll' = Messages!HeardAll
  BY DEF Messages!HeardAll
<1> QED
  BY <1>1 DEF SendText

LEMMA CallSends ==
    ASSUME DevicesAssumption, SendIInv, Messages!Call
    PROVE  SendIInv'
<1>1. console_pc = "idle" /\ calls # << >> /\ format' = Head(calls) /\ calls' = Tail(calls)
      /\ said' = Append(said, Head(calls)) /\ console_pc' = "format"
      /\ UNCHANGED <<text, sreg, tx_busy, tx_bitcnt, line>>
  BY DEF Messages!Call, Messages!uartVars
<1>2. PICK f : f = Head(calls) /\ f \in Seq(Messages!Pieces) /\ Tail(calls) \in Seq(Seq(Messages!Pieces))
  <2>1. calls \in Seq(Seq(Messages!Pieces))
    BY DEF SendIInv, SendTypes
  <2>2. Head(calls) \in Seq(Messages!Pieces) /\ Tail(calls) \in Seq(Seq(Messages!Pieces))
    BY ONLY <1>1, <2>1
  <2> QED
    BY ONLY <2>2
<1>3. SendTypes'
  <2>1. Append(said, f) \in Seq(Seq(Messages!Pieces))
    BY <1>2 DEF SendIInv, SendTypes
  <2> QED
    BY <1>1, <1>2, <2>1 DEF SendIInv, SendTypes
<1>4. SendPlace'
  BY <1>1 DEF SendIInv, SendPlace
<1>5. SendText'
  <2>1. Stream' = Stream
    BY <1>1 DEF Stream, InFlight
  <2>2. format = << >> /\ format \in Seq(Messages!Pieces) /\ said \in Seq(Seq(Messages!Pieces))
    BY <1>1 DEF SendIInv, SendPlace, SendTypes
  <2>3. Messages!Heard(format) = << >>
    BY <2>2, HeardNone
  <2>4. PICK w : w = Messages!WithoutReturns(Stream) /\ w \in Seq(Nat)
    BY StreamTypes, WithoutType DEF SendIInv
  <2>5. w = Messages!HeardAll
    <3>1. w \o << >> = w
      BY <2>4
    <3> QED
      BY <2>3, <2>4, <3>1 DEF SendIInv, SendText
  <2>6. Messages!HeardAll' = Messages!HeardAll \o Messages!Heard(f)
    BY <1>1, <1>2, <2>2, AllHeardNext DEF Messages!HeardAll
  <2> QED
    BY <1>1, <1>2, <2>1, <2>4, <2>5, <2>6 DEF SendIInv, SendText
<1> QED
  BY <1>3, <1>4, <1>5 DEF SendIInv

LEMMA PieceSends ==
    ASSUME DevicesAssumption, SendIInv, Messages!Piece
    PROVE  SendIInv'
<1>1. console_pc = "format" /\ format # << >> /\ UNCHANGED <<calls, said, sreg, tx_busy, tx_bitcnt, line>>
  BY DEF Messages!Piece, Messages!uartVars
<1>2. format \in Seq(Messages!Pieces) /\ text = << >>
  BY <1>1 DEF SendIInv, SendTypes, SendPlace
<1>3. PICK first, rest : first = Head(format) /\ rest = Tail(format) /\ first \in Messages!Pieces
                         /\ rest \in Seq(Messages!Pieces)
  <2>1. Head(format) \in Messages!Pieces /\ Tail(format) \in Seq(Messages!Pieces)
    BY ONLY <1>1, <1>2
  <2> QED
    BY ONLY <2>1
<1>4. CASE first.kind \in Messages!Known
  <2>1. text' = Messages!Characters(first) /\ format' = rest /\ console_pc' = "putc"
    BY <1>3, <1>4 DEF Messages!Piece
  <2>2. PICK t : t = Messages!Characters(first)
    OBVIOUS
  <2>3. t \in Seq(Nat) /\ Paired(t) /\ Messages!WithoutReturns(t) = Messages!Meaning(first)
        /\ Messages!Meaning(first) \in Seq(Nat)
    BY <1>3, <1>4, <2>2, CharactersMean
  <2>4. Messages!Heard(format) = Messages!Meaning(first) \o Messages!Heard(rest)
    BY <1>1, <1>2, <1>3, <1>4, HeardFirst
  <2>5. Stream' = Stream \o t
    <3>1. PICK a, b : a = line /\ b = InFlight /\ a \in Seq(Nat) /\ b \in Seq(Nat)
      BY StreamTypes DEF SendIInv, SendTypes
    <3>2. Stream = a \o b
      <4>1. b \o << >> = b
        BY ONLY <3>1
      <4> QED
        BY <1>2, <3>1, <4>1 DEF Stream
    <3>3. Stream' = a \o (b \o t)
      BY <1>1, <2>1, <2>2, <3>1 DEF Stream, InFlight
    <3>4. (a \o b) \o t = a \o (b \o t)
      <4>1. a \in Seq(Nat) /\ b \in Seq(Nat) /\ t \in Seq(Nat)
        BY ONLY <2>3, <3>1
      <4>2. Associate(a, b, t)
        BY ONLY <4>1, Associates, Zenon
      <4> QED
        BY ONLY <4>2 DEF Associate
    <3> QED
      BY ONLY <3>2, <3>3, <3>4
  <2>6. PICK S : S = Stream /\ S \in Seq(Nat) /\ Paired(S)
    BY StreamTypes DEF SendIInv, SendText
  <2>7. Paired(S \o t) /\ Messages!WithoutReturns(S \o t) = Messages!WithoutReturns(S) \o Messages!Meaning(first)
    BY ONLY <2>3, <2>6, PairedConcat, WithoutConcat
  <2>8. (Messages!WithoutReturns(S) \o Messages!Meaning(first)) \o Messages!Heard(rest)
            = Messages!WithoutReturns(S) \o (Messages!Meaning(first) \o Messages!Heard(rest))
    <3>1. PICK a, b, d : a = Messages!WithoutReturns(S) /\ b = Messages!Meaning(first) /\ d = Messages!Heard(rest)
      OBVIOUS
    <3>2. a \in Seq(Nat) /\ b \in Seq(Nat) /\ d \in Seq(Nat)
      BY ONLY DevicesAssumption, <1>3, <2>3, <2>6, <3>1, WithoutType, HeardType
    <3>4. (a \o b) \o d = a \o (b \o d)
      <4>1. Associate(a, b, d)
        BY ONLY <3>2, Associates, Zenon
      <4> QED
        BY ONLY <4>1 DEF Associate
    <3> QED
      BY ONLY <3>1, <3>4
  <2>9. Messages!HeardAll' = Messages!HeardAll
    BY <1>1 DEF Messages!HeardAll
  <2>10. SendText'
    <3>1. Messages!WithoutReturns(S) \o Messages!Heard(format) = Messages!HeardAll
      BY <2>6 DEF SendIInv, SendText
    <3>2. Stream' = S \o t
      BY <2>5, <2>6
    <3> QED
      BY ONLY <2>1, <2>4, <2>7, <2>8, <2>9, <3>1, <3>2 DEF SendText
  <2>11. SendTypes' /\ SendPlace'
    BY <1>1, <1>3, <2>1, <2>2, <2>3 DEF SendIInv, SendTypes, SendPlace
  <2> QED
    BY <2>10, <2>11 DEF SendIInv
<1>5. CASE first.kind \notin Messages!Known
  <2>1. console_pc' = "idle" /\ format' = << >> /\ text' = text
    BY <1>3, <1>5 DEF Messages!Piece
  <2>2. Messages!Heard(format) = << >> /\ Messages!Heard(<< >>) = << >>
    <3>1. << >> \in Seq(Messages!Pieces)
      OBVIOUS
    <3> QED
      BY <1>2, <1>3, <1>5, <3>1, HeardNone
  <2>3. Stream' = Stream /\ Messages!HeardAll' = Messages!HeardAll
    BY <1>1, <2>1 DEF Stream, InFlight, Messages!HeardAll
  <2>4. SendText'
    BY <2>1, <2>2, <2>3 DEF SendIInv, SendText
  <2>5. SendTypes' /\ SendPlace'
    BY <1>1, <1>2, <2>1 DEF SendIInv, SendTypes, SendPlace
  <2> QED
    BY <2>4, <2>5 DEF SendIInv
<1> QED
  BY <1>4, <1>5

LEMMA WriteSends ==
    ASSUME SendIInv, RateFound, Messages!Write
    PROVE  SendIInv'
<1>1. console_pc = "write" /\ text # << >> /\ ~tx_busy /\ ct.en
  BY DEF Messages!Write, SendIInv, SendPlace, RateFound, RateTypes, SettingUp
<1>2. text' = Tail(text) /\ console_pc' = "putc" /\ sreg' = Head(text) /\ tx_busy' = TRUE
      /\ tx_bitcnt' = 10 /\ UNCHANGED <<calls, format, said, line>>
  BY <1>1 DEF Messages!Write
<1>3. text \in Seq(Nat) /\ Head(text) \in Nat /\ Tail(text) \in Seq(Nat)
  BY <1>1 DEF SendIInv, SendTypes
<1>4. SendTypes' /\ SendPlace'
  BY <1>1, <1>2, <1>3 DEF SendIInv, SendTypes, SendPlace
<1>5. Stream' = Stream
  <2>1. InFlight = << >> /\ InFlight' = <<Head(text)>>
    BY <1>1, <1>2 DEF InFlight
  <2>2. << >> \o text = text /\ <<Head(text)>> \o Tail(text) = text
    BY ONLY <1>1, <1>3
  <2> QED
    BY <1>2, <2>1, <2>2 DEF Stream
<1> QED
  BY <1>2, <1>4, <1>5, SameStream DEF SendIInv

LEMMA TransmitSends ==
    ASSUME SendIInv, Messages!Transmit
    PROVE  SendIInv'
<1>1. tx_busy /\ tx_bitcnt' = (tx_bitcnt - 1) % 16 /\ tx_busy' = (tx_bitcnt # 0)
      /\ line' = (IF tx_bitcnt = 2 THEN Append(line, sreg) ELSE line)
      /\ UNCHANGED <<sreg, console_pc, calls, format, text, said>>
  BY DEF Messages!Transmit
<1>2. tx_bitcnt \in 0 .. 10 /\ sreg \in Nat /\ line \in Seq(Nat) /\ text \in Seq(Nat)
  BY <1>1 DEF SendIInv, SendTypes
<1>3. tx_bitcnt' = (IF tx_bitcnt = 0 THEN 15 ELSE tx_bitcnt - 1)
  <2>1. \A n \in 0 .. 10 : (n - 1) % 16 = IF n = 0 THEN 15 ELSE n - 1
    OBVIOUS
  <2> QED
    BY ONLY <1>1, <1>2, <2>1
<1>4. SendTypes'
  <2>1. line' \in Seq(Nat)
    BY <1>1, <1>2
  <2>2. tx_bitcnt' \in 0 .. 15
    BY ONLY <1>2, <1>3
  <2>3. tx_bitcnt # 0 => tx_bitcnt' <= 10
    BY ONLY <1>2, <1>3
  <2>4. tx_busy' \in BOOLEAN /\ (tx_busy' => tx_bitcnt' <= 10)
    BY ONLY <1>1, <2>3, Zenon
  <2> QED
    BY <1>1, <2>1, <2>2, <2>4 DEF SendIInv, SendTypes
<1>5. SendPlace'
  <2>1. console_pc # "write" /\ console_pc \notin {"divide", "scale"}
    BY <1>1 DEF SendIInv, SendPlace
  <2> QED
    BY <1>1, <2>1 DEF SendIInv, SendPlace
<1>6. Stream' = Stream
  <2>1. CASE tx_bitcnt = 2
    <3>1. InFlight = <<sreg>> /\ InFlight' = << >> /\ line' = Append(line, sreg)
      BY <1>1, <1>2, <1>3, <2>1 DEF InFlight
    <3>2. << >> \o text = text /\ Append(line, sreg) = line \o <<sreg>> /\ <<sreg>> \in Seq(Nat)
      BY ONLY <1>2
    <3>3. (line \o <<sreg>>) \o text = line \o (<<sreg>> \o text)
      <4>1. line \in Seq(Nat) /\ <<sreg>> \in Seq(Nat) /\ text \in Seq(Nat)
        BY ONLY <1>2, <3>2
      <4>2. Associate(line, <<sreg>>, text)
        BY ONLY <4>1, Associates, Zenon
      <4> QED
        BY ONLY <4>2 DEF Associate
    <3> QED
      BY <1>1, <3>1, <3>2, <3>3 DEF Stream
  <2>2. CASE tx_bitcnt # 2
    <3>1. line' = line /\ sreg' = sreg
      BY ONLY <1>1, <2>2
    <3>2. (tx_busy /\ tx_bitcnt >= 2) <=> (tx_busy' /\ tx_bitcnt' >= 2)
      <4>1. tx_bitcnt # 0 => (tx_bitcnt >= 2 <=> tx_bitcnt' >= 2)
        BY ONLY <1>2, <1>3, <2>2
      <4>2. tx_bitcnt = 0 => ~(tx_bitcnt >= 2)
        OBVIOUS
      <4> QED
        BY ONLY <1>1, <4>1, <4>2, Zenon
    <3>3. InFlight' = InFlight
      BY ONLY <3>1, <3>2 DEF InFlight
    <3> QED
      BY <1>1, <3>1, <3>3 DEF Stream
  <2> QED
    BY <2>1, <2>2
<1> QED
  BY <1>1, <1>4, <1>5, <1>6, SameStream DEF SendIInv

LEMMA OtherSends ==
    ASSUME SendIInv, SendPlace', UNCHANGED <<sreg, tx_busy, tx_bitcnt, line, text, format, calls, said>>,
           console_pc' \in {"divide", "scale", "idle", "format", "putc", "write"}
    PROVE  SendIInv'
<1>1. SendTypes' /\ Stream' = Stream
  BY DEF SendIInv, SendTypes, Stream, InFlight
<1> QED
  BY <1>1, SameStream DEF SendIInv

LEMMA SendStep ==
    ASSUME DevicesAssumption, SendIInv, RateFound, [Messages!Next]_consoleVars
    PROVE  SendIInv'
<1>1. CASE Messages!Divide
  BY <1>1, OtherSends DEF Messages!Divide, Messages!uartVars, SendIInv, SendPlace
<1>2. CASE Messages!Scale
  BY <1>2, OtherSends DEF Messages!Scale, Messages!uartVars, SendIInv, SendPlace
<1>3. CASE Messages!Enable
  BY <1>3, OtherSends DEF Messages!Enable, Messages!uartVars, SendIInv, SendPlace
<1>5. CASE Messages!Call
  BY <1>5, CallSends
<1>6. CASE Messages!Piece
  BY <1>6, PieceSends
<1>7. CASE Messages!Printed
  BY <1>7, OtherSends DEF Messages!Printed, Messages!uartVars, SendIInv, SendPlace
<1>8. CASE Messages!Putc
  BY <1>8, OtherSends DEF Messages!Putc, Messages!uartVars, SendIInv, SendPlace
<1>9. CASE Messages!Write
  BY <1>9, WriteSends
<1>10. CASE Messages!Transmit
  BY <1>10, TransmitSends
<1>11. CASE UNCHANGED consoleVars \/ Messages!Done
  <2>1. UNCHANGED consoleVars
    BY <1>11 DEF Messages!Done, Messages!vars, consoleVars
  <2> QED
    BY <2>1, OtherSends DEF consoleVars, SendIInv, SendPlace, SendTypes
<1> QED
  BY <1>1, <1>2, <1>3, <1>5, <1>6, <1>7, <1>8, <1>9, <1>10, <1>11 DEF Messages!Next, Messages!Firmware

LEMMA SendKept ==
    ASSUME DevicesAssumption, SendIInv, RateFound
    PROVE  Messages!TypeOK /\ Messages!TextWhole /\ Messages!Readable
<1>1. Messages!TypeOK
  <2>1. p \in 0 .. 7
    BY DEF RateFound, RateTypes
  <2>2. i \in Nat /\ i < 65536
    <3>1. i \in Nat /\ i <= Divisors(p) /\ p \in 0 .. 3
      BY DEF RateFound, RateTypes
    <3>2. Divisors(p) <= 65535 /\ Divisors(p) \in Nat
      BY ONLY <3>1 DEF Divisors
    <3> QED
      BY ONLY <3>1, <3>2
  <2>3. /\ console_pc \in {"divide", "scale", "idle", "format", "putc", "write"}
        /\ tx_busy \in BOOLEAN /\ tx_bitcnt \in 0 .. 15
    BY DEF SendIInv, SendTypes
  <2> QED
    BY ONLY <2>1, <2>2, <2>3 DEF Messages!TypeOK
<1>2. Messages!TextWhole
  <2>1. PICK a, b, S : a = line /\ b = InFlight \o text /\ S = Stream
    OBVIOUS
  <2>2. a \in Seq(Nat) /\ b \in Seq(Nat) /\ S = a \o b /\ S \in Seq(Nat)
    BY <2>1, StreamTypes DEF Stream, SendIInv, SendTypes
  <2>3. Paired(S) /\ Messages!WithoutReturns(S) \o Messages!Heard(format) = Messages!HeardAll
    BY <2>1 DEF SendIInv, SendText
  <2>4. Paired(a)
    BY ONLY <2>2, <2>3, PairedFirst
  <2>5. Messages!WithoutReturns(S) = Messages!WithoutReturns(a) \o Messages!WithoutReturns(b)
    BY ONLY <2>2, WithoutConcat
  <2>6. format \in Seq(Messages!Pieces)
    BY DEF SendIInv, SendTypes
  <2>7. PICK x, y, h : x = Messages!WithoutReturns(a) /\ y = Messages!WithoutReturns(b) /\ h = Messages!Heard(format)
    OBVIOUS
  <2>8. x \in Seq(Nat) /\ y \in Seq(Nat) /\ h \in Seq(Nat)
    BY ONLY DevicesAssumption, <2>2, <2>6, <2>7, WithoutType, HeardType
  <2>9. (x \o y) \o h = Messages!HeardAll
    BY <2>3, <2>5, <2>7
  <2>10. x \o (y \o h) = Messages!HeardAll
    <3>2. (x \o y) \o h = x \o (y \o h)
      <4>1. Associate(x, y, h)
        BY ONLY <2>8, Associates, Zenon
      <4> QED
        BY ONLY <4>1 DEF Associate
    <3> QED
      BY ONLY <2>9, <3>2
  <2>11. Messages!IsPrefix(x, Messages!HeardAll)
    <3>1. PICK z : z = y \o h /\ z \in Seq(Nat)
      <4>1. y \o h \in Seq(Nat)
        BY ONLY <2>8
      <4> QED
        BY ONLY <4>1
    <3>2. PICK r : r = x \o z /\ r \in Seq(Nat) /\ Len(x) <= Len(r) /\ \A k \in 1 .. Len(x) : r[k] = x[k]
      <4>1. x \o z \in Seq(Nat) /\ Len(x) <= Len(x \o z) /\ \A k \in 1 .. Len(x) : (x \o z)[k] = x[k]
        BY ONLY <2>8, <3>1
      <4> QED
        BY ONLY <4>1
    <3>3. SubSeq(x, 1, Len(x)) = SubSeq(r, 1, Len(x))
      <4>1. PICK n : n = Len(x) /\ n \in Nat /\ n <= Len(r)
        <5>1. Len(x) \in Nat
          BY ONLY <2>8
        <5> QED
          BY ONLY <3>2, <5>1
      <4>2. SubSeq(x, 1, n) = [k \in 1 .. n |-> x[k]]
        BY ONLY <2>8, <4>1
      <4>3. SubSeq(r, 1, n) = [k \in 1 .. n |-> r[k]]
        BY ONLY <3>2, <4>1
      <4> QED
        BY ONLY <3>2, <4>1, <4>2, <4>3
    <3>4. r = Messages!HeardAll
      BY <2>10, <3>1, <3>2
    <3> QED
      BY ONLY <3>2, <3>3, <3>4 DEF Messages!IsPrefix
  <2>12. console_pc = "idle" /\ ~tx_busy => x = Messages!HeardAll
    <3> SUFFICES ASSUME console_pc = "idle", ~tx_busy PROVE x = Messages!HeardAll
      OBVIOUS
    <3>1. format = << >> /\ text = << >> /\ InFlight = << >>
      BY DEF SendIInv, SendPlace, InFlight
    <3>2. b = << >>
      BY <2>1, <3>1
    <3>3. y = << >> /\ h = << >>
      BY <2>6, <2>7, <3>1, <3>2, WithoutNone, HeardNone
    <3>4. x \o (<< >> \o << >>) = x
      BY ONLY <2>8
    <3> QED
      BY <2>10, <3>3, <3>4
  <2> QED
    BY <2>1, <2>4, <2>7, <2>11, <2>12 DEF Messages!TextWhole, Paired, LF, CR
<1> QED
  BY <1>1, <1>2, RateReadable

LEMMA InitSend ==
    ASSUME DevicesAssumption, Messages!Init
    PROVE  SendIInv /\ RateFound
<1>1. console_pc = "divide" /\ calls \in Programs /\ format = << >> /\ text = << >> /\ line = << >>
      /\ said = << >> /\ tx_busy = FALSE /\ tx_bitcnt = 10 /\ sreg = 19
  BY DEF Messages!Init, Messages!Letter
<1>2. SendTypes /\ SendPlace
  <2>1. calls \in Seq(Seq(Messages!Pieces))
    BY <1>1 DEF DevicesAssumption, Messages!ConsoleAssumption
  <2>2. /\ << >> \in Seq(Nat) /\ << >> \in Seq(Messages!Pieces)
        /\ << >> \in Seq(Seq(Messages!Pieces))
    OBVIOUS
  <2>3. sreg \in Nat /\ tx_bitcnt \in 0 .. 15 /\ tx_bitcnt <= 10
    BY ONLY <1>1
  <2>4. tx_busy \in BOOLEAN /\ ~tx_busy
    BY ONLY <1>1
  <2>5. SendTypes
    BY ONLY <1>1, <2>1, <2>2, <2>3, <2>4 DEF SendTypes
  <2>6. SendPlace
    BY ONLY <1>1, <2>4 DEF SendPlace
  <2> QED
    BY ONLY <2>5, <2>6
<1>3. SendText
  <2>1. Stream = << >>
    BY <1>1 DEF Stream, InFlight
  <2>2. Messages!Heard(<< >>) = << >>
    <3>1. << >> \in Seq(Messages!Pieces)
      OBVIOUS
    <3> QED
      BY <3>1, HeardNone
  <2>3. Messages!HeardAll = << >>
    <3>1. [k \in 1 .. Len(<< >>) |-> Messages!Heard(<< >>[k])] = << >>
      OBVIOUS
    <3> QED
      BY <1>1, <3>1, FlatNone DEF Messages!HeardAll
  <2> QED
    BY <1>1, <2>1, <2>2, <2>3, WithoutNone DEF SendText, Paired
<1>4. RateFound
  <2>1. baud \in Bauds /\ i = 0 /\ p = 0 /\ ct.en = FALSE
    BY DEF Messages!Init, Messages!Off
  <2> QED
    BY <1>1, <2>1 DEF RateFound, RateTypes, RateAsked, RateKept, SettingUp, Divisors
<1> QED
  BY <1>2, <1>3, <1>4 DEF SendIInv

-----------------------------------------------------------------------------
(***************************************************************************)
(* What comes in: a line is made of the keys that were read.               *)
(***************************************************************************)
EditedFrom(f, keys, n) ==
    /\ f[0] = << >>
    /\ \A k \in 1 .. Len(keys) : f[k] = Input!EditedBy(f[k - 1], keys[k], n)
    /\ f[Len(keys)] = Input!Edited(keys, n)

LEMMA EditType ==
    ASSUME NEW b \in Seq(Input!Character), NEW k \in Input!Character, NEW n
    PROVE  Input!EditedBy(b, k, n) \in Seq(Input!Character)
<1>1. Append(b, k) \in Seq(Input!Character)
  OBVIOUS
<1>2. b # << >> => Input!Front(b) \in Seq(Input!Character)
  BY DEF Input!Front
<1> QED
  BY <1>1, <1>2 DEF Input!EditedBy

\* Edited is what the keys make one after the other.
LEMMA EditedAs ==
    ASSUME NEW keys \in Seq(Input!Character), NEW n
    PROVE  \E f : EditedFrom(f, keys, n)
<1>1. PICK m : m = Len(keys) /\ m \in Nat
  <2>1. Len(keys) \in Nat
    OBVIOUS
  <2> QED
    BY ONLY <2>1
<1>2. PICK A : A = Seq(Input!Character) /\ << >> \in A
  <2>1. << >> \in Seq(Input!Character)
    OBVIOUS
  <2> QED
    BY ONLY <2>1
<1> DEFINE Out(f) == [k \in 0 .. m |-> IF k = 0 THEN << >> ELSE Input!EditedBy(f[k - 1], keys[k], n)]
           d == CHOOSE f : f = Out(f)
           h == [t \in (1 .. m) \X A |-> Input!EditedBy(t[2], keys[t[1]], n)]
<1>3. ASSUME NEW k \in 1 .. m, NEW y \in A
      PROVE  h[<<k, y>>] = Input!EditedBy(y, keys[k], n) /\ h[<<k, y>>] \in A
  <2>1. keys[k] \in Input!Character
    BY <1>1
  <2>2. Input!EditedBy(y, keys[k], n) \in A
    BY <1>2, <2>1, EditType
  <2>3. <<k, y>> \in (1 .. m) \X A
    OBVIOUS
  <2> QED
    BY <2>2, <2>3
<1> HIDE DEF h
<1>4. Made(h, m, A, << >>)
  <2>1. Makes(h, m, A)
    BY <1>3 DEF Makes
  <2>2. PICK e : e = << >> /\ e \in A
    BY <1>2
  <2>3. Made(h, m, A, e)
    BY ONLY <1>1, <2>1, <2>2, Recursion
  <2> QED
    BY <2>2, <2>3
<1>5. PICK f \in [0 .. m -> A] : f[0] = << >> /\ \A k \in 1 .. m : f[k] = h[<<k, f[k - 1]>>]
  BY <1>4 DEF Made
<1>6. ASSUME NEW k \in 1 .. m PROVE f[k] = Input!EditedBy(f[k - 1], keys[k], n)
  <2>1. k - 1 \in 0 .. m
    BY <1>1
  <2>2. f[k - 1] \in A
    BY <2>1
  <2> QED
    BY <1>3, <1>5, <2>2
<1>7. f = Out(f)
  BY <1>1, <1>5, <1>6
<1>8. d = Out(d)
  BY <1>7
<1>9. Input!Edited(keys, n) = d[m]
  BY <1>1 DEF Input!Edited
<1> HIDE DEF d
<1>10. d[0] = << >> /\ \A k \in 1 .. m : d[k] = Input!EditedBy(d[k - 1], keys[k], n)
  BY <1>1, <1>8
<1>11. EditedFrom(d, keys, n)
  BY <1>1, <1>9, <1>10 DEF EditedFrom
<1> QED
  BY <1>11

LEMMA EditedNone ==
    ASSUME NEW n PROVE Input!Edited(<< >>, n) = << >>
<1>1. << >> \in Seq(Input!Character) /\ Len(<< >>) = 0
  OBVIOUS
<1>2. PICK f : EditedFrom(f, << >>, n)
  BY <1>1, EditedAs
<1> QED
  BY <1>1, <1>2 DEF EditedFrom

\* One more key edits the line as it is.
LEMMA EditedNext ==
    ASSUME NEW keys \in Seq(Input!Character), NEW x \in Input!Character, NEW n
    PROVE  Input!Edited(Append(keys, x), n) = Input!EditedBy(Input!Edited(keys, n), x, n)
<1>1. PICK m : m = Len(keys) /\ m \in Nat
  <2>1. Len(keys) \in Nat
    OBVIOUS
  <2> QED
    BY ONLY <2>1
<1>2. PICK a : /\ a = Append(keys, x) /\ a \in Seq(Input!Character) /\ Len(a) = m + 1
               /\ a[m + 1] = x /\ \A k \in 1 .. m : a[k] = keys[k]
  <2>1. /\ Append(keys, x) \in Seq(Input!Character) /\ Len(Append(keys, x)) = m + 1
        /\ Append(keys, x)[m + 1] = x /\ \A k \in 1 .. m : Append(keys, x)[k] = keys[k]
    BY <1>1
  <2> QED
    BY ONLY <2>1
<1>3. PICK f : EditedFrom(f, keys, n)
  BY EditedAs
<1>4. PICK g : EditedFrom(g, a, n)
  BY ONLY <1>2, EditedAs
<1>5. f[0] = << >> /\ f[m] = Input!Edited(keys, n)
      /\ \A k \in 1 .. m : f[k] = Input!EditedBy(f[k - 1], keys[k], n)
  BY ONLY <1>1, <1>3 DEF EditedFrom
<1>6. g[0] = << >> /\ g[m + 1] = Input!Edited(a, n)
      /\ \A k \in 1 .. m + 1 : g[k] = Input!EditedBy(g[k - 1], a[k], n)
  BY ONLY <1>2, <1>4 DEF EditedFrom
<1>7. g[m] = f[m]
  <2>1. \A k \in 1 .. m : k \in 1 .. m + 1
    BY ONLY <1>1
  <2>2. \A k \in 1 .. m : g[k] = Input!EditedBy(g[k - 1], keys[k], n)
    BY ONLY <1>2, <1>6, <2>1
  <2>3. Alike(g, f, m)
    BY ONLY <1>5, <1>6, <2>2 DEF Alike
  <2> QED
    BY ONLY <1>1, <2>3, MadeAlike
<1>8. g[m + 1] = Input!EditedBy(g[m], x, n)
  <2>1. m + 1 \in 1 .. m + 1 /\ (m + 1) - 1 = m
    BY ONLY <1>1
  <2>2. g[m + 1] = Input!EditedBy(g[(m + 1) - 1], a[m + 1], n)
    BY ONLY <1>6, <2>1
  <2> QED
    BY ONLY <1>2, <2>1, <2>2
<1> QED
  BY ONLY <1>2, <1>5, <1>6, <1>7, <1>8

\* How far the keys, the receiver and the library are with each other.
Pressed == rx_done \/ rx_avail

InputTypes ==
    /\ typed \in Seq(Input!Character) /\ Len(typed) <= MaxTyped /\ rx_reg = Len(typed)
    /\ rx_done \in BOOLEAN /\ rx_avail \in BOOLEAN
    /\ heard \in Seq(Nat) /\ \A j \in 1 .. Len(heard) : heard[j] \in 1 .. Len(typed)
    /\ buffer \in Seq(Input!Character)
    /\ max_size \in Nat \ {0}
    /\ caller \in {"scan", "poll"} /\ patient \in BOOLEAN
    /\ input_pc \in IF caller = "scan" THEN {"get", "edit", "echo", "line"} ELSE {"get", "received", "line"}
InputPlace ==
    /\ Pressed \/ input_pc = "received" => Len(typed) > 0
    /\ (caller = "scan" \/ input_pc = "get") /\ ~Pressed /\ Len(typed) > 0 =>
           Len(heard) > 0 /\ heard[Len(heard)] = Len(typed)
    /\ caller = "scan" /\ Pressed => \A j \in 1 .. Len(heard) : heard[j] < Len(typed)
    /\ caller = "scan" /\ patient => Len(typed) = Len(heard) + (IF Pressed THEN 1 ELSE 0)
InputOrder ==
    /\ caller = "scan" => \A j \in 1 .. Len(heard) - 1 : heard[j] < heard[j + 1]
    /\ caller = "poll" => \A j \in 1 .. Len(heard) - 1 : heard[j] <= heard[j + 1]
InputLine ==
    caller = "scan" =>
        /\ Len(buffer) < max_size
        /\ Input!Edited(Input!HeardKeys, max_size - 1) =
               IF input_pc = "edit" THEN Input!EditedBy(buffer, c, max_size - 1) ELSE buffer

\* What the terminal shows: n characters of the line, the cursor, and blanks
\* from a place on.
Cell == Input!Character \cup {Input!Space}
OnScreen(n, at, blank) ==
    /\ screen.cursor = at /\ n <= Len(screen.cells)
    /\ \A j \in 1 .. n : screen.cells[j] = buffer[j]
    /\ \A j \in blank + 1 .. Len(screen.cells) : screen.cells[j] = Input!Space

EchoPlace ==
    LET n == Len(buffer)
    IN  \/ /\ out = << >> /\ OnScreen(n, n, n)
        \/ /\ input_pc = "echo" /\ n > 0 /\ out = <<buffer[n]>> /\ buffer[n] \in Input!Shown
           /\ OnScreen(n - 1, n - 1, n - 1)
        \/ /\ input_pc = "echo" /\ out = <<Input!Backspace, Input!Space, Input!Backspace>>
           /\ OnScreen(n, n + 1, n + 1) /\ n < Len(screen.cells)
        \/ /\ input_pc = "echo" /\ out = <<Input!Space, Input!Backspace>>
           /\ OnScreen(n, n, n + 1) /\ n < Len(screen.cells)
        \/ /\ input_pc = "echo" /\ out = <<Input!Backspace>>
           /\ OnScreen(n, n + 1, n) /\ n < Len(screen.cells)
InputScreen ==
    caller = "scan" /\ echo => screen \in [cells : Seq(Cell), cursor : Nat] /\ EchoPlace

InputIInv == InputTypes /\ InputPlace /\ InputOrder /\ InputLine /\ InputScreen

LEMMA HeardKeysType ==
    ASSUME InputTypes
    PROVE  Input!HeardKeys \in Seq(Input!Character) /\ Len(Input!HeardKeys) = Len(heard)
<1>1. heard \in Seq(Nat) /\ typed \in Seq(Input!Character)
      /\ \A j \in 1 .. Len(heard) : heard[j] \in 1 .. Len(typed)
  BY DEF InputTypes
<1>2. \A j \in 1 .. Len(heard) : typed[heard[j]] \in Input!Character
  BY ONLY <1>1
<1>3. PICK m : m = Len(heard) /\ m \in Nat
  <2>1. Len(heard) \in Nat
    BY ONLY <1>1
  <2> QED
    BY ONLY <2>1
<1>4. [j \in 1 .. m |-> typed[heard[j]]] \in Seq(Input!Character) /\ Len([j \in 1 .. m |-> typed[heard[j]]]) = m
  BY ONLY <1>2, <1>3
<1> QED
  BY ONLY <1>3, <1>4 DEF Input!HeardKeys

\* A step that has nothing to do with the screen.
LEMMA SameScreen ==
    ASSUME InputScreen, UNCHANGED <<caller, echo, screen, buffer, out>>,
           input_pc = "echo" => input_pc' = "echo"
    PROVE  InputScreen'
<1> SUFFICES ASSUME caller = "scan", echo
             PROVE  screen' \in [cells : Seq(Cell), cursor : Nat] /\ EchoPlace'
  BY DEF InputScreen
<1>1. screen \in [cells : Seq(Cell), cursor : Nat] /\ EchoPlace
  BY DEF InputScreen
<1>2. \A x, y, z : OnScreen(x, y, z) => OnScreen(x, y, z)'
  BY DEF OnScreen
<1> QED
  BY <1>1, <1>2 DEF EchoPlace

LEMMA KeyPressed ==
    ASSUME InputIInv, NEW k \in Input!Character, Input!Key(k)
    PROVE  InputIInv'
<1>1. Len(typed) < MaxTyped /\ ~rx_done /\ (patient => Input!AtRest) /\ typed' = Append(typed, k)
      /\ rx_reg' = Len(typed) + 1 /\ rx_done' = TRUE
      /\ UNCHANGED <<rx_avail, input_pc, c, buffer, out, screen, heard, caller, echo, max_size, patient>>
  BY DEF Input!Key, Input!arguments
<1>2. PICK n : n = Len(typed) /\ n \in Nat /\ n < MaxTyped /\ typed \in Seq(Input!Character)
  <2>1. Len(typed) \in Nat /\ typed \in Seq(Input!Character)
    BY DEF InputIInv, InputTypes
  <2> QED
    BY ONLY <1>1, <2>1
<1>3. /\ typed' \in Seq(Input!Character) /\ Len(typed') = n + 1
      /\ \A j \in 1 .. n : typed'[j] = typed[j]
  BY ONLY <1>1, <1>2
<1>4. heard \in Seq(Nat) /\ \A j \in 1 .. Len(heard) : heard[j] \in 1 .. n
  BY <1>2 DEF InputIInv, InputTypes
<1>5. InputTypes'
  <2>1. MaxTyped \in Nat => n + 1 <= MaxTyped
    BY ONLY <1>2
  <2>2. \A j \in 1 .. Len(heard) : heard[j] \in 1 .. n + 1
    BY ONLY <1>2, <1>4
  <2>3. MaxTyped \in Nat
    BY DevicesAssumption DEF Input!InputAssumption
  <2> QED
    BY <1>1, <1>2, <1>3, <1>4, <2>1, <2>2, <2>3 DEF InputIInv, InputTypes
<1>6. InputPlace'
  <2>1. Pressed' /\ Len(typed') > 0
    BY <1>1, <1>2, <1>3 DEF Pressed
  <2>2. \A j \in 1 .. Len(heard) : heard[j] < n + 1
    BY ONLY <1>2, <1>4
  <2>3. caller = "scan" /\ patient => n + 1 = Len(heard) + 1
    <3> SUFFICES ASSUME caller = "scan", patient PROVE n = Len(heard)
      OBVIOUS
    <3>1. ~Pressed /\ n = Len(heard) + (IF Pressed THEN 1 ELSE 0)
      BY <1>1, <1>2 DEF Pressed, Input!AtRest, InputIInv, InputPlace
    <3>2. Len(heard) \in Nat
      BY ONLY <1>4
    <3> QED
      BY ONLY <3>1, <3>2
  <2> QED
    BY ONLY <1>1, <1>3, <2>1, <2>2, <2>3 DEF InputPlace
<1>7. InputOrder'
  BY <1>1 DEF InputIInv, InputOrder
<1>8. Input!HeardKeys' = Input!HeardKeys
  <2>1. \A j \in 1 .. Len(heard) : typed'[heard[j]] = typed[heard[j]]
    BY ONLY <1>3, <1>4
  <2> QED
    BY ONLY <1>1, <2>1 DEF Input!HeardKeys
<1>9. InputLine'
  BY <1>1, <1>8 DEF InputIInv, InputLine
<1>10. InputScreen'
  BY <1>1, SameScreen DEF InputIInv
<1> QED
  BY <1>5, <1>6, <1>7, <1>9, <1>10 DEF InputIInv

LEMMA KeyMarked ==
    ASSUME InputIInv, Input!Clock
    PROVE  InputIInv'
<1>1. rx_done /\ rx_avail' = TRUE /\ rx_done' = FALSE
      /\ UNCHANGED <<rx_reg, input_pc, c, buffer, out, screen, typed, heard, caller, echo, max_size, patient>>
  <2>1. rx_avail \in BOOLEAN /\ rx_done \in BOOLEAN
    BY DEF InputIInv, InputTypes
  <2> QED
    BY <2>1 DEF Input!Clock, Input!Mark, Input!arguments
<1>2. Pressed /\ Pressed'
  BY <1>1 DEF Pressed
<1>3. InputTypes' /\ InputOrder'
  BY <1>1 DEF InputIInv, InputTypes, InputOrder
<1>4. InputPlace'
  BY <1>1, <1>2 DEF InputIInv, InputPlace
<1>5. Input!HeardKeys' = Input!HeardKeys
  BY <1>1 DEF Input!HeardKeys
<1>6. InputLine'
  BY <1>1, <1>5 DEF InputIInv, InputLine
<1>7. InputScreen'
  BY <1>1, SameScreen DEF InputIInv
<1> QED
  BY <1>3, <1>4, <1>6, <1>7 DEF InputIInv

\* What a read of the last character that came adds to those heard.
LEMMA OneMoreHeard ==
    ASSUME InputIInv, Len(typed) > 0, heard' = Append(heard, rx_reg), typed' = typed
    PROVE  /\ heard' \in Seq(Nat) /\ Len(heard') = Len(heard) + 1 /\ heard'[Len(heard) + 1] = Len(typed)
           /\ \A j \in 1 .. Len(heard) : heard'[j] = heard[j]
           /\ \A j \in 1 .. Len(heard') : heard'[j] \in 1 .. Len(typed)
           /\ typed[rx_reg] \in Input!Character
           /\ Input!HeardKeys' = Append(Input!HeardKeys, typed[rx_reg])
<1>1. rx_reg = Len(typed) /\ heard \in Seq(Nat) /\ typed \in Seq(Input!Character)
      /\ \A j \in 1 .. Len(heard) : heard[j] \in 1 .. Len(typed)
  BY DEF InputIInv, InputTypes
<1>2. PICK n, m : n = Len(typed) /\ n \in Nat /\ n > 0 /\ m = Len(heard) /\ m \in Nat
  <2>1. Len(typed) \in Nat /\ Len(heard) \in Nat
    BY ONLY <1>1
  <2> QED
    BY ONLY <2>1, Len(typed) > 0
<1>3. PICK h : /\ h = heard' /\ h \in Seq(Nat) /\ Len(h) = m + 1 /\ h[m + 1] = n
               /\ \A j \in 1 .. m : h[j] = heard[j]
  <2>1. /\ Append(heard, n) \in Seq(Nat) /\ Len(Append(heard, n)) = m + 1
        /\ Append(heard, n)[m + 1] = n /\ \A j \in 1 .. m : Append(heard, n)[j] = heard[j]
    BY ONLY <1>1, <1>2
  <2>2. heard' = Append(heard, n)
    BY <1>1, <1>2
  <2> QED
    BY ONLY <2>1, <2>2
<1>4. \A j \in 1 .. m + 1 : h[j] \in 1 .. n
  BY ONLY <1>1, <1>2, <1>3
<1>5. typed[n] \in Input!Character
  BY ONLY <1>1, <1>2
<1>6. PICK k : k = Input!HeardKeys /\ k \in Seq(Input!Character) /\ Len(k) = m
               /\ \A j \in 1 .. m : k[j] = typed[heard[j]]
  <2>1. Input!HeardKeys \in Seq(Input!Character) /\ Len(Input!HeardKeys) = m
    BY <1>2, HeardKeysType DEF InputIInv
  <2>2. \A j \in 1 .. m : Input!HeardKeys[j] = typed[heard[j]]
    BY <1>2 DEF Input!HeardKeys
  <2> QED
    BY ONLY <2>1, <2>2
<1>7. PICK a : /\ a = Append(k, typed[n]) /\ a \in Seq(Input!Character) /\ Len(a) = m + 1
               /\ a[m + 1] = typed[n] /\ \A j \in 1 .. m : a[j] = k[j]
  <2>1. /\ Append(k, typed[n]) \in Seq(Input!Character) /\ Len(Append(k, typed[n])) = m + 1
        /\ Append(k, typed[n])[m + 1] = typed[n] /\ \A j \in 1 .. m : Append(k, typed[n])[j] = k[j]
    BY ONLY <1>2, <1>5, <1>6
  <2> QED
    BY ONLY <2>1
<1>8. Input!HeardKeys' = [j \in 1 .. m + 1 |-> typed[h[j]]]
  BY ONLY <1>3, typed' = typed DEF Input!HeardKeys
<1>9. a = [j \in 1 .. m + 1 |-> a[j]]
  <2>1. a = [j \in 1 .. Len(a) |-> a[j]]
    BY ONLY <1>7, SequenceIs
  <2> QED
    BY ONLY <1>7, <2>1
<1>10. \A j \in 1 .. m + 1 : typed[h[j]] = a[j]
  <2> TAKE j \in 1 .. m + 1
  <2>1. CASE j = m + 1
    BY ONLY <1>3, <1>7, <2>1
  <2>2. CASE j \in 1 .. m
    <3>1. h[j] = heard[j] /\ k[j] = typed[heard[j]] /\ a[j] = k[j]
      BY ONLY <1>3, <1>6, <1>7, <2>2, Zenon
    <3> QED
      BY ONLY <3>1, Zenon
  <2>3. j = m + 1 \/ j \in 1 .. m
    BY ONLY <1>2, j \in 1 .. m + 1
  <2> QED
    BY ONLY <2>1, <2>2, <2>3
<1>11. Input!HeardKeys' = a
  BY ONLY <1>8, <1>9, <1>10
<1> QED
  BY ONLY <1>1, <1>2, <1>3, <1>4, <1>5, <1>6, <1>7, <1>11

LEMMA GetcHears ==
    ASSUME InputIInv, Input!Getc
    PROVE  InputIInv'
<1>1. input_pc = "get" /\ caller = "scan" /\ rx_avail /\ rx_avail' = FALSE /\ rx_done' = FALSE
      /\ c' = typed[rx_reg] /\ heard' = Append(heard, rx_reg) /\ input_pc' = "edit"
      /\ UNCHANGED <<rx_reg, buffer, out, screen, typed, caller, echo, max_size, patient>>
  BY DEF Input!Getc, Input!Mark, Input!arguments
<1>2. Pressed /\ ~Pressed'
  BY <1>1 DEF Pressed
<1>3. PICK n, m : n = Len(typed) /\ n \in Nat /\ n > 0 /\ m = Len(heard) /\ m \in Nat
  <2>1. Len(typed) \in Nat /\ Len(heard) \in Nat
    BY DEF InputIInv, InputTypes
  <2>2. Len(typed) > 0
    BY <1>2 DEF InputIInv, InputPlace
  <2> QED
    BY ONLY <2>1, <2>2
<1>4. /\ heard' \in Seq(Nat) /\ Len(heard') = m + 1 /\ heard'[m + 1] = n
      /\ \A j \in 1 .. m : heard'[j] = heard[j]
      /\ \A j \in 1 .. Len(heard') : heard'[j] \in 1 .. n
      /\ typed[rx_reg] \in Input!Character
      /\ Input!HeardKeys' = Append(Input!HeardKeys, typed[rx_reg])
  BY <1>1, <1>3, OneMoreHeard
<1>5. InputTypes'
  <2>1. rx_avail' \in BOOLEAN /\ rx_done' \in BOOLEAN
    BY ONLY <1>1
  <2> QED
    BY <1>1, <1>3, <1>4, <2>1 DEF InputIInv, InputTypes
<1>6. \A j \in 1 .. m : heard[j] < n
  BY <1>1, <1>2, <1>3 DEF InputIInv, InputPlace
<1>7. InputPlace'
  <2>1. patient => n = m + 1
    BY <1>1, <1>2, <1>3 DEF InputIInv, InputPlace
  <2> QED
    BY ONLY <1>1, <1>2, <1>3, <1>4, <2>1 DEF InputPlace
<1>8. InputOrder'
  <2>1. \A j \in 1 .. m - 1 : heard[j] < heard[j + 1]
    BY <1>1, <1>3 DEF InputIInv, InputOrder
  <2>2. \A j \in 1 .. (m + 1) - 1 : heard'[j] < heard'[j + 1]
    <3> TAKE j \in 1 .. (m + 1) - 1
    <3>1. j \in 1 .. m /\ ((j \in 1 .. m - 1 /\ j + 1 \in 1 .. m) \/ j = m)
      BY ONLY <1>3, j \in 1 .. (m + 1) - 1
    <3>2. CASE j = m
      <4>1. heard'[j] = heard[j] /\ heard[j] < n
        BY ONLY <1>4, <1>6, <3>1
      <4>2. heard'[j + 1] = n
        BY ONLY <1>4, <3>2
      <4> QED
        BY ONLY <4>1, <4>2
    <3>3. CASE j \in 1 .. m - 1 /\ j + 1 \in 1 .. m
      BY ONLY <1>4, <2>1, <3>3, <3>1
    <3> QED
      BY ONLY <3>1, <3>2, <3>3
  <2> QED
    BY ONLY <1>1, <1>4, <2>2 DEF InputOrder
<1>9. InputLine'
  <2>1. Len(buffer) < max_size /\ Input!Edited(Input!HeardKeys, max_size - 1) = buffer
    BY <1>1 DEF InputIInv, InputLine
  <2>2. Input!HeardKeys \in Seq(Input!Character)
    BY HeardKeysType DEF InputIInv
  <2>3. PICK k, x, b : k = Input!HeardKeys /\ x = typed[rx_reg] /\ b = max_size - 1
    OBVIOUS
  <2>4. Input!Edited(Append(k, x), b) = Input!EditedBy(Input!Edited(k, b), x, b)
    BY ONLY <1>4, <2>2, <2>3, EditedNext
  <2> QED
    BY ONLY <1>1, <1>4, <2>1, <2>3, <2>4 DEF InputLine
<1>10. InputScreen'
  BY <1>1, SameScreen DEF InputIInv
<1> QED
  BY <1>5, <1>7, <1>8, <1>9, <1>10 DEF InputIInv

LEMMA PollSees ==
    ASSUME InputIInv, Input!CharReceived
    PROVE  InputIInv'
<1>1. input_pc = "get" /\ caller = "poll" /\ rx_avail /\ rx_avail' = FALSE /\ rx_done' = FALSE
      /\ input_pc' = "received" /\ caller # "scan"
      /\ UNCHANGED <<rx_reg, c, buffer, out, screen, typed, heard, caller, echo, max_size, patient>>
  BY DEF Input!CharReceived, Input!Mark, Input!arguments
<1>2. Len(typed) > 0
  BY <1>1 DEF InputIInv, InputPlace, Pressed
<1>3. InputTypes'
  <2>1. rx_avail' \in BOOLEAN /\ rx_done' \in BOOLEAN
    BY ONLY <1>1
  <2> QED
    BY <1>1, <2>1 DEF InputIInv, InputTypes
<1> QED
  BY <1>1, <1>2, <1>3 DEF InputIInv, InputPlace, InputOrder, InputLine, InputScreen

LEMMA PollHears ==
    ASSUME InputIInv, Input!CharReceivedGet
    PROVE  InputIInv'
<1>1. input_pc = "received" /\ rx_done' = FALSE /\ rx_avail' = (IF rx_avail THEN FALSE ELSE rx_avail \/ rx_done)
      /\ c' = typed[rx_reg] /\ heard' = Append(heard, rx_reg)
      /\ (buffer' = buffer \/ buffer' = Append(buffer, c')) /\ input_pc' \in {"get", "line"}
      /\ UNCHANGED <<rx_reg, out, screen, typed, caller, echo, max_size, patient>>
  BY DEF Input!CharReceivedGet, Input!Mark, Input!arguments
<1>2. caller = "poll" /\ caller # "scan"
  BY <1>1 DEF InputIInv, InputTypes
<1>3. PICK n, m : n = Len(typed) /\ n \in Nat /\ n > 0 /\ m = Len(heard) /\ m \in Nat
  <2>1. Len(typed) \in Nat /\ Len(heard) \in Nat
    BY DEF InputIInv, InputTypes
  <2>2. Len(typed) > 0
    BY <1>1 DEF InputIInv, InputPlace
  <2> QED
    BY ONLY <2>1, <2>2
<1>4. /\ heard' \in Seq(Nat) /\ Len(heard') = m + 1 /\ heard'[m + 1] = n
      /\ \A j \in 1 .. m : heard'[j] = heard[j]
      /\ \A j \in 1 .. Len(heard') : heard'[j] \in 1 .. n
      /\ typed[rx_reg] \in Input!Character
  BY <1>1, <1>3, OneMoreHeard
<1>5. InputTypes'
  <2>1. rx_avail' \in BOOLEAN /\ rx_done' \in BOOLEAN
    <3>1. rx_avail \in BOOLEAN /\ rx_done \in BOOLEAN
      BY DEF InputIInv, InputTypes
    <3> QED
      BY ONLY <1>1, <3>1, Zenon
  <2>2. buffer' \in Seq(Input!Character)
    <3>1. buffer \in Seq(Input!Character)
      BY DEF InputIInv, InputTypes
    <3>2. PICK x : x = typed[rx_reg] /\ x \in Input!Character /\ (buffer' = buffer \/ buffer' = Append(buffer, x))
      BY ONLY <1>1, <1>4
    <3>3. Append(buffer, x) \in Seq(Input!Character)
      BY ONLY <3>1, <3>2
    <3> QED
      BY ONLY <3>1, <3>2, <3>3
  <2> QED
    BY <1>1, <1>2, <1>3, <1>4, <2>1, <2>2 DEF InputIInv, InputTypes
<1>6. InputPlace'
  BY ONLY <1>1, <1>2, <1>3, <1>4 DEF InputPlace
<1>7. InputOrder'
  <2>1. \A j \in 1 .. m - 1 : heard[j] <= heard[j + 1]
    BY <1>2, <1>3 DEF InputIInv, InputOrder
  <2>2. \A j \in 1 .. m : heard[j] <= n
    BY <1>3 DEF InputIInv, InputTypes
  <2>3. \A j \in 1 .. (m + 1) - 1 : heard'[j] <= heard'[j + 1]
    <3> TAKE j \in 1 .. (m + 1) - 1
    <3>1. j \in 1 .. m /\ ((j \in 1 .. m - 1 /\ j + 1 \in 1 .. m) \/ j = m)
      BY ONLY <1>3, j \in 1 .. (m + 1) - 1
    <3>2. CASE j = m
      <4>1. heard'[j] = heard[j] /\ heard[j] <= n
        BY ONLY <1>4, <2>2, <3>1
      <4>2. heard'[j + 1] = n
        BY ONLY <1>4, <3>2
      <4> QED
        BY ONLY <4>1, <4>2
    <3>3. CASE j \in 1 .. m - 1 /\ j + 1 \in 1 .. m
      BY ONLY <1>4, <2>1, <3>3, <3>1
    <3> QED
      BY ONLY <3>1, <3>2, <3>3
  <2> QED
    BY ONLY <1>1, <1>2, <1>4, <2>3 DEF InputOrder
<1> QED
  BY <1>1, <1>2, <1>5, <1>6, <1>7 DEF InputIInv, InputLine, InputScreen

LEMMA ScanEdits ==
    ASSUME InputIInv, Input!Scan
    PROVE  InputIInv'
<1>1. input_pc = "edit" /\ (Input!Delete \/ Input!End \/ Input!Insert)
      /\ UNCHANGED <<c, screen, typed, heard, rx_reg, rx_done, rx_avail, caller, echo, max_size, patient>>
  BY DEF Input!Scan, Input!receiver, Input!arguments
<1>2. caller = "scan" /\ buffer \in Seq(Input!Character) /\ max_size \in Nat \ {0} /\ Len(buffer) < max_size
      /\ Input!Edited(Input!HeardKeys, max_size - 1) = Input!EditedBy(buffer, c, max_size - 1)
  BY <1>1 DEF InputIInv, InputTypes, InputLine
<1>3. PICK n : n = Len(buffer) /\ n \in Nat /\ n < max_size
  <2>1. Len(buffer) \in Nat
    BY ONLY <1>2
  <2> QED
    BY ONLY <1>2, <2>1
<1>4. Input!HeardKeys' = Input!HeardKeys
  BY <1>1 DEF Input!HeardKeys
<1>5. /\ buffer' = Input!EditedBy(buffer, c, max_size - 1) /\ input_pc' \in {"echo", "line"}
      /\ \/ buffer' = buffer /\ (out' = << >> \/ out' = out)
         \/ /\ buffer # << >> /\ buffer' = SubSeq(buffer, 1, n - 1) /\ input_pc' = "echo"
            /\ out' = IF echo THEN <<Input!Backspace, Input!Space, Input!Backspace>> ELSE << >>
         \/ /\ c \in Input!Shown /\ n < max_size - 1 /\ buffer' = Append(buffer, c)
            /\ out' = (IF echo THEN <<c>> ELSE << >>) /\ input_pc' = "echo"
  <2>1. CASE Input!Delete
    <3>1. c = Input!Backspace /\ input_pc' = "echo"
      BY ONLY <2>1 DEF Input!Delete
    <3>2. CASE buffer = << >>
      <4>1. buffer' = buffer /\ out' = << >>
        BY ONLY <2>1, <3>2 DEF Input!Delete
      <4> QED
        BY ONLY <3>1, <3>2, <4>1 DEF Input!EditedBy, Input!Backspace, Input!Shown
    <3>3. CASE buffer # << >>
      <4>1. buffer' = Input!Front(buffer)
            /\ out' = IF echo THEN <<Input!Backspace, Input!Space, Input!Backspace>> ELSE << >>
        BY ONLY <2>1, <3>3 DEF Input!Delete, Input!Echoed
      <4>2. Input!Front(buffer) = SubSeq(buffer, 1, n - 1)
        BY ONLY <1>3 DEF Input!Front
      <4>3. Input!EditedBy(buffer, c, max_size - 1) = Input!Front(buffer)
        BY ONLY <3>1, <3>3 DEF Input!EditedBy, Input!Backspace, Input!Shown
      <4> QED
        BY ONLY <3>1, <3>3, <4>1, <4>2, <4>3
    <3> QED
      BY ONLY <3>2, <3>3
  <2>2. CASE Input!End
    BY ONLY <2>2 DEF Input!End, Input!EditedBy, Input!Return, Input!Backspace, Input!Shown
  <2>3. CASE Input!Insert
    BY ONLY <1>3, <2>3 DEF Input!Insert, Input!EditedBy, Input!Echoed
  <2> QED
    BY ONLY <1>1, <2>1, <2>2, <2>3
<1>6. n > 0 => SubSeq(buffer, 1, n - 1) \in Seq(Input!Character) /\ Len(SubSeq(buffer, 1, n - 1)) = n - 1
               /\ \A j \in 1 .. n - 1 : SubSeq(buffer, 1, n - 1)[j] = buffer[j]
  BY ONLY <1>2, <1>3
<1>7. c \in Input!Shown => Append(buffer, c) \in Seq(Input!Character) /\ Len(Append(buffer, c)) = n + 1
                           /\ Append(buffer, c)[n + 1] = c
                           /\ \A j \in 1 .. n : Append(buffer, c)[j] = buffer[j]
  <2>1. c \in Input!Shown => c \in Input!Character
    BY DEF Input!Character
  <2> QED
    BY ONLY <1>2, <1>3, <2>1
<1>8. buffer # << >> => n > 0
  BY ONLY <1>2, <1>3
<1>9. buffer' \in Seq(Input!Character) /\ Len(buffer') < max_size
  <2>1. CASE buffer' = buffer
    BY ONLY <1>2, <1>3, <2>1
  <2>2. CASE buffer # << >> /\ buffer' = SubSeq(buffer, 1, n - 1)
    BY ONLY <1>3, <1>6, <1>8, <1>2, <2>2
  <2>3. CASE c \in Input!Shown /\ n < max_size - 1 /\ buffer' = Append(buffer, c)
    BY ONLY <1>2, <1>3, <1>7, <2>3
  <2> QED
    BY ONLY <1>5, <2>1, <2>2, <2>3
<1>10. InputTypes'
  BY <1>1, <1>2, <1>5, <1>9 DEF InputIInv, InputTypes
<1>11. InputPlace' /\ InputOrder'
  BY <1>1, <1>2, <1>5 DEF InputIInv, InputPlace, InputOrder, Pressed
<1>12. InputLine'
  BY ONLY <1>1, <1>2, <1>4, <1>5, <1>9 DEF InputLine
<1>13. InputScreen'
  <2> SUFFICES ASSUME echo PROVE screen' \in [cells : Seq(Cell), cursor : Nat] /\ EchoPlace'
    BY <1>1 DEF InputScreen
  <2>1. screen \in [cells : Seq(Cell), cursor : Nat] /\ out = << >> /\ OnScreen(n, n, n)
    BY <1>1, <1>2, <1>3 DEF InputIInv, InputScreen, EchoPlace
  <2>2. screen.cursor = n /\ n <= Len(screen.cells) /\ (\A j \in 1 .. n : screen.cells[j] = buffer[j])
        /\ \A j \in n + 1 .. Len(screen.cells) : screen.cells[j] = Input!Space
    BY ONLY <2>1 DEF OnScreen
  <2>3. screen' = screen
    BY <1>1
  <2>4. CASE buffer' = buffer /\ (out' = << >> \/ out' = out)
    BY ONLY <1>3, <2>1, <2>2, <2>3, <2>4 DEF EchoPlace, OnScreen
  <2>5. CASE /\ buffer # << >> /\ buffer' = SubSeq(buffer, 1, n - 1) /\ input_pc' = "echo"
             /\ out' = IF echo THEN <<Input!Backspace, Input!Space, Input!Backspace>> ELSE << >>
    <3>1. Len(buffer') = n - 1 /\ \A j \in 1 .. n - 1 : buffer'[j] = buffer[j]
      BY ONLY <1>6, <1>8, <2>5
    <3>2. n - 1 < Len(screen.cells) /\ (\A j \in 1 .. n - 1 : j \in 1 .. n) /\ (n - 1) + 1 = n
          /\ n - 1 <= Len(screen.cells)
      <4>1. Len(screen.cells) \in Nat
        BY ONLY <2>1
      <4> QED
        BY ONLY <1>3, <1>8, <2>2, <2>5, <4>1
    <3>3. OnScreen(n - 1, n, n)'
      BY ONLY <2>2, <2>3, <3>1, <3>2 DEF OnScreen
    <3> QED
      BY ONLY <2>1, <2>3, <2>5, <3>1, <3>2, <3>3, echo DEF EchoPlace
  <2>6. CASE /\ c \in Input!Shown /\ n < max_size - 1 /\ buffer' = Append(buffer, c)
             /\ out' = (IF echo THEN <<c>> ELSE << >>) /\ input_pc' = "echo"
    <3>1. Len(buffer') = n + 1 /\ buffer'[n + 1] = c /\ \A j \in 1 .. n : buffer'[j] = buffer[j]
      BY ONLY <1>7, <2>6
    <3>2. n + 1 > 0 /\ (n + 1) - 1 = n
      BY ONLY <1>3
    <3>3. OnScreen(n, n, n)'
      BY ONLY <2>2, <2>3, <3>1 DEF OnScreen
    <3> QED
      BY ONLY <2>1, <2>3, <2>6, <3>1, <3>2, <3>3, echo DEF EchoPlace
  <2> QED
    BY ONLY <1>5, <2>4, <2>5, <2>6
<1> QED
  BY <1>10, <1>11, <1>12, <1>13 DEF InputIInv

\* A character shown at the cursor replaces the cell there, or adds one.
With(cells, at, x) == SubSeq(cells, 1, at) \o <<x>> \o SubSeq(cells, at + 2, Len(cells))
IsWith(after, cells, at, x) ==
    /\ after \in Seq(Cell)
    /\ Len(after) = IF at = Len(cells) THEN at + 1 ELSE Len(cells)
    /\ \A j \in 1 .. Len(after) : after[j] = IF j = at + 1 THEN x ELSE cells[j]

LEMMA Overwritten ==
    ASSUME NEW cells \in Seq(Cell), NEW at \in Nat, at <= Len(cells), NEW x \in Cell
    PROVE  IsWith(With(cells, at, x), cells, at, x)
<1> DEFINE after == With(cells, at, x)
<1>1. PICK n : n = Len(cells) /\ n \in Nat
  <2>1. Len(cells) \in Nat
    OBVIOUS
  <2> QED
    BY ONLY <2>1
<1>2. PICK a : a = SubSeq(cells, 1, at) /\ a \in Seq(Cell) /\ Len(a) = at
               /\ \A j \in 1 .. at : a[j] = cells[j]
  <2>1. SubSeq(cells, 1, at) \in Seq(Cell) /\ Len(SubSeq(cells, 1, at)) = at
        /\ \A j \in 1 .. at : SubSeq(cells, 1, at)[j] = cells[j]
    OBVIOUS
  <2> QED
    BY ONLY <2>1
<1>3. PICK q : q = <<x>> /\ q \in Seq(Cell) /\ Len(q) = 1 /\ q[1] = x
  BY SingleIs
<1>4. PICK d : d = SubSeq(cells, at + 2, n) /\ d \in Seq(Cell)
               /\ Len(d) = (IF at = n THEN 0 ELSE n - at - 1)
               /\ \A j \in 1 .. Len(d) : d[j] = cells[at + 1 + j]
  <2>1. \A j \in at + 2 .. n : cells[j] \in Cell
    BY <1>1
  <2>2. at + 2 \in Int /\ n \in Int
    BY <1>1
  <2>3. /\ SubSeq(cells, at + 2, n) \in Seq(Cell)
        /\ Len(SubSeq(cells, at + 2, n)) = (IF at + 2 <= n THEN n - (at + 2) + 1 ELSE 0)
        /\ \A j \in 1 .. n - (at + 2) + 1 : SubSeq(cells, at + 2, n)[j] = cells[(at + 2) + j - 1]
    BY ONLY <2>1, <2>2, SubSeqProperties
  <2>4. Len(SubSeq(cells, at + 2, n)) = (IF at = n THEN 0 ELSE n - at - 1)
    BY <1>1, <2>3
  <2>5. \A j \in 1 .. Len(SubSeq(cells, at + 2, n)) : SubSeq(cells, at + 2, n)[j] = cells[at + 1 + j]
    <3> TAKE j \in 1 .. Len(SubSeq(cells, at + 2, n))
    <3>1. j \in 1 .. n - (at + 2) + 1 /\ (at + 2) + j - 1 = at + 1 + j
      BY <1>1, <2>4
    <3> QED
      BY ONLY <2>3, <3>1
  <2> QED
    BY ONLY <2>3, <2>4, <2>5
<1>5. PICK b : b = a \o q /\ b \in Seq(Cell) /\ Len(b) = at + 1
               /\ (\A j \in 1 .. at : b[j] = cells[j]) /\ b[at + 1] = x
  <2>1. a \o q \in Seq(Cell) /\ Len(a \o q) = at + 1
        /\ (\A j \in 1 .. at : (a \o q)[j] = a[j]) /\ (a \o q)[at + 1] = q[1]
    BY ONLY <1>2, <1>3, at \in Nat
  <2> QED
    BY ONLY <1>2, <1>3, <2>1
<1>6. after = b \o d
  BY <1>1, <1>2, <1>3, <1>4, <1>5 DEF With
<1> HIDE DEF after
<1>7. PICK m : m = Len(d) /\ m \in Nat /\ m = (IF at = n THEN 0 ELSE n - at - 1)
  <2>1. Len(d) \in Nat
    BY ONLY <1>4
  <2> QED
    BY ONLY <1>4, <2>1
<1>8. b \o d \in Seq(Cell) /\ Len(b \o d) = at + 1 + m
      /\ (\A j \in 1 .. at + 1 : (b \o d)[j] = b[j])
      /\ \A j \in at + 2 .. at + 1 + m : (b \o d)[j] = d[j - at - 1]
  <2>1. PICK e : e = at + 1 /\ e \in Nat
    <3>1. at + 1 \in Nat
      BY ONLY at \in Nat
    <3> QED
      BY ONLY <3>1
  <2>2. b \o d \in Seq(Cell) /\ Len(b \o d) = e + m
        /\ (\A j \in 1 .. e : (b \o d)[j] = b[j])
        /\ \A j \in e + 1 .. e + m : (b \o d)[j] = d[j - e]
    <3>1. b \in Seq(Cell) /\ d \in Seq(Cell) /\ Len(b) = e /\ Len(d) = m /\ e \in Nat /\ m \in Nat
      BY ONLY <1>4, <1>5, <1>7, <2>1
    <3>2. b \o d \in Seq(Cell) /\ Len(b \o d) = e + m
          /\ \A j \in 1 .. e + m : (b \o d)[j] = IF j <= e THEN b[j] ELSE d[j - e]
      BY ONLY <3>1
    <3>3. (\A j \in 1 .. e : j \in 1 .. e + m /\ j <= e) /\ \A j \in e + 1 .. e + m : j \in 1 .. e + m /\ ~(j <= e)
      BY ONLY <3>1
    <3> QED
      BY ONLY <3>2, <3>3
  <2>3. e + m = at + 1 + m /\ \A j \in at + 2 .. at + 1 + m : j \in e + 1 .. e + m /\ j - e = j - at - 1
    BY ONLY <1>7, <2>1, at \in Nat
  <2>4. ASSUME NEW j \in at + 2 .. at + 1 + m PROVE (b \o d)[j] = d[j - at - 1]
    <3>1. j \in e + 1 .. e + m /\ j - e = j - at - 1
      BY ONLY <2>3, j \in at + 2 .. at + 1 + m
    <3>2. (b \o d)[j] = d[j - e]
      BY ONLY <2>2, <3>1
    <3> QED
      BY ONLY <3>1, <3>2
  <2> QED
    BY ONLY <2>1, <2>2, <2>3, <2>4
<1>9. at + 1 + m = IF at = n THEN at + 1 ELSE n
  <2>1. CASE at = n
    BY ONLY <1>1, <1>7, <2>1
  <2>2. CASE at # n
    <3>1. m = n - at - 1
      BY ONLY <1>7, <2>2
    <3>2. at + 1 + m = n
      BY ONLY <1>1, <3>1, at \in Nat
    <3> QED
      BY ONLY <2>2, <3>2
  <2> QED
    BY ONLY <2>1, <2>2
<1>10. \A j \in 1 .. at + 1 + m : after[j] = IF j = at + 1 THEN x ELSE cells[j]
  <2> TAKE j \in 1 .. at + 1 + m
  <2>1. CASE j \in 1 .. at
    <3>1. j # at + 1 /\ j \in 1 .. at + 1
      BY ONLY <2>1, at \in Nat
    <3> QED
      BY ONLY <1>5, <1>6, <1>8, <2>1, <3>1
  <2>2. CASE j = at + 1
    <3>1. j \in 1 .. at + 1
      BY ONLY <2>2, at \in Nat
    <3> QED
      BY ONLY <1>5, <1>6, <1>8, <2>2, <3>1
  <2>3. CASE j \in at + 2 .. at + 1 + m
    <3>1. j # at + 1 /\ j - at - 1 \in 1 .. m /\ at + 1 + (j - at - 1) = j
      BY ONLY <1>7, <2>3, at \in Nat
    <3>2. after[j] = d[j - at - 1]
      BY ONLY <1>6, <1>8, <2>3
    <3>3. d[j - at - 1] = cells[at + 1 + (j - at - 1)]
      BY ONLY <1>4, <1>7, <3>1
    <3> QED
      BY ONLY <3>1, <3>2, <3>3
  <2>4. j \in 1 .. at \/ j = at + 1 \/ j \in at + 2 .. at + 1 + m
    BY ONLY <1>7, at \in Nat, j \in 1 .. at + 1 + m
  <2> QED
    BY ONLY <2>1, <2>2, <2>3, <2>4
<1> QED
  BY <1>1, <1>6, <1>8, <1>9, <1>10 DEF after, IsWith

LEMMA CursorBack ==
    ASSUME screen \in [cells : Seq(Cell), cursor : Nat], NEW n \in Nat, screen.cursor = n + 1,
           screen' = Input!After(Input!Backspace)
    PROVE  screen' \in [cells : Seq(Cell), cursor : Nat] /\ screen'.cursor = n /\ screen'.cells = screen.cells
<1>1. n + 1 # 0 /\ (n + 1) - 1 = n
  OBVIOUS
<1>2. screen' = [screen EXCEPT !.cursor = n]
  BY <1>1 DEF Input!After
<1> QED
  BY ONLY <1>2, screen \in [cells : Seq(Cell), cursor : Nat], n \in Nat

LEMMA CellShown ==
    ASSUME screen \in [cells : Seq(Cell), cursor : Nat], NEW at \in Nat, screen.cursor = at,
           at <= Len(screen.cells), NEW x \in Cell, x # Input!Backspace, screen' = Input!After(x)
    PROVE  /\ screen' \in [cells : Seq(Cell), cursor : Nat] /\ screen'.cursor = at + 1
           /\ Len(screen'.cells) = IF at = Len(screen.cells) THEN at + 1 ELSE Len(screen.cells)
           /\ \A j \in 1 .. Len(screen'.cells) :
                  screen'.cells[j] = IF j = at + 1 THEN x ELSE screen.cells[j]
<1>1. PICK cells : cells = screen.cells /\ cells \in Seq(Cell) /\ at <= Len(cells)
  OBVIOUS
<1>2. PICK after : after = With(cells, at, x)
  OBVIOUS
<1>3. IsWith(after, cells, at, x)
  BY <1>1, <1>2, Overwritten
<1>4. screen' = [cells |-> after, cursor |-> at + 1]
  BY <1>1, <1>2 DEF Input!After, With
<1>5. at + 1 \in Nat
  OBVIOUS
<1> QED
  BY ONLY <1>1, <1>3, <1>4, <1>5 DEF IsWith

LEMMA EchoShows ==
    ASSUME InputIInv, Input!Echo
    PROVE  InputIInv'
<1>1. input_pc = "echo" /\ UNCHANGED <<c, buffer, typed, heard, rx_reg, rx_done, rx_avail, caller, echo, max_size, patient>>
  BY DEF Input!Echo, Input!receiver, Input!arguments
<1>2. \/ out = << >> /\ input_pc' = "get" /\ UNCHANGED <<out, screen>>
      \/ out # << >> /\ out' = Tail(out) /\ screen' = Input!After(Head(out)) /\ input_pc' = "echo"
  BY <1>1 DEF Input!Echo
<1>3. caller = "scan"
  BY <1>1 DEF InputIInv, InputTypes
<1>4. InputTypes' /\ InputPlace' /\ InputOrder'
  BY <1>1, <1>2, <1>3 DEF InputIInv, InputTypes, InputPlace, InputOrder, Pressed
<1>5. InputLine'
  <2>1. Input!HeardKeys' = Input!HeardKeys
    BY <1>1 DEF Input!HeardKeys
  <2> QED
    BY <1>1, <1>2, <1>3, <2>1 DEF InputIInv, InputLine
<1>6. InputScreen'
  <2> SUFFICES ASSUME echo PROVE screen' \in [cells : Seq(Cell), cursor : Nat] /\ EchoPlace'
    BY <1>1 DEF InputScreen
  <2>1. screen \in [cells : Seq(Cell), cursor : Nat] /\ EchoPlace
    BY <1>3 DEF InputIInv, InputScreen
  <2>2. PICK n : n = Len(buffer) /\ n \in Nat
    <3>1. Len(buffer) \in Nat
      BY DEF InputIInv, InputTypes
    <3> QED
      BY ONLY <3>1
  <2>3. Len(buffer') = n /\ Len(screen.cells) \in Nat
    BY ONLY <1>1, <2>1, <2>2
  <2>4. Input!Backspace \in Cell /\ Input!Space \in Cell /\ Input!Space # Input!Backspace
        /\ \A x \in Input!Shown : x \in Cell /\ x # Input!Backspace
    BY DEF Cell, Input!Character, Input!Space, Input!Backspace, Input!Shown
  <2>5. CASE out = << >>
    <3>1. out' = << >> /\ screen' = screen
      BY ONLY <1>2, <2>5
    <3>2. OnScreen(n, n, n)
      BY ONLY <2>1, <2>2, <2>5 DEF EchoPlace
    <3>3. OnScreen(n, n, n)'
      BY ONLY <1>1, <3>1, <3>2 DEF OnScreen
    <3> QED
      BY ONLY <2>1, <2>3, <3>1, <3>3 DEF EchoPlace
  <2>6. CASE n > 0 /\ out = <<buffer[n]>> /\ buffer[n] \in Input!Shown /\ OnScreen(n - 1, n - 1, n - 1)
    <3>1. PICK x, at : x = buffer[n] /\ at = n - 1 /\ at \in Nat /\ at + 1 = n /\ x \in Cell /\ x # Input!Backspace
      <4>1. n - 1 \in Nat /\ (n - 1) + 1 = n
        BY ONLY <2>2, <2>6
      <4> QED
        BY ONLY <2>4, <2>6, <4>1
    <3>2. screen.cursor = at /\ at <= Len(screen.cells) /\ (\A j \in 1 .. at : screen.cells[j] = buffer[j])
          /\ \A j \in at + 1 .. Len(screen.cells) : screen.cells[j] = Input!Space
      BY ONLY <2>6, <3>1 DEF OnScreen
    <3>3. out' = << >> /\ screen' = Input!After(x)
      BY ONLY <1>2, <2>6, <3>1
    <3>4. /\ screen' \in [cells : Seq(Cell), cursor : Nat] /\ screen'.cursor = n
          /\ Len(screen'.cells) = IF at = Len(screen.cells) THEN n ELSE Len(screen.cells)
          /\ \A j \in 1 .. Len(screen'.cells) : screen'.cells[j] = IF j = n THEN x ELSE screen.cells[j]
      BY ONLY <2>1, <3>1, <3>2, <3>3, CellShown
    <3>5. n <= Len(screen'.cells)
      BY ONLY <2>2, <2>3, <3>1, <3>2, <3>4
    <3>6. \A j \in 1 .. n : screen'.cells[j] = buffer[j]
      <4> TAKE j \in 1 .. n
      <4>1. j \in 1 .. Len(screen'.cells)
        <5>1. Len(screen'.cells) \in Nat
          BY ONLY <3>4
        <5> QED
          BY ONLY <2>2, <3>5, <5>1, j \in 1 .. n
      <4>2. CASE j = n
        BY ONLY <3>1, <3>4, <4>1, <4>2
      <4>3. CASE j # n
        <5>1. j \in 1 .. at
          BY ONLY <2>2, <3>1, <4>3, j \in 1 .. n
        <5> QED
          BY ONLY <3>2, <3>4, <4>1, <4>3, <5>1
      <4> QED
        BY ONLY <4>2, <4>3
    <3>7. \A j \in n + 1 .. Len(screen'.cells) : screen'.cells[j] = Input!Space
      <4> TAKE j \in n + 1 .. Len(screen'.cells)
      <4>1. j \in 1 .. Len(screen'.cells) /\ j # n /\ j \in at + 1 .. Len(screen.cells)
        <5>1. Len(screen'.cells) \in Nat
          BY ONLY <3>4
        <5>2. j \in 1 .. Len(screen'.cells) /\ j # n /\ j > n
          BY ONLY <2>2, <5>1, j \in n + 1 .. Len(screen'.cells)
        <5>3. at # Len(screen.cells)
          BY ONLY <2>2, <3>4, <5>1, <5>2
        <5> QED
          BY ONLY <2>2, <2>3, <3>1, <3>4, <5>2, <5>3
      <4> QED
        BY ONLY <3>2, <3>4, <4>1
    <3>8. OnScreen(n, n, n)'
      BY ONLY <1>1, <3>4, <3>5, <3>6, <3>7 DEF OnScreen
    <3> QED
      BY ONLY <2>3, <3>3, <3>4, <3>8 DEF EchoPlace
  <2>7. CASE /\ out = <<Input!Backspace, Input!Space, Input!Backspace>>
             /\ OnScreen(n, n + 1, n + 1) /\ n < Len(screen.cells)
    <3>1. screen' = Input!After(Input!Backspace) /\ out' = <<Input!Space, Input!Backspace>> /\ input_pc' = "echo"
      BY ONLY <1>2, <2>7
    <3>2. screen.cursor = n + 1
      BY ONLY <2>7 DEF OnScreen
    <3>3. screen' \in [cells : Seq(Cell), cursor : Nat] /\ screen'.cursor = n /\ screen'.cells = screen.cells
      BY ONLY <2>1, <2>2, <3>1, <3>2, CursorBack
    <3>4. OnScreen(n, n, n + 1)'
      BY ONLY <1>1, <2>7, <3>3 DEF OnScreen
    <3> QED
      BY ONLY <2>3, <2>7, <3>1, <3>3, <3>4 DEF EchoPlace
  <2>8. CASE /\ out = <<Input!Space, Input!Backspace>>
             /\ OnScreen(n, n, n + 1) /\ n < Len(screen.cells)
    <3>1. screen' = Input!After(Input!Space) /\ out' = <<Input!Backspace>> /\ input_pc' = "echo"
      BY ONLY <1>2, <2>8
    <3>2. screen.cursor = n /\ n <= Len(screen.cells) /\ (\A j \in 1 .. n : screen.cells[j] = buffer[j])
          /\ \A j \in (n + 1) + 1 .. Len(screen.cells) : screen.cells[j] = Input!Space
      BY ONLY <2>8 DEF OnScreen
    <3>3. /\ screen' \in [cells : Seq(Cell), cursor : Nat] /\ screen'.cursor = n + 1
          /\ Len(screen'.cells) = IF n = Len(screen.cells) THEN n + 1 ELSE Len(screen.cells)
          /\ \A j \in 1 .. Len(screen'.cells) :
                 screen'.cells[j] = IF j = n + 1 THEN Input!Space ELSE screen.cells[j]
      BY ONLY <2>1, <2>2, <2>4, <3>1, <3>2, CellShown
    <3>4. Len(screen'.cells) = Len(screen.cells)
      BY ONLY <2>2, <2>3, <2>8, <3>3
    <3>5. \A j \in 1 .. n : screen'.cells[j] = buffer[j]
      <4> TAKE j \in 1 .. n
      <4>1. j \in 1 .. Len(screen.cells) /\ j # n + 1
        BY ONLY <2>2, <2>3, <2>8, j \in 1 .. n
      <4> QED
        BY ONLY <3>2, <3>3, <3>4, <4>1, j \in 1 .. n
    <3>6. \A j \in n + 1 .. Len(screen'.cells) : screen'.cells[j] = Input!Space
      <4> TAKE j \in n + 1 .. Len(screen'.cells)
      <4>1. j \in 1 .. Len(screen.cells) /\ (j = n + 1 \/ j \in (n + 1) + 1 .. Len(screen.cells))
        BY ONLY <2>2, <2>3, <3>4, j \in n + 1 .. Len(screen'.cells)
      <4> QED
        BY ONLY <3>2, <3>3, <3>4, <4>1
    <3>7. OnScreen(n, n + 1, n)'
      BY ONLY <1>1, <3>2, <3>3, <3>4, <3>5, <3>6 DEF OnScreen
    <3> QED
      BY ONLY <2>3, <2>8, <3>1, <3>3, <3>4, <3>7 DEF EchoPlace
  <2>9. CASE out = <<Input!Backspace>> /\ OnScreen(n, n + 1, n) /\ n < Len(screen.cells)
    <3>1. screen' = Input!After(Input!Backspace) /\ out' = << >> /\ input_pc' = "echo"
      BY ONLY <1>2, <2>9
    <3>2. screen.cursor = n + 1
      BY ONLY <2>9 DEF OnScreen
    <3>3. screen' \in [cells : Seq(Cell), cursor : Nat] /\ screen'.cursor = n /\ screen'.cells = screen.cells
      BY ONLY <2>1, <2>2, <3>1, <3>2, CursorBack
    <3>4. OnScreen(n, n, n)'
      BY ONLY <1>1, <2>9, <3>3 DEF OnScreen
    <3> QED
      BY ONLY <2>3, <3>1, <3>3, <3>4 DEF EchoPlace
  <2> QED
    BY ONLY <2>1, <2>2, <2>5, <2>6, <2>7, <2>8, <2>9 DEF EchoPlace
<1> QED
  BY <1>4, <1>5, <1>6 DEF InputIInv

LEMMA NextInput ==
    ASSUME InputIInv, [Input!Next]_inputVars
    PROVE  InputIInv'
<1>1. CASE \E k \in Input!Character : Input!Key(k)
  BY <1>1, KeyPressed
<1>2. CASE Input!Clock
  BY <1>2, KeyMarked
<1>3. CASE Input!Getc
  BY <1>3, GetcHears
<1>4. CASE Input!CharReceived
  BY <1>4, PollSees
<1>5. CASE Input!CharReceivedGet
  BY <1>5, PollHears
<1>6. CASE Input!Scan
  BY <1>6, ScanEdits
<1>7. CASE Input!Echo
  BY <1>7, EchoShows
<1>8. CASE UNCHANGED inputVars \/ Input!Over
  <2>1. UNCHANGED inputVars
    BY <1>8 DEF Input!Over, Input!vars, inputVars
  <2>2. UNCHANGED <<rx_reg, rx_done, rx_avail, input_pc, caller, echo, max_size, c, buffer, out, screen, patient, typed, heard>>
    BY <2>1 DEF inputVars
  <2>3. InputTypes' /\ InputPlace' /\ InputOrder'
    BY <2>2 DEF InputIInv, InputTypes, InputPlace, InputOrder, Pressed
  <2>4. Input!HeardKeys' = Input!HeardKeys
    BY <2>2 DEF Input!HeardKeys
  <2>5. InputLine'
    BY <2>2, <2>4 DEF InputIInv, InputLine
  <2>6. InputScreen'
    BY <2>2, SameScreen DEF InputIInv
  <2> QED
    BY <2>3, <2>5, <2>6 DEF InputIInv
<1> QED
  BY <1>1, <1>2, <1>3, <1>4, <1>5, <1>6, <1>7, <1>8 DEF Input!Next, Input!Library

LEMMA InitInput ==
    ASSUME Input!Init
    PROVE  InputIInv
<1>1. /\ rx_reg = 0 /\ rx_done = FALSE /\ rx_avail = FALSE
      /\ caller \in {"scan", "poll"} /\ echo \in BOOLEAN /\ max_size \in MaxSizes
      /\ patient \in BOOLEAN /\ input_pc = "get" /\ buffer = << >> /\ out = << >>
      /\ screen = [cells |-> << >>, cursor |-> 0]
      /\ typed = << >> /\ heard = << >>
  BY DEF Input!Init, Input!Nothing
<1>2. max_size \in Nat \ {0} /\ MaxTyped \in Nat
  BY <1>1, DevicesAssumption DEF Input!InputAssumption
<1>3. << >> \in Seq(Input!Character) /\ << >> \in Seq(Nat) /\ Len(<< >>) = 0 /\ 0 <= MaxTyped
      /\ (\A j \in 1 .. 0 : FALSE) /\ 0 - 1 = -1 /\ \A j \in 1 .. -1 : FALSE
  BY ONLY <1>2
<1>4. InputTypes
  <2>1. rx_done \in BOOLEAN /\ rx_avail \in BOOLEAN
    BY ONLY <1>1
  <2>2. input_pc \in IF caller = "scan" THEN {"get", "edit", "echo", "line"} ELSE {"get", "received", "line"}
    BY ONLY <1>1
  <2> QED
    BY ONLY <1>1, <1>2, <1>3, <2>1, <2>2 DEF InputTypes
<1>5. InputPlace
  BY ONLY <1>1, <1>3 DEF InputPlace, Pressed
<1>6. InputOrder
  BY ONLY <1>1, <1>3 DEF InputOrder
<1>7. InputLine
  <2>1. Input!HeardKeys = << >>
    BY <1>1 DEF Input!HeardKeys
  <2>2. Input!Edited(<< >>, max_size - 1) = << >>
    BY EditedNone
  <2>3. Len(buffer) < max_size
    BY ONLY <1>1, <1>2
  <2>4. input_pc # "edit" /\ buffer = << >>
    BY ONLY <1>1
  <2> QED
    BY ONLY <2>1, <2>2, <2>3, <2>4 DEF InputLine
<1>8. InputScreen
  <2>1. << >> \in Seq(Cell)
    OBVIOUS
  <2> QED
    BY ONLY <1>1, <2>1 DEF InputScreen, EchoPlace, OnScreen
<1> QED
  BY <1>4, <1>5, <1>6, <1>7, <1>8 DEF InputIInv

LEMMA InputKept ==
    ASSUME InputIInv
    PROVE  Input!TypeOK /\ Input!LineMadeOfKeys /\ Input!ShowsLine /\ Input!PolledInOrder
<1>1. InputTypes /\ InputPlace /\ InputOrder /\ InputLine /\ InputScreen
  BY DEF InputIInv
<1>2. PICK n, m : n = Len(typed) /\ n \in Nat /\ m = Len(heard) /\ m \in Nat
  <2>1. Len(typed) \in Nat /\ Len(heard) \in Nat
    BY <1>1 DEF InputTypes
  <2> QED
    BY ONLY <2>1
<1>3. Input!TypeOK
  <2>1. rx_reg \in 0 .. MaxTyped
    <3>1. rx_reg = n /\ n <= MaxTyped /\ MaxTyped \in Nat
      BY <1>1, <1>2, DevicesAssumption DEF InputTypes, Input!InputAssumption
    <3> QED
      BY ONLY <1>2, <3>1
  <2>2. input_pc \in {"get", "received", "edit", "echo", "line"}
    BY <1>1 DEF InputTypes
  <2> QED
    BY <1>1, <2>1, <2>2 DEF Input!TypeOK, InputTypes
<1>4. Input!AtRest /\ typed # << >> => ~Pressed /\ input_pc = "get" /\ n > 0
  <2>1. typed # << >> => n > 0
    BY <1>1, <1>2 DEF InputTypes
  <2> QED
    BY <2>1 DEF Input!AtRest, Pressed
<1>5. Input!AtRest /\ typed # << >> => heard # << >> /\ Input!Last(heard) = Len(typed)
  <2> SUFFICES ASSUME Input!AtRest, typed # << >> PROVE heard # << >> /\ Input!Last(heard) = Len(typed)
    OBVIOUS
  <2>1. m > 0 /\ heard[m] = Len(typed)
    BY <1>1, <1>2, <1>4 DEF InputPlace
  <2>2. heard # << >>
    BY ONLY <1>2, <2>1
  <2> QED
    BY <1>2, <2>1, <2>2 DEF Input!Last
<1>6. Input!LineMadeOfKeys
  <2> SUFFICES ASSUME caller = "scan"
               PROVE  /\ \A j \in 1 .. Len(heard) - 1 : heard[j] < heard[j + 1]
                      /\ input_pc # "edit" => buffer = Input!Edited(Input!HeardKeys, max_size - 1)
                      /\ Len(buffer) < max_size
                      /\ Input!AtRest /\ patient => Len(heard) = Len(typed)
    BY <1>5 DEF Input!LineMadeOfKeys
  <2>1. Input!AtRest /\ patient => n = m + 0
    BY <1>1, <1>2 DEF InputPlace, Input!AtRest, Pressed
  <2>2. Input!AtRest /\ patient => Len(heard) = Len(typed)
    BY ONLY <1>2, <2>1
  <2> QED
    BY <1>1, <2>2 DEF InputOrder, InputLine
<1>7. Input!ShowsLine
  <2> SUFFICES ASSUME caller = "scan", echo, out = << >>
               PROVE  /\ SubSeq(screen.cells, 1, screen.cursor) = buffer
                      /\ \A k \in screen.cursor + 1 .. Len(screen.cells) : screen.cells[k] = Input!Space
    BY DEF Input!ShowsLine
  <2>1. PICK b : b = Len(buffer) /\ b \in Nat /\ buffer \in Seq(Input!Character)
    <3>1. Len(buffer) \in Nat /\ buffer \in Seq(Input!Character)
      BY <1>1 DEF InputTypes
    <3> QED
      BY ONLY <3>1
  <2>2. screen \in [cells : Seq(Cell), cursor : Nat] /\ OnScreen(b, b, b)
    BY <1>1, <2>1 DEF InputScreen, EchoPlace
  <2>3. PICK s1 : s1 = screen.cells /\ s1 \in Seq(Cell)
    BY <2>2
  <2>4. screen.cursor = b /\ b <= Len(s1) /\ (\A j \in 1 .. b : s1[j] = buffer[j])
        /\ \A j \in b + 1 .. Len(s1) : s1[j] = Input!Space
    BY ONLY <2>2, <2>3 DEF OnScreen
  <2>5. SubSeq(s1, 1, b) = [j \in 1 .. b |-> s1[j]]
    BY ONLY <2>1, <2>3, <2>4
  <2>6. buffer = [j \in 1 .. b |-> buffer[j]]
    BY ONLY <2>1, SequenceIs
  <2> QED
    BY ONLY <2>3, <2>4, <2>5, <2>6
<1>8. Input!PolledInOrder
  BY <1>1, <1>5 DEF Input!PolledInOrder, InputOrder
<1> QED
  BY <1>3, <1>6, <1>7, <1>8
-----------------------------------------------------------------------------
(***************************************************************************)
(* The layers and the devices share no state: a step of the one leaves the *)
(* invariants of the others.                                               *)
(***************************************************************************)
LinksIInv ==
    /\ LinkIInv /\ QueueIInv /\ SerialIInv /\ CounterIInv
    /\ SendIInv /\ RateFound /\ InputIInv

\* What is under way between the firmware and the cartridge, what the queue
\* holds, how far the serial line and its slave are with a transfer, what the
\* words of a long counter are worth, what is out of the messages and what is
\* still to come, what was read of the keys and what the terminal shows.
THEOREM LinksInvariant == LinksSpec => []LinksIInv
<1>1. LinksInit => LinksIInv
  BY InitLink, InitQueue, InitSerial, InitInvariant, InitSend, InitInput, DevicesAssumption
     DEF LinksInit, LinksIInv
<1>2. LinksIInv /\ [LinksNext]_allVars => LinksIInv'
  <2>1. [LinksNext]_allVars => /\ [Next]_vars /\ [Queue!Clock]_queueVars
                               /\ [Serial!Next]_serialVars /\ [Counter!Next]_counterVars
                               /\ [Messages!Next]_consoleVars /\ [Input!Next]_inputVars
    BY DEF LinksNext, LinkStep, QueueClock, SerialStep, ConsoleStep, InputStep, CounterStep, allVars
  <2> QED
    BY <2>1, NextLink, NextQueue, NextSerial, StepInvariant, SendStep, RateStep, NextInput,
       DevicesAssumption DEF LinksIInv
<1> QED
  BY <1>1, <1>2, PTL DEF LinksSpec

\* Each call of the firmware reads the answer to its own command, whatever was
\* in the queue when it started, for paths, rests and queues of any length.
THEOREM AnswersKept == LinksSpec => []AnswersInStep
<1>1. LinksIInv => AnswersInStep
  BY LinkKept DEF LinksIInv
<1> QED
  BY <1>1, LinksInvariant, PTL

\* The queue gives its bytes in their order, each once, and counts what it
\* holds, for any size and any clocks of its two sides.
THEOREM QueueKeepsOrder == LinksSpec => []QueueInOrder
<1>1. LinksIInv => QueueInOrder
  BY QueueKept DEF LinksIInv
<1> QED
  BY <1>1, LinksInvariant, PTL

\* A transfer of the serial line, of any length and for masters of any speed the
\* slave can follow: what is written arrives once at its address, what is read
\* is the address' or the queue's, in order, and the queue loses exactly what
\* the master received.
THEOREM TransfersKept == LinksSpec => []TransfersWhole
<1>1. LinksIInv => TransfersWhole
  BY SerialKept DEF LinksIInv
<1> QED
  BY <1>1, LinksInvariant, PTL

\* neorv32_mtime_get_time and neorv32_cpu_get_cycle return what the counter
\* was worth during the call, and go back for the high word once at most;
\* neorv32_mtime_set_time and neorv32_cpu_set_mcycle set the running counter
\* exactly: no carry is lost or comes twice.
THEOREM CountersKept == LinksSpec => []CountersWhole
<1>1. LinksIInv => CountersWhole
  BY DEF LinksIInv, CounterIInv, CounterTyped, ReadParts, CountersWhole, Counter!ReadWhole
<1> QED
  BY <1>1, LinksInvariant, PTL

\* printf gives out the text of every call, in their order, each number as its
\* numeral and each line feed with a return before it, for formats, strings and
\* words of any length; neorv32_uart_setup finds a divisor with which a terminal
\* at the rate asked for reads every bit in its place.  neorv32_uart_scan makes
\* its line of the keys it read, each once and in their order, within the size
\* of its buffer, the terminal shows that line, and the last key is not lost.
THEOREM MessagesKept == LinksSpec => []MessagesReadable
<1>1. LinksIInv => MessagesReadable
  BY SendKept, InputKept, DevicesAssumption DEF LinksIInv, MessagesReadable
<1> QED
  BY <1>1, LinksInvariant, PTL
=============================================================================
