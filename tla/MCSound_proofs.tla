---------------------------- MODULE MCSound_proofs ----------------------------
(***************************************************************************)
(* Proofs about the way of the sound: the divider, for every ratio and     *)
(* width; the buffer of a channel of the effects, for every size, pitch    *)
(* and pace; the ring of the music, for every size and pace of the drive;  *)
(* mixing and output, for any number of channels and bits.                 *)
(***************************************************************************)
EXTENDS MCSound, Sequences, TLAPS

(***************************************************************************)
(* The divider.                                                            *)
(***************************************************************************)
\* The counter is what the clocks have brought less what the ticks have taken.
Balance ==
    /\ clk_ctr = clocks * CLK_INC - ticks * ratio
    /\ clk_ctr < ratio

IInv == TypeOK /\ Balance

LEMMA InitInvariant == Init => IInv
<1> SUFFICES ASSUME Init PROVE IInv
  OBVIOUS
<1>1. ratio \in Nat /\ ratio > 0 /\ ratio <= Width /\ Width \in Nat
  BY DividerAssumption DEF Init
<1>2. TypeOK
  <2>1. 0 \in 0 .. Width - 1 /\ 0 \in 0 .. ratio - 1
    BY <1>1
  <2>2. ratio \in Ratios /\ ck_out \in BOOLEAN
    BY DEF Init
  <2>3. clk_ctr \in 0 .. Width - 1 /\ clocks \in 0 .. ratio - 1 /\ ticks \in Int
    BY <2>1 DEF Init
  <2> QED
    BY <2>2, <2>3 DEF TypeOK
<1>3. Balance
  BY <1>1, DividerAssumption DEF Init, Balance
<1> QED
  BY <1>2, <1>3 DEF IInv

\* What is counted keeps the balance when the counter changes by the same.
LEMMA CountBalance ==
    ASSUME IInv, NEW tick \in BOOLEAN, Count(tick), UNCHANGED ratio,
           clk_ctr' = clk_ctr + CLK_INC - (IF tick THEN ratio ELSE 0),
           clk_ctr' \in 0 .. ratio - 1
    PROVE  Balance' /\ clocks' \in 0 .. ratio - 1 /\ ticks' \in Int
<1> DEFINE more == IF tick THEN 1 ELSE 0
<1>1. /\ ratio \in Nat /\ ratio > 0 /\ CLK_INC \in Nat /\ clk_ctr \in Int /\ clk_ctr' \in Int
      /\ clocks \in Int /\ 0 <= clocks /\ clocks < ratio /\ ticks \in Int /\ more \in Int
  BY DividerAssumption DEF IInv, TypeOK
<1>2. clk_ctr = clocks * CLK_INC - ticks * ratio
  BY DEF IInv, Balance
<1>3. clk_ctr' = clk_ctr + CLK_INC - more * ratio
  BY <1>1
<1>4. clk_ctr' = (clocks + 1) * CLK_INC - (ticks + more) * ratio
  BY <1>1, <1>2, <1>3
<1>5. CASE clocks + 1 = ratio
  <2>1. clocks' = 0 /\ ticks' = ticks + more - CLK_INC
    BY <1>5 DEF Count
  <2>2. clk_ctr' = ratio * CLK_INC - (ticks + more) * ratio
    BY <1>4, <1>5
  <2>3. clk_ctr' = clocks' * CLK_INC - ticks' * ratio
    BY <1>1, <2>1, <2>2
  <2> QED
    BY <1>1, <2>1, <2>3 DEF Balance
<1>6. CASE clocks + 1 # ratio
  <2>1. clocks' = clocks + 1 /\ ticks' = ticks + more
    BY <1>6 DEF Count
  <2> QED
    BY <1>1, <1>4, <1>6, <2>1 DEF Balance
<1> QED
  BY <1>5, <1>6

LEMMA StepInvariant == IInv /\ [Clock]_vars => IInv'
<1> SUFFICES ASSUME IInv, [Clock]_vars PROVE IInv'
  OBVIOUS
<1>1. /\ ratio \in Ratios /\ ratio \in Nat /\ CLK_INC \in Nat /\ CLK_INC > 0
      /\ CLK_INC <= ratio /\ ratio <= Width /\ Width \in Nat
      /\ clk_ctr \in Nat /\ clk_ctr < ratio
  BY DividerAssumption DEF IInv, TypeOK, Balance
<1>2. CASE Tick
  <2>1. clk_ctr' = clk_ctr + CLK_INC - ratio /\ clk_ctr' \in 0 .. ratio - 1
    BY <1>1, <1>2 DEF Tick
  <2>2. Count(TRUE) /\ UNCHANGED ratio /\ ck_out' \in BOOLEAN
    BY <1>2 DEF Tick
  <2>3. Balance' /\ clocks' \in 0 .. ratio - 1 /\ ticks' \in Int
    BY <2>1, <2>2, CountBalance
  <2> QED
    BY <1>1, <2>1, <2>2, <2>3 DEF IInv, TypeOK
<1>3. CASE NoTick
  <2>1. clk_ctr' = clk_ctr + CLK_INC - 0 /\ clk_ctr' \in 0 .. ratio - 1
    BY <1>1, <1>3 DEF NoTick
  <2>2. Count(FALSE) /\ UNCHANGED ratio /\ ck_out' \in BOOLEAN
    BY <1>3 DEF NoTick
  <2>3. Balance' /\ clocks' \in 0 .. ratio - 1 /\ ticks' \in Int
    BY <2>1, <2>2, CountBalance
  <2> QED
    BY <1>1, <2>1, <2>2, <2>3 DEF IInv, TypeOK
<1>4. CASE UNCHANGED vars
  BY <1>4 DEF vars, IInv, TypeOK, Balance
<1> QED
  BY <1>2, <1>3, <1>4 DEF Clock

LEMMA BalanceNoDrift == IInv => NoDrift
<1> SUFFICES ASSUME IInv PROVE NoDrift
  OBVIOUS
<1>1. /\ ratio \in Int /\ CLK_INC \in Int /\ clocks \in Int /\ ticks \in Int
      /\ clk_ctr \in Nat /\ clk_ctr < ratio
  BY DividerAssumption DEF IInv, TypeOK, Balance
<1>2. clk_ctr = clocks * CLK_INC - ticks * ratio
  BY DEF IInv, Balance
<1>3. (ticks + 1) * ratio = ticks * ratio + ratio
  BY <1>1
<1> HIDE DEF IInv
<1>4. clocks * CLK_INC \in Int /\ ticks * ratio \in Int
  BY <1>1
<1> QED
  BY <1>1, <1>2, <1>3, <1>4 DEF NoDrift

\* The counter stays within its width (clk_dvp): the subtraction at a tick
\* never goes below zero, nor the addition above.
THEOREM DividerTypes == Spec => []TypeOK
<1>1. IInv => TypeOK
  BY DEF IInv
<1> QED
  BY <1>1, InitInvariant, StepInvariant, PTL DEF Spec

\* The divider of clk_dvp does not drift, whatever the two rates are.
THEOREM DividerNoDrift == Spec => []NoDrift
  BY InitInvariant, StepInvariant, BalanceNoDrift, PTL DEF Spec
-----------------------------------------------------------------------------
(***************************************************************************)
(* The channel of the effects.                                             *)
(***************************************************************************)
\* Places on a circle of n.
Plus(a, b, n) == IF a + b < n THEN a + b ELSE a + b - n
Minus(a, b, n) == IF a >= b THEN a - b ELSE a - b + n

\* The addresses have a bit more than the place in the buffer.
Turns == 2 * Size
PlaceOf(c) == IF c < Size THEN c ELSE c - Size
Held == Minus(addr_wr, addr_rd, Turns)

ChannelTypes ==
    /\ Channel!TypeOK
    /\ {pcm_we, pcm_we_st, room} \subseteq BOOLEAN
    /\ put \in 0 .. Turns - 1 /\ taken \in 0 .. Turns - 1
    /\ mem_dato \in 0 .. Turns /\ chan_pcm \in 0 .. Turns
    /\ since \in Nat \ {0} /\ rest \in Nat
    /\ pitch \in Nat /\ steps \in 0 .. Channel!Unknown

\* A sample is counted two clocks after it is written, before the next look.
WriteCounted ==
    /\ pcm_we_st => ~pcm_we /\ ~room /\ rest = 1
    /\ room \/ pcm_we \/ pcm_we_st => Held < Size

\* The addresses are the numbers of the samples, the one behind while a
\* sample is there that is not counted yet.
Numbers ==
    /\ taken = addr_rd
    /\ put = IF pcm_we_st THEN Plus(addr_wr, 1, Turns) ELSE addr_wr

\* The samples held are in the buffer, each at its place, and so is that one.
SamplesHeld ==
    /\ \A k \in 0 .. Held - 1 :
           ram[PlaceOf(Plus(addr_rd, k, Turns))] = Plus(addr_rd, k, Turns)
    /\ pcm_we_st => ram[PlaceOf(addr_wr)] = addr_wr

\* By the second clock after a period the buffer gives the next sample.
SampleNext ==
    /\ since >= 2 /\ Held > 0 => mem_dato = addr_rd
    /\ chan_pcm # Turns => chan_pcm = Minus(addr_rd, 1, Turns)

\* Where the counter is, some periods after one was left out.
PitchCounts ==
    steps # Channel!Unknown =>
        /\ pitch = 0 => pitch_ctr = 0
        /\ pitch > 0 => /\ steps <= pitch
                        /\ pitch_ctr = IF steps + 2 <= pitch THEN steps + 2
                                       ELSE steps + 1 - pitch

ChannelIInv ==
    ChannelTypes /\ WriteCounted /\ Numbers /\ SamplesHeld /\ SampleNext /\ PitchCounts

LEMMA Remainder ==
    ASSUME NEW n \in Nat, n > 0, NEW x \in 0 .. 3 * n - 1
    PROVE  /\ x < n => x % n = x
           /\ x >= n /\ x < 2 * n => x % n = x - n
           /\ x >= 2 * n => x % n = x - 2 * n
<1>1. CASE x < n
  BY <1>1, SMT
<1>2. CASE x >= n /\ x < 2 * n
  BY <1>2, SMT
<1>3. CASE x >= 2 * n
  BY <1>3, SMT
<1> QED
  BY <1>1, <1>2, <1>3, SMT

LEMMA ChannelSizes ==
    /\ Size \in Nat /\ Size > 0 /\ Turns \in Nat /\ Turns > 1 /\ Turns = 2 * Size
    /\ Channel!Tags = Turns
    /\ Period \in Nat /\ Period >= 2 /\ LookGap \in Nat /\ LookGap >= 2
    /\ Pitches \subseteq Nat
BY PartsAssumption DEF Channel!SfxChanAssumption, Turns, Channel!Tags

\* What the addresses of the code are on their circle.
LEMMA OnCircle ==
    ASSUME NEW a \in 0 .. Turns - 1
    PROVE  /\ (a + 1) % (2 * Size) = Plus(a, 1, Turns) /\ Plus(a, 1, Turns) \in 0 .. Turns - 1
           /\ (a + Turns - 1) % Turns = Minus(a, 1, Turns)
           /\ a % Size = PlaceOf(a) /\ PlaceOf(a) \in 0 .. Size - 1
           /\ \A k \in 0 .. Size - 1 :
                  /\ (a + k) % Size = PlaceOf(Plus(a, k, Turns))
                  /\ (a + k) % Turns = Plus(a, k, Turns)
                  /\ Plus(a, k, Turns) \in 0 .. Turns - 1
           /\ \A b \in 0 .. Turns - 1 :
                  /\ (b - a + 2 * Size) % (2 * Size) = Minus(b, a, Turns)
                  /\ Minus(b, a, Turns) \in 0 .. Turns - 1
<1> DEFINE n == Size
<1>1. n \in Nat /\ n > 0 /\ Turns = 2 * n /\ Turns \in Nat /\ Turns > 0 /\ Turns > 1
  BY ChannelSizes
<1>2. \A x \in 0 .. 3 * n - 1 : x % n = IF x < n THEN x ELSE IF x < 2 * n THEN x - n ELSE x - 2 * n
  BY <1>1, Remainder
<1>3. \A x \in 0 .. 2 * Turns - 1 : x % Turns = IF x < Turns THEN x ELSE x - Turns
  <2> SUFFICES ASSUME NEW x \in 0 .. 2 * Turns - 1
               PROVE  x % Turns = IF x < Turns THEN x ELSE x - Turns
    OBVIOUS
  <2>1. x \in 0 .. 3 * Turns - 1
    BY <1>1
  <2> QED
    BY <1>1, <2>1, Remainder
<1>4. (a + 1) % Turns = Plus(a, 1, Turns) /\ Plus(a, 1, Turns) \in 0 .. Turns - 1
  BY <1>1, <1>3 DEF Plus
<1>5. (a + Turns - 1) % Turns = Minus(a, 1, Turns)
  <2>1. a + Turns - 1 \in 0 .. 2 * Turns - 1
    BY <1>1
  <2> QED
    BY <1>1, <1>3, <2>1 DEF Minus
<1>6. a % Size = PlaceOf(a) /\ PlaceOf(a) \in 0 .. Size - 1
  <2>1. a \in 0 .. 3 * n - 1
    BY <1>1
  <2> QED
    BY <1>1, <1>2, <2>1 DEF PlaceOf
<1>7. ASSUME NEW k \in 0 .. Size - 1
      PROVE  /\ (a + k) % Size = PlaceOf(Plus(a, k, Turns))
             /\ (a + k) % Turns = Plus(a, k, Turns)
             /\ Plus(a, k, Turns) \in 0 .. Turns - 1
  <2>1. a + k \in 0 .. 3 * n - 1 /\ a + k \in 0 .. 2 * Turns - 1
    BY <1>1
  <2>2. (a + k) % Turns = Plus(a, k, Turns) /\ Plus(a, k, Turns) \in 0 .. Turns - 1
    BY <1>1, <1>3, <2>1 DEF Plus
  <2>3. (a + k) % n = IF a + k < n THEN a + k ELSE IF a + k < 2 * n THEN a + k - n ELSE a + k - 2 * n
    <3>1. PICK x \in 0 .. 3 * n - 1 : x = a + k
      BY <2>1
    <3>2. x % n = IF x < n THEN x ELSE IF x < 2 * n THEN x - n ELSE x - 2 * n
      BY <1>2
    <3> QED
      BY <1>1, <3>1, <3>2
  <2>4. (a + k) % Size = PlaceOf(Plus(a, k, Turns))
    BY <1>1, <2>3 DEF PlaceOf, Plus
  <2> QED
    BY <2>2, <2>4
<1>8. ASSUME NEW b \in 0 .. Turns - 1
      PROVE  /\ (b - a + Turns) % Turns = Minus(b, a, Turns)
             /\ Minus(b, a, Turns) \in 0 .. Turns - 1
  <2>1. b - a + Turns \in 0 .. 2 * Turns - 1
    BY <1>1
  <2> QED
    BY <1>1, <1>3, <2>1 DEF Minus
<1> QED
  BY <1>1, <1>4, <1>5, <1>6, <1>7, <1>8

\* What the code sees of the addresses.
LEMMA Filled ==
    ASSUME ChannelIInv
    PROVE  /\ addr_rd \in 0 .. Turns - 1 /\ addr_wr \in 0 .. Turns - 1
           /\ Held \in 0 .. Size /\ Channel!held = Held
           /\ Channel!fifo_empty <=> Held = 0
           /\ Channel!fifo_full <=> Held = Size
<1>1. addr_rd \in 0 .. Turns - 1 /\ addr_wr \in 0 .. Turns - 1 /\ Channel!held <= Size
  BY ChannelSizes DEF ChannelIInv, ChannelTypes, Channel!TypeOK
<1>2. Channel!held = Held /\ Held \in 0 .. Turns - 1
  BY <1>1, OnCircle DEF Channel!held, Held
<1>3. Held \in 0 .. Size
  BY <1>1, <1>2, ChannelSizes
<1>4. Channel!fifo_empty <=> Held = 0
  BY <1>1, ChannelSizes DEF Channel!fifo_empty, Held, Minus
<1>5. addr_rd % Size = PlaceOf(addr_rd) /\ addr_wr % Size = PlaceOf(addr_wr)
  BY <1>1, OnCircle
<1>6. Channel!fifo_full <=> Held = Size
  BY <1>1, <1>3, <1>5, ChannelSizes DEF Channel!fifo_full, Held, Minus, PlaceOf
<1> QED
  BY <1>1, <1>2, <1>3, <1>4, <1>6

\* The firmware's side of a clock.
LEMMA FirmwareSide ==
    ASSUME ChannelIInv, Channel!Clock
    PROVE  /\ {pcm_we', pcm_we_st', room'} \subseteq BOOLEAN /\ rest' \in Nat
           /\ pcm_we_st' = pcm_we
           /\ room' => ~pcm_we'
           /\ pcm_we_st' => ~pcm_we' /\ ~room' /\ rest' = 1
           /\ put' = IF pcm_we THEN Plus(put, 1, Turns) ELSE put
           /\ pcm_we' => room
           /\ room' => room \/ (Held < Size /\ ~pcm_we_st)
           /\ pcm_we => ~pcm_we_st
<1>1. /\ {pcm_we, pcm_we_st, room} \subseteq BOOLEAN /\ rest \in Nat /\ (room => ~pcm_we)
      /\ put \in 0 .. Turns - 1 /\ (pcm_we_st => ~pcm_we /\ ~room /\ rest = 1)
  BY DEF ChannelIInv, ChannelTypes, WriteCounted, Channel!TypeOK
<1>2. pcm_we_st' = pcm_we /\ Channel!Firmware
  BY DEF Channel!Clock, Channel!Buffer
<1>3. (put + 1) % Channel!Tags = Plus(put, 1, Turns)
  BY <1>1, ChannelSizes, OnCircle
<1>4. LookGap \in Nat /\ LookGap >= 2
  BY ChannelSizes
<1>5. CASE ~pcm_we /\ Channel!Stays
  BY <1>1, <1>2, <1>4, <1>5 DEF Channel!Stays
<1>6. CASE Channel!Look
  <2>1. Channel!fifo_full <=> Held = Size
    BY Filled
  <2>2. Held \in 0 .. Size
    BY Filled
  <2>3. /\ ~room /\ ~pcm_we /\ rest >= LookGap /\ (room' <=> ~Channel!fifo_full)
        /\ room' \in BOOLEAN /\ UNCHANGED <<rest, pcm_we, put>>
    BY <1>6 DEF Channel!Look, Channel!fifo_full
  <2>4. ~pcm_we_st
    BY <1>1, <1>4, <2>3
  <2>5. room' => Held < Size
    BY <2>1, <2>2, <2>3, ChannelSizes
  <2> QED
    BY <1>1, <1>2, <2>3, <2>4, <2>5
<1>7. CASE Channel!Write
  BY <1>1, <1>2, <1>7 DEF Channel!Write
<1>8. CASE Channel!Written
  BY <1>1, <1>2, <1>3, <1>8 DEF Channel!Written
<1> QED
  BY <1>2, <1>5, <1>6, <1>7, <1>8 DEF Channel!Firmware

\* The buffer's side: the addresses.
LEMMA AddressSide ==
    ASSUME ChannelIInv, Channel!Clock
    PROVE  \E r \in {0, 1}, w \in {0, 1} :
               /\ addr_rd' = (IF r = 1 THEN Plus(addr_rd, 1, Turns) ELSE addr_rd)
               /\ addr_wr' = (IF w = 1 THEN Plus(addr_wr, 1, Turns) ELSE addr_wr)
               /\ addr_rd' \in 0 .. Turns - 1 /\ addr_wr' \in 0 .. Turns - 1
               /\ r <= Held /\ (w = 1 <=> pcm_we_st)
               /\ Held' = Held - r + w /\ Held' \in 0 .. Size
               /\ r = 1 => since' = 1 /\ since >= 2
               /\ taken' = addr_rd'
               /\ chan_pcm' = IF r = 1 THEN mem_dato ELSE chan_pcm
<1>1. PICK next_sample \in BOOLEAN :
          Channel!Rate(next_sample) /\ Channel!Buffer(next_sample)
  BY DEF Channel!Clock
<1>2. /\ addr_rd \in 0 .. Turns - 1 /\ addr_wr \in 0 .. Turns - 1
      /\ Held \in 0 .. Size
      /\ Channel!fifo_empty <=> Held = 0
      /\ Channel!fifo_full <=> Held = Size
  BY Filled
<1>3. /\ taken = addr_rd /\ {pcm_we, pcm_we_st} \subseteq BOOLEAN
      /\ pcm_we_st => ~pcm_we /\ Held < Size
  BY DEF ChannelIInv, ChannelTypes, Numbers, WriteCounted
<1>4. /\ Channel!Advance(addr_rd) = Plus(addr_rd, 1, Turns)
      /\ Channel!Advance(addr_wr) = Plus(addr_wr, 1, Turns)
      /\ (taken + 1) % Channel!Tags = Plus(addr_rd, 1, Turns)
      /\ Plus(addr_rd, 1, Turns) \in 0 .. Turns - 1 /\ Plus(addr_wr, 1, Turns) \in 0 .. Turns - 1
  BY <1>2, <1>3, OnCircle, ChannelSizes DEF Channel!Advance
<1>5. PICK w \in {0, 1} : w = 1 <=> pcm_we_st
  BY <1>3
<1>6. addr_wr' = IF w = 1 THEN Plus(addr_wr, 1, Turns) ELSE addr_wr
  <2>1. Channel!Counted /\ ~Channel!fifo_full <=> w = 1
    BY <1>2, <1>3, <1>5, ChannelSizes DEF Channel!Counted
  <2>2. addr_wr' = IF Channel!Counted /\ ~Channel!fifo_full THEN Channel!Advance(addr_wr) ELSE addr_wr
    BY <1>1 DEF Channel!Buffer
  <2> QED
    BY <1>4, <2>1, <2>2
<1>7. PICK r \in {0, 1} : r = 1 <=> Channel!Reads(next_sample)
  BY DEF Channel!Reads
<1>8. /\ addr_rd' = (IF r = 1 THEN Plus(addr_rd, 1, Turns) ELSE addr_rd)
      /\ taken' = addr_rd' /\ chan_pcm' = IF r = 1 THEN mem_dato ELSE chan_pcm
  <2>1. IF Channel!Reads(next_sample)
        THEN /\ addr_rd' = Channel!Advance(addr_rd) /\ chan_pcm' = mem_dato
             /\ taken' = (taken + 1) % Channel!Tags
        ELSE UNCHANGED <<addr_rd, chan_pcm, taken>>
    BY <1>1 DEF Channel!Buffer
  <2> QED
    BY <1>3, <1>4, <1>7, <2>1
<1>9. r = 1 => Held > 0 /\ next_sample
  BY <1>2, <1>7 DEF Channel!Reads
<1>10. r <= Held
  BY <1>2, <1>9
<1>11. next_sample => since' = 1 /\ since >= 2
  BY <1>1, ChannelSizes DEF Channel!Rate, ChannelIInv, ChannelTypes
<1>12. addr_rd' \in 0 .. Turns - 1 /\ addr_wr' \in 0 .. Turns - 1
  BY <1>2, <1>4, <1>6, <1>8
<1>13. Held' = Held - r + w
  <2>1. w = 1 => Held < Size
    BY <1>3, <1>5
  <2> QED
    BY <1>2, <1>6, <1>8, <1>10, <2>1, ChannelSizes DEF Held, Minus, Plus
<1>14. Held' \in 0 .. Size
  BY <1>2, <1>3, <1>5, <1>10, <1>13, ChannelSizes
<1> QED
  BY <1>5, <1>6, <1>8, <1>9, <1>10, <1>11, <1>12, <1>13, <1>14

\* The samples held keep their places, and the one written takes the next.
LEMMA HeldStep == ChannelIInv /\ Channel!Clock => SamplesHeld'
<1> SUFFICES ASSUME ChannelIInv, Channel!Clock PROVE SamplesHeld'
  OBVIOUS
<1>1. PICK r \in {0, 1}, w \in {0, 1} :
          /\ addr_rd' = (IF r = 1 THEN Plus(addr_rd, 1, Turns) ELSE addr_rd)
          /\ addr_wr' = (IF w = 1 THEN Plus(addr_wr, 1, Turns) ELSE addr_wr)
          /\ addr_rd' \in 0 .. Turns - 1 /\ addr_wr' \in 0 .. Turns - 1
          /\ r <= Held /\ (w = 1 <=> pcm_we_st)
          /\ Held' = Held - r + w /\ Held' \in 0 .. Size
  BY AddressSide
<1>2. /\ addr_rd \in 0 .. Turns - 1 /\ addr_wr \in 0 .. Turns - 1 /\ Held \in 0 .. Size
      /\ Size \in Nat /\ Size > 0 /\ Turns = 2 * Size
  BY Filled, ChannelSizes
<1>3. /\ {pcm_we, pcm_we_st} \subseteq BOOLEAN
      /\ pcm_we_st => ~pcm_we
      /\ pcm_we \/ pcm_we_st => Held < Size
      /\ put = IF pcm_we_st THEN Plus(addr_wr, 1, Turns) ELSE addr_wr
      /\ \A k \in 0 .. Held - 1 :
             ram[PlaceOf(Plus(addr_rd, k, Turns))] = Plus(addr_rd, k, Turns)
      /\ pcm_we_st => ram[PlaceOf(addr_wr)] = addr_wr
  BY DEF ChannelIInv, ChannelTypes, WriteCounted, Numbers, SamplesHeld
<1>4. /\ pcm_we_st' = pcm_we
      /\ ram' = IF pcm_we THEN [ram EXCEPT ![PlaceOf(addr_wr)] = put] ELSE ram
  BY <1>2, OnCircle DEF Channel!Clock, Channel!Buffer
<1>5. /\ DOMAIN ram = 0 .. Size - 1 /\ PlaceOf(addr_wr) \in 0 .. Size - 1
      /\ \A a \in 0 .. Turns - 1 : PlaceOf(a) \in 0 .. Size - 1
      /\ Plus(addr_rd, Held, Turns) = addr_wr
  <2>1. \A a \in 0 .. Turns - 1 : PlaceOf(a) \in 0 .. Size - 1
    BY OnCircle
  <2>2. ram \in [0 .. Size - 1 -> 0 .. Channel!Tags]
    BY DEF ChannelIInv, ChannelTypes, Channel!TypeOK
  <2> QED
    BY <1>2, <2>1, <2>2 DEF Held, Plus, Minus
<1>6. pcm_we_st' => ram'[PlaceOf(addr_wr')] = addr_wr'
  BY <1>1, <1>3, <1>4, <1>5
\* what is written is behind what is held
<1>7. ASSUME NEW k \in 0 .. Held - 1, pcm_we
      PROVE  PlaceOf(Plus(addr_rd, k, Turns)) # PlaceOf(addr_wr)
  <2>1. k < Held /\ Held < Size /\ k \in Nat
    BY <1>2, <1>3, <1>7
  <2>2. PICK h \in 0 .. Size : h = Held /\ addr_wr = Plus(addr_rd, h, Turns)
    BY <1>2, <1>5
  <2> QED
    BY <1>2, <2>1, <2>2 DEF Plus, PlaceOf
<1>8. ASSUME NEW k \in 0 .. Held - 1
      PROVE  ram'[PlaceOf(Plus(addr_rd, k, Turns))] = Plus(addr_rd, k, Turns)
  <2>1. k \in 0 .. Size - 1
    BY <1>2
  <2>2. PlaceOf(Plus(addr_rd, k, Turns)) \in 0 .. Size - 1
    BY <1>2, <2>1, OnCircle
  <2> QED
    BY <1>3, <1>4, <1>5, <1>7, <2>2
<1>9. w = 1 => ram'[PlaceOf(addr_wr)] = addr_wr
  BY <1>1, <1>3, <1>4
<1>10. ASSUME NEW k \in 0 .. Held' - 1
       PROVE  ram'[PlaceOf(Plus(addr_rd', k, Turns))] = Plus(addr_rd', k, Turns)
  <2>1. PICK h \in 0 .. Size : h = Held
    BY <1>2
  <2>2. k + r \in 0 .. h - 1 + w /\ k \in 0 .. Size - 1
    BY <1>1, <1>2, <2>1
  <2>3. Plus(addr_rd', k, Turns) = Plus(addr_rd, k + r, Turns)
    BY <1>1, <1>2, <2>1, <2>2 DEF Plus
  <2>4. CASE k + r < h
    BY <1>8, <2>1, <2>2, <2>3, <2>4
  <2>5. CASE k + r = h
    BY <1>5, <1>9, <2>1, <2>2, <2>3, <2>5
  <2> QED
    BY <2>1, <2>2, <2>4, <2>5
<1> QED
  BY <1>6, <1>10 DEF SamplesHeld

\* What the buffer gives next, and what was taken.
LEMMA NextStep == ChannelIInv /\ Channel!Clock => SampleNext'
<1> SUFFICES ASSUME ChannelIInv, Channel!Clock PROVE SampleNext'
  OBVIOUS
<1>1. PICK r \in {0, 1}, w \in {0, 1} :
          /\ addr_rd' = (IF r = 1 THEN Plus(addr_rd, 1, Turns) ELSE addr_rd)
          /\ r <= Held /\ (w = 1 <=> pcm_we_st)
          /\ Held' = Held - r + w
          /\ r = 1 => since' = 1 /\ since >= 2
          /\ chan_pcm' = IF r = 1 THEN mem_dato ELSE chan_pcm
  BY AddressSide
<1>2. /\ addr_rd \in 0 .. Turns - 1 /\ addr_wr \in 0 .. Turns - 1 /\ Held \in 0 .. Size
      /\ Size \in Nat /\ Size > 0 /\ Turns = 2 * Size
  BY Filled, ChannelSizes
<1>3. /\ since >= 2 /\ Held > 0 => mem_dato = addr_rd
      /\ chan_pcm # Turns => chan_pcm = Minus(addr_rd, 1, Turns)
      /\ \A k \in 0 .. Held - 1 :
             ram[PlaceOf(Plus(addr_rd, k, Turns))] = Plus(addr_rd, k, Turns)
      /\ pcm_we_st => ram[PlaceOf(addr_wr)] = addr_wr
  BY DEF ChannelIInv, SampleNext, SamplesHeld
<1>4. mem_dato' = ram[PlaceOf(addr_rd)]
  BY <1>2, OnCircle DEF Channel!Clock, Channel!Buffer
<1>5. ASSUME since' >= 2, Held' > 0 PROVE mem_dato' = addr_rd'
  <2>1. r = 0 /\ addr_rd' = addr_rd
    BY <1>1, <1>5
  <2>2. CASE Held > 0
    <3>1. 0 \in 0 .. Held - 1 /\ Plus(addr_rd, 0, Turns) = addr_rd
      BY <1>2, <2>2 DEF Plus
    <3> QED
      BY <1>3, <1>4, <2>1, <3>1
  <2>3. CASE Held = 0
    <3>1. w = 1 /\ addr_wr = addr_rd
      BY <1>1, <1>2, <1>5, <2>1, <2>3 DEF Held, Minus
    <3> QED
      BY <1>1, <1>3, <1>4, <2>1, <3>1
  <2> QED
    BY <1>2, <2>2, <2>3
<1>6. ASSUME chan_pcm' # Turns PROVE chan_pcm' = Minus(addr_rd', 1, Turns)
  <2>1. CASE r = 1
    <3>1. Held > 0 /\ mem_dato = addr_rd
      BY <1>1, <1>2, <1>3, <2>1
    <3> QED
      BY <1>1, <1>2, <2>1, <3>1 DEF Plus, Minus
  <2>2. CASE r = 0
    BY <1>1, <1>3, <1>6, <2>2
  <2> QED
    BY <2>1, <2>2
<1> QED
  BY <1>5, <1>6 DEF SampleNext

\* The pitch: its counter goes round in pitch + 1 periods.
LEMMA PitchStep ==
    ASSUME ChannelIInv, Channel!Clock
    PROVE  /\ PitchCounts' /\ pitch_ctr' \in Nat /\ pitch' \in Nat /\ steps' \in 0 .. 32
           /\ since' \in Nat \ {0}
           /\ since' = 1 /\ steps # Channel!Unknown
                  => (pitch_ctr = 1 <=> pitch > 0 /\ steps = pitch)
<1>1. PICK next_sample \in BOOLEAN :
          Channel!Rate(next_sample) /\ Channel!Pitch(next_sample)
  BY DEF Channel!Clock
<1>2. /\ pitch_ctr \in Nat /\ pitch \in Nat /\ steps \in 0 .. 32 /\ since \in Nat \ {0}
      /\ Period \in Nat /\ Period >= 2 /\ Pitches \subseteq Nat
  BY ChannelSizes DEF Channel!Unknown, ChannelIInv, ChannelTypes, Channel!TypeOK
<1>3. steps # 32 =>
        /\ pitch = 0 => pitch_ctr = 0
        /\ pitch > 0 => /\ steps <= pitch
                        /\ pitch_ctr = IF steps + 2 <= pitch THEN steps + 2
                                       ELSE steps + 1 - pitch
  BY DEF ChannelIInv, PitchCounts, Channel!Unknown
<1>4. since' \in Nat \ {0} /\ (since' = 1 => next_sample)
  BY <1>1, <1>2 DEF Channel!Rate
<1>5. steps # 32 => (pitch_ctr = 1 <=> pitch > 0 /\ steps = pitch)
  BY <1>2, <1>3
<1>6. pitch_ctr' = IF next_sample THEN (IF pitch_ctr >= pitch THEN 0 ELSE pitch_ctr + 1)
                   ELSE pitch_ctr
  BY <1>1 DEF Channel!Pitch, Channel!NextCount
<1>7. CASE pitch' \in Pitches \ {pitch} /\ steps' = 32
  BY <1>2, <1>4, <1>5, <1>6, <1>7 DEF PitchCounts, Channel!Unknown
<1>8. CASE /\ UNCHANGED pitch
           /\ steps' = IF ~next_sample THEN steps
                       ELSE IF pitch_ctr = 1 THEN 0
                       ELSE IF steps < 32 THEN steps + 1 ELSE steps
  <2>1. CASE ~next_sample
    BY <1>2, <1>3, <1>4, <1>5, <1>6, <1>8, <2>1 DEF PitchCounts, Channel!Unknown
  <2>2. CASE next_sample
    <3>1. PitchCounts'
      <4> SUFFICES ASSUME steps' # 32
                   PROVE  /\ pitch = 0 => pitch_ctr' = 0
                          /\ pitch > 0 => /\ steps' <= pitch
                                          /\ pitch_ctr' = IF steps' + 2 <= pitch THEN steps' + 2
                                                          ELSE steps' + 1 - pitch
        BY <1>8 DEF PitchCounts, Channel!Unknown
      <4>1. CASE pitch_ctr = 1
        BY <1>2, <1>6, <1>8, <2>2, <4>1
      <4>2. CASE pitch_ctr # 1
        <5>1. steps # 32 /\ steps' = steps + 1
          BY <1>2, <1>8, <2>2, <4>2
        <5>2. CASE pitch = 0
          BY <1>2, <1>3, <1>6, <2>2, <5>1, <5>2
        <5>3. CASE pitch > 0
          BY <1>2, <1>3, <1>6, <2>2, <4>2, <5>1, <5>3
        <5> QED
          BY <1>2, <5>2, <5>3
      <4> QED
        BY <4>1, <4>2
    <3> QED
      BY <1>2, <1>4, <1>5, <1>6, <1>8, <2>2, <3>1 DEF Channel!Unknown
  <2> QED
    BY <2>1, <2>2
<1> QED
  BY <1>1, <1>7, <1>8 DEF Channel!Pitch, Channel!Unknown

LEMMA InitChannel == Channel!Init => ChannelIInv
<1> SUFFICES ASSUME Channel!Init PROVE ChannelIInv
  OBVIOUS
<1>1. /\ Size \in Nat /\ Size > 0 /\ Turns = 2 * Size /\ Channel!Tags = Turns /\ LookGap \in Nat
      /\ Pitches \subseteq Nat
  BY ChannelSizes
<1>2. Held = 0 /\ Channel!held = 0
  <2>1. 0 \in 0 .. Turns - 1
    BY <1>1
  <2>2. (0 - 0 + 2 * Size) % (2 * Size) = Minus(0, 0, Turns)
    BY <2>1, OnCircle
  <2>3. Minus(0, 0, Turns) = 0
    BY DEF Minus
  <2> QED
    BY <2>2, <2>3 DEF Channel!Init, Held, Channel!held
<1>3. Channel!TypeOK
  <2>1. addr_rd \in 0 .. 2 * Size - 1 /\ addr_wr \in 0 .. 2 * Size - 1 /\ pitch_ctr \in Nat
    BY <1>1 DEF Channel!Init
  <2>2. ram \in [0 .. Size - 1 -> 0 .. Channel!Tags]
    BY <1>1 DEF Channel!Init
  <2>3. Channel!held <= Size /\ (room => ~pcm_we)
    BY <1>1, <1>2 DEF Channel!Init
  <2> QED
    BY <2>1, <2>2, <2>3 DEF Channel!TypeOK
<1>4. ChannelTypes
  <2>1. {pcm_we, pcm_we_st, room} \subseteq BOOLEAN
    BY DEF Channel!Init
  <2>2. /\ put \in 0 .. Turns - 1 /\ taken \in 0 .. Turns - 1
        /\ mem_dato \in 0 .. Turns /\ chan_pcm \in 0 .. Turns
    BY <1>1 DEF Channel!Init
  <2>3. /\ since \in Nat \ {0} /\ rest \in Nat
        /\ pitch \in Nat /\ steps \in 0 .. Channel!Unknown
    BY <1>1 DEF Channel!Init, Channel!Unknown
  <2> QED
    BY <1>3, <2>1, <2>2, <2>3 DEF ChannelTypes
<1> QED
  BY <1>1, <1>2, <1>4
     DEF Channel!Init, ChannelIInv, WriteCounted, Numbers, SamplesHeld, SampleNext, PitchCounts,
         Channel!Unknown

LEMMA NextChannel == ChannelIInv /\ [Channel!Clock]_channelVars => ChannelIInv'
<1> SUFFICES ASSUME ChannelIInv, [Channel!Clock]_channelVars PROVE ChannelIInv'
  OBVIOUS
<1>1. /\ ChannelTypes /\ WriteCounted /\ Numbers /\ SamplesHeld /\ SampleNext /\ PitchCounts
  BY DEF ChannelIInv
<1>2. CASE UNCHANGED channelVars
  <2>1. ChannelTypes'
    BY <1>1, <1>2 DEF channelVars, ChannelTypes, Channel!TypeOK, Channel!held
  <2>2. Held' = Held
    BY <1>2 DEF channelVars, Held
  <2>3. WriteCounted' /\ Numbers' /\ SamplesHeld' /\ SampleNext' /\ PitchCounts'
    BY <1>1, <1>2, <2>2
       DEF channelVars, WriteCounted, Numbers, SamplesHeld, SampleNext, PitchCounts
  <2> QED
    BY <2>1, <2>3 DEF ChannelIInv
<1>3. CASE Channel!Clock
  <2>1. PICK r \in {0, 1}, w \in {0, 1} :
          /\ addr_rd' = (IF r = 1 THEN Plus(addr_rd, 1, Turns) ELSE addr_rd)
          /\ addr_wr' = (IF w = 1 THEN Plus(addr_wr, 1, Turns) ELSE addr_wr)
          /\ addr_rd' \in 0 .. Turns - 1 /\ addr_wr' \in 0 .. Turns - 1
          /\ r <= Held /\ (w = 1 <=> pcm_we_st)
          /\ Held' = Held - r + w /\ Held' \in 0 .. Size
          /\ taken' = addr_rd'
          /\ chan_pcm' = IF r = 1 THEN mem_dato ELSE chan_pcm
    BY <1>3, AddressSide
  <2>2. /\ {pcm_we', pcm_we_st', room'} \subseteq BOOLEAN /\ rest' \in Nat
        /\ pcm_we_st' = pcm_we
        /\ room' => ~pcm_we'
        /\ pcm_we_st' => ~pcm_we' /\ ~room' /\ rest' = 1
        /\ put' = IF pcm_we THEN Plus(put, 1, Turns) ELSE put
        /\ pcm_we' => room
        /\ room' => room \/ (Held < Size /\ ~pcm_we_st)
        /\ pcm_we => ~pcm_we_st
    BY <1>3, FirmwareSide
  <2>3. /\ addr_rd \in 0 .. Turns - 1 /\ addr_wr \in 0 .. Turns - 1 /\ Held \in 0 .. Size
        /\ Size \in Nat /\ Size > 0 /\ Turns = 2 * Size /\ Channel!Tags = Turns
    BY Filled, ChannelSizes
  <2>4. Numbers'
    BY <1>1, <2>1, <2>2 DEF Numbers, ChannelTypes
  <2>5. WriteCounted'
    <3>1. room' \/ pcm_we' \/ pcm_we_st' => Held < Size /\ ~pcm_we_st
      BY <1>1, <2>2 DEF WriteCounted, ChannelTypes
    <3>2. room' \/ pcm_we' \/ pcm_we_st' => Held' < Size
      BY <2>1, <2>3, <3>1
    <3> QED
      BY <2>2, <3>2 DEF WriteCounted
  <2>6. SamplesHeld' /\ SampleNext' /\ PitchCounts'
    BY <1>3, HeldStep, NextStep, PitchStep
  <2>7. ChannelTypes'
    <3>1. Channel!held' = Held'
      <4>1. (addr_wr' - addr_rd' + 2 * Size) % (2 * Size) = Minus(addr_wr', addr_rd', Turns)
        BY <2>1, OnCircle
      <4> QED
        BY <4>1 DEF Channel!held, Held
    <3>2. put' \in 0 .. Turns - 1 /\ taken' \in 0 .. Turns - 1
      <4>1. Plus(put, 1, Turns) \in 0 .. Turns - 1
        BY <1>1, OnCircle DEF ChannelTypes
      <4> QED
        BY <1>1, <2>1, <2>2, <4>1 DEF ChannelTypes
    <3>3. ram' \in [0 .. Size - 1 -> 0 .. Turns] /\ mem_dato' \in 0 .. Turns
      <4>1. ram \in [0 .. Size - 1 -> 0 .. Turns] /\ put \in 0 .. Turns
        BY <1>1, <2>3 DEF ChannelTypes, Channel!TypeOK
      <4>2. /\ ram' = IF pcm_we THEN [ram EXCEPT ![PlaceOf(addr_wr)] = put] ELSE ram
            /\ mem_dato' = ram[PlaceOf(addr_rd)] /\ PlaceOf(addr_rd) \in 0 .. Size - 1
        BY <1>3, <2>3, OnCircle DEF Channel!Clock, Channel!Buffer
      <4> QED
        BY <4>1, <4>2
    <3>4. chan_pcm' \in 0 .. Turns
      BY <1>1, <2>1 DEF ChannelTypes
    <3>5. /\ pitch_ctr' \in Nat /\ pitch' \in Nat /\ steps' \in 0 .. Channel!Unknown /\ since' \in Nat \ {0}
      BY <1>3, PitchStep DEF Channel!Unknown
    <3>6. Channel!TypeOK'
      <4>1. Channel!held' <= Size
        BY <2>1, <2>3, <3>1
      <4>2. addr_rd' \in 0 .. 2 * Size - 1 /\ addr_wr' \in 0 .. 2 * Size - 1
        BY <2>1, <2>3
      <4>3. ram' \in [0 .. Size - 1 -> 0 .. Channel!Tags]
        BY <2>3, <3>3
      <4> QED
        BY <2>2, <3>5, <4>1, <4>2, <4>3 DEF Channel!TypeOK
    <3> QED
      BY <2>2, <3>2, <3>3, <3>4, <3>5, <3>6 DEF ChannelTypes
  <2> QED
    BY <2>4, <2>5, <2>6, <2>7 DEF ChannelIInv
<1> QED
  BY <1>2, <1>3

\* What the invariant says of the samples, in the words of the channel.
LEMMA ChannelKept ==
    ChannelIInv => Channel!TypeOK /\ Channel!TakenInOrder /\ Channel!NeverOverwrites
<1> SUFFICES ASSUME ChannelIInv
             PROVE  Channel!TypeOK /\ Channel!TakenInOrder /\ Channel!NeverOverwrites
  OBVIOUS
<1>1. /\ addr_rd \in 0 .. Turns - 1 /\ Held \in 0 .. Size /\ Channel!held = Held
      /\ taken = addr_rd /\ Channel!Tags = Turns /\ Size \in Nat
  BY Filled, ChannelSizes DEF ChannelIInv, Numbers
<1>2. chan_pcm # Channel!Tags => chan_pcm = (taken + Channel!Tags - 1) % Channel!Tags
  BY <1>1, OnCircle DEF ChannelIInv, SampleNext
<1>3. ASSUME NEW k \in 0 .. Channel!held - 1
      PROVE  ram[(addr_rd + k) % Size] = (taken + k) % Channel!Tags
  <2>1. k \in 0 .. Held - 1 /\ k \in 0 .. Size - 1
    BY <1>1
  <2>2. /\ (addr_rd + k) % Size = PlaceOf(Plus(addr_rd, k, Turns))
        /\ (addr_rd + k) % Turns = Plus(addr_rd, k, Turns)
    BY <1>1, <2>1, OnCircle
  <2> QED
    BY <1>1, <2>1, <2>2 DEF ChannelIInv, SamplesHeld
<1>4. Channel!TakenInOrder
  BY <1>2, <1>3 DEF Channel!TakenInOrder
<1>5. Channel!NeverOverwrites
  BY <1>1 DEF ChannelIInv, WriteCounted, Channel!NeverOverwrites
<1> QED
  BY <1>4, <1>5 DEF ChannelIInv, ChannelTypes
-----------------------------------------------------------------------------
(***************************************************************************)
(* The ring of the music.                                                  *)
(***************************************************************************)
\* Bytes in the ring, from the sample that is read to the drive.
Unread == IF addr_rst THEN 0 ELSE Minus(wr_addr, 4 * rd_addr, Ring)

QuarterOf(p) ==
    IF p < Quarter THEN 0 ELSE IF p < 2 * Quarter THEN 1 ELSE IF p < 3 * Quarter THEN 2 ELSE 3

\* Bytes the drive can still write before the period of the sample ends.
Writable ==
    (IF phase < Quarter THEN 4 * Burst
     ELSE IF phase < 2 * Quarter THEN 3 * Burst
     ELSE IF phase < 3 * Quarter THEN 2 * Burst ELSE Burst) - burst

\* The blocks end where samples do.
WholeSamples == (wr_addr + left) % 4 = 0

\* Before the sound starts the drive counts its blocks itself.
BeforeStart ==
    ~play =>
        /\ rd_addr = 0 /\ empty
        /\ (IF addr_rst THEN 0 ELSE wr_addr) + left = ahead * Block

\* What the drive may have ahead of a reader that waits: what it had at the
\* start, or a block.
Allowed == IF ahead = 0 THEN Block ELSE ahead * Block

\* A block that was begun fits.  The reader that waits starts, and the one
\* that reads gets to the next sample, before the block is written.
BlockHasRoom ==
    play =>
        IF empty
        THEN \/ Unread + left <= Allowed
             \/ Unread >= 4 /\ Unread + left <= Allowed + Block /\ left > Writable
        ELSE \/ Unread + left < Ring
             \/ Unread >= 4 /\ Unread + left = Ring /\ left > Writable

\* A sample is read byte by byte from the beginning of its period.
SampleRead ==
    play /\ ~empty /\ phase >= 1 =>
        /\ Unread >= 4
        /\ part = QuarterOf(phase - 1)
        /\ \A k \in 0 .. 3 : phase >= k * Quarter + 2 => latch[k] = ring[4 * rd_addr + k]

MusicIInv ==
    Music!TypeOK /\ WholeSamples /\ BeforeStart /\ BlockHasRoom /\ SampleRead

LEMMA MusicSizes ==
    /\ Ring \in Nat /\ Ring % 4 = 0 /\ Ring > 2 * Block
    /\ Block \in Nat /\ Block % 4 = 0 /\ Block > 4 * Burst /\ Block >= 4
    /\ Burst \in Nat /\ Ahead \in Nat \ {0} /\ Quarter \in Nat /\ Quarter > 2
    /\ Music!Phases = 4 * Quarter /\ Music!Tags = 2 * Ring
    /\ Music!Samples \in Nat \ {0} /\ Ring = 4 * Music!Samples
    /\ \A a \in 0 .. Ahead : a * Block \in Nat /\ a * Block + Block < Ring
    /\ \A a \in Nat : (a + 1) * Block = a * Block + Block
    /\ \A a \in 1 .. Ahead : a * Block >= Block
<1>1. /\ Ring \in Nat /\ Ring % 4 = 0
      /\ Block \in Nat /\ Block % 4 = 0 /\ Block > 4 * Burst
      /\ Burst \in Nat /\ Ahead \in Nat \ {0} /\ Quarter \in Nat /\ Quarter > 2
      /\ (Ahead + 1) * Block < Ring
  BY PartsAssumption DEF Music!RingAssumption
<1>2. Block >= 4 /\ Block > 0
  BY <1>1
<1>3. \A a \in Nat : (a + 1) * Block = a * Block + Block /\ a * Block \in Nat
  BY <1>1
<1>4. ASSUME NEW a \in 0 .. Ahead PROVE a * Block + Block < Ring
  <2>1. (a + 1) * Block <= (Ahead + 1) * Block
    <3>1. PICK rest_of \in Nat : Ahead = a + rest_of
      <4>1. Ahead - a \in Nat /\ Ahead = a + (Ahead - a)
        BY <1>1
      <4> QED
        BY <4>1
    <3>2. (Ahead + 1) * Block = (a + 1) * Block + rest_of * Block
      BY <1>1, <3>1
    <3>3. rest_of * Block \in Nat
      BY <1>3
    <3> QED
      BY <1>1, <3>2, <3>3
  <2>2. (a + 1) * Block = a * Block + Block /\ a * Block \in Nat
    BY <1>3
  <2>3. (Ahead + 1) * Block \in Nat
    BY <1>1
  <2> QED
    BY <1>1, <2>1, <2>2, <2>3
<1>5. ASSUME NEW a \in 1 .. Ahead PROVE a * Block >= Block
  <2>1. PICK b \in Nat : a = b + 1
    <3>1. a - 1 \in Nat /\ a = (a - 1) + 1
      OBVIOUS
    <3> QED
      BY <3>1
  <2> QED
    BY <1>1, <1>3, <2>1
<1>6. Ring > 2 * Block
  <2>1. 1 \in 0 .. Ahead /\ 1 * Block = Block
    BY <1>1
  <2> QED
    BY <1>1, <1>4, <2>1
<1>7. Ring = 4 * Music!Samples /\ Music!Samples \in Nat \ {0}
  BY <1>1, <1>2, <1>6 DEF Music!Samples
<1>8. \A a \in 0 .. Ahead : a * Block \in Nat /\ a * Block + Block < Ring
  BY <1>3, <1>4
<1> QED
  BY <1>1, <1>2, <1>3, <1>5, <1>6, <1>7, <1>8 DEF Music!Phases, Music!Tags

LEMMA OnRing ==
    /\ \A x \in 0 .. 2 * Ring - 1 : x % Ring = IF x < Ring THEN x ELSE x - Ring
    /\ \A x \in 0 .. 2 * Ring - 1 : (x + 1) % (2 * Ring) \in 0 .. 2 * Ring - 1
<1>1. Ring \in Nat /\ Ring > 0
  BY MusicSizes
<1>2. ASSUME NEW x \in 0 .. 2 * Ring - 1 PROVE x % Ring = IF x < Ring THEN x ELSE x - Ring
  <2>1. x \in 0 .. 3 * Ring - 1
    BY <1>1
  <2> QED
    BY <1>1, <2>1, Remainder
<1>3. ASSUME NEW x \in 0 .. 2 * Ring - 1 PROVE (x + 1) % (2 * Ring) \in 0 .. 2 * Ring - 1
  BY <1>1
<1> QED
  BY <1>2, <1>3

LEMMA Quarters ==
    ASSUME NEW p \in 0 .. 4 * Quarter - 1
    PROVE  /\ p \div Quarter = QuarterOf(p)
           /\ p % Quarter = 0 <=> p \in {0, Quarter, 2 * Quarter, 3 * Quarter}
<1>1. PICK q \in Nat : q = Quarter /\ q > 2
  BY MusicSizes
<1>2. ASSUME NEW m \in 0 .. 3, q * m <= p, p < q * m + q
      PROVE  p \div q = m /\ p % q = p - q * m
  BY <1>1, <1>2, SMT
<1>3. CASE p < q
  <2>1. q * 0 = 0
    BY <1>1
  <2> QED
    BY <1>1, <1>2, <1>3, <2>1 DEF QuarterOf
<1>4. CASE q <= p /\ p < 2 * q
  <2>1. q * 1 = q
    BY <1>1
  <2> QED
    BY <1>1, <1>2, <1>4, <2>1 DEF QuarterOf
<1>5. CASE 2 * q <= p /\ p < 3 * q
  <2>1. q * 2 = 2 * q
    BY <1>1
  <2> QED
    BY <1>1, <1>2, <1>5, <2>1 DEF QuarterOf
<1>6. CASE 3 * q <= p
  <2>1. q * 3 = 3 * q
    BY <1>1
  <2> QED
    BY <1>1, <1>2, <1>6, <2>1 DEF QuarterOf
<1> QED
  BY <1>1, <1>3, <1>4, <1>5, <1>6

\* What the addresses are.
LEMMA OnTheRing ==
    ASSUME MusicIInv
    PROVE  /\ wr_addr \in 0 .. Ring - 1 /\ rd_addr \in 0 .. Music!Samples - 1
           /\ 4 * rd_addr \in 0 .. Ring - 4 /\ Ring \in Nat /\ Ring >= 4
           /\ Unread \in 0 .. Ring - 1
           /\ left \in 0 .. Block /\ burst \in 0 .. Burst /\ ahead \in 0 .. Ahead
           /\ phase \in 0 .. 4 * Quarter - 1
           /\ {play, empty, addr_rst} \subseteq BOOLEAN
           /\ play => ~addr_rst
           /\ ~addr_rst => (Ring + wr_addr - 4 * rd_addr) % Ring = Unread
           /\ ~addr_rst => (rd_addr = Music!wr_sample <=> Unread < 4)
           /\ ~addr_rst => (Unread + left) % 4 = 0
           /\ (wr_addr + 1) % Ring = Plus(wr_addr, 1, Ring)
<1>1. /\ wr_addr \in 0 .. Ring - 1 /\ rd_addr \in 0 .. Music!Samples - 1
      /\ left \in 0 .. Block /\ burst \in 0 .. Burst /\ ahead \in 0 .. Ahead
      /\ phase \in 0 .. 4 * Quarter - 1 /\ (play => ~addr_rst)
      /\ {play, empty, addr_rst} \subseteq BOOLEAN
      /\ (wr_addr + left) % 4 = 0
  BY MusicSizes DEF MusicIInv, Music!TypeOK, WholeSamples
<1>2. Ring \in Nat /\ Ring = 4 * Music!Samples /\ Music!Samples \in Nat \ {0} /\ Ring >= 4
      /\ Block \in Nat
  BY MusicSizes
<1>3. 4 * rd_addr \in 0 .. Ring - 4
  BY <1>1, <1>2
<1>4. Unread \in 0 .. Ring - 1
  BY <1>1, <1>2, <1>3 DEF Unread, Minus
<1>5. ~addr_rst => (Ring + wr_addr - 4 * rd_addr) % Ring = Unread
  <2>1. PICK x \in 0 .. 2 * Ring - 1 : x = Ring + wr_addr - 4 * rd_addr
    BY <1>1, <1>2, <1>3
  <2>2. x % Ring = IF x < Ring THEN x ELSE x - Ring
    BY OnRing
  <2> QED
    BY <1>1, <1>2, <1>3, <2>1, <2>2 DEF Unread, Minus
<1>6. ~addr_rst => (rd_addr = Music!wr_sample <=> Unread < 4)
  BY <1>1, <1>2, <1>3 DEF Unread, Minus, Music!wr_sample
<1>7. ~addr_rst => (Unread + left) % 4 = 0
  BY <1>1, <1>2, <1>3 DEF Unread, Minus
<1>8. (wr_addr + 1) % Ring = Plus(wr_addr, 1, Ring)
  <2>1. PICK x \in 0 .. 2 * Ring - 1 : x = wr_addr + 1
    BY <1>1, <1>2
  <2>2. x % Ring = IF x < Ring THEN x ELSE x - Ring
    BY OnRing
  <2> QED
    BY <1>1, <1>2, <2>1, <2>2 DEF Plus
<1> QED
  BY <1>1, <1>2, <1>3, <1>4, <1>5, <1>6, <1>7, <1>8

LEMMA InitMusic == Music!Init => MusicIInv
<1> SUFFICES ASSUME Music!Init PROVE MusicIInv
  OBVIOUS
<1>1. Music!TypeOK
  <2>1. Music!Old \in Music!Byte /\ Ring > 0 /\ Ring \in Nat
    BY MusicSizes DEF Music!Old, Music!Byte
  <2>2. ring \in [0 .. Ring - 1 -> Music!Byte] /\ latch \in [0 .. 3 -> Music!Byte]
    BY <2>1 DEF Music!Init
  <2>3. /\ wr_addr \in 0 .. Ring - 1 /\ rd_addr \in 0 .. Music!Samples - 1 /\ part \in 0 .. 3
        /\ phase \in 0 .. Music!Phases - 1
        /\ left \in 0 .. Block /\ ahead \in 0 .. Ahead
        /\ sent \in 0 .. Music!Tags - 1 /\ burst \in 0 .. Burst
    BY <2>1, MusicSizes DEF Music!Init
  <2>4. empty \in BOOLEAN /\ play \in BOOLEAN /\ addr_rst \in BOOLEAN /\ (play => ~addr_rst)
    BY DEF Music!Init
  <2> QED
    BY <2>2, <2>3, <2>4 DEF Music!TypeOK
<1>2. WholeSamples
  BY DEF Music!Init, WholeSamples
<1>3. BeforeStart
  BY MusicSizes DEF Music!Init, BeforeStart
<1> QED
  BY <1>1, <1>2, <1>3 DEF Music!Init, MusicIInv, BlockHasRoom, SampleRead

\* How much is under way when a byte is written.
LEMMA RoomForByte ==
    ASSUME MusicIInv, left > 0, burst < Burst
    PROVE  Unread + 1 < Ring /\ Writable > 0
<1>1. /\ left \in 0 .. Block /\ burst \in 0 .. Burst /\ ahead \in 0 .. Ahead
      /\ Unread \in 0 .. Ring - 1 /\ {play, empty, addr_rst} \subseteq BOOLEAN
  BY OnTheRing
<1>2. /\ Ring \in Nat /\ Block \in Nat /\ Burst \in Nat /\ Ring > 2 * Block
      /\ ahead * Block \in Nat /\ ahead * Block + Block < Ring
  BY <1>1, MusicSizes
<1>3. Writable \in Nat /\ Writable > 0
  BY <1>1, <1>2 DEF Writable
<1>4. CASE play
  BY <1>1, <1>2, <1>3, <1>4 DEF MusicIInv, BlockHasRoom, Allowed
<1>5. CASE ~play
  <2>1. Unread + left = ahead * Block
    <3>1. rd_addr = 0 /\ (IF addr_rst THEN 0 ELSE wr_addr) + left = ahead * Block
      BY <1>5 DEF MusicIInv, BeforeStart
    <3>2. ~addr_rst => Unread = wr_addr
      BY <3>1, OnTheRing DEF Unread, Minus
    <3> QED
      BY <3>1, <3>2 DEF Unread
  <2>2. PICK b \in Nat : b = ahead * Block /\ b + Block < Ring
    BY <1>2
  <2>3. Unread + left = b
    BY <2>1, <2>2
  <2>4. left >= 1 /\ left \in Nat /\ Unread \in Nat /\ Ring \in Nat /\ Block \in Nat
    BY <1>1, <1>2
  <2> QED
    BY <1>3, <2>2, <2>3, <2>4
<1> QED
  BY <1>3, <1>4, <1>5

\* The drive writes a byte: what is unread grows by one at its end.
LEMMA WriteByte ==
    ASSUME MusicIInv, Music!WritePcm
    PROVE  /\ MusicIInv'
           /\ Unread' = Unread + 1 /\ Unread + 1 < Ring /\ ~addr_rst'
           /\ rd_addr' = rd_addr /\ pcm' = pcm
           /\ \E p \in 0 .. Ring - 1 :
                  /\ p = wr_addr
                  /\ 4 * rd_addr + Unread = (IF 4 * rd_addr + Unread < Ring THEN p ELSE p + Ring)
           /\ ring' = [ring EXCEPT ![wr_addr] = sent]
<1>1. /\ wr_addr \in 0 .. Ring - 1 /\ 4 * rd_addr \in 0 .. Ring - 4
      /\ Ring \in Nat /\ Ring >= 4 /\ Unread \in 0 .. Ring - 1
      /\ left \in 0 .. Block /\ burst \in 0 .. Burst /\ ahead \in 0 .. Ahead
      /\ {play, empty, addr_rst} \subseteq BOOLEAN /\ (play => ~addr_rst)
      /\ (wr_addr + 1) % Ring = Plus(wr_addr, 1, Ring)
  BY OnTheRing
<1>2. /\ left > 0 /\ burst < Burst /\ (addr_rst => wr_addr = 0)
      /\ ring' = [ring EXCEPT ![wr_addr] = sent]
      /\ wr_addr' = Plus(wr_addr, 1, Ring) /\ addr_rst' = FALSE
      /\ left' = left - 1 /\ burst' = burst + 1
      /\ sent' = (sent + 1) % Music!Tags
      /\ UNCHANGED <<phase, latch, pcm, rd_addr, part, empty, play, ahead>>
  BY <1>1 DEF Music!WritePcm, Music!Settled, Music!clockVars
<1>3. Unread + 1 < Ring /\ Writable > 0
  BY <1>2, RoomForByte
<1>4. /\ Ring % 4 = 0 /\ Block \in Nat /\ Burst \in Nat /\ Music!Tags = 2 * Ring
      /\ Quarter \in Nat /\ ahead * Block \in Nat
  BY <1>1, MusicSizes
<1>5. ~play => rd_addr = 0
  BY DEF MusicIInv, BeforeStart
<1>6. Unread' = Unread + 1
  BY <1>1, <1>2, <1>3, <1>5 DEF Unread, Minus, Plus
<1>7. /\ 4 * rd_addr + Unread = (IF 4 * rd_addr + Unread < Ring THEN wr_addr ELSE wr_addr + Ring)
  BY <1>1, <1>2, <1>5 DEF Unread, Minus
<1>8. Music!TypeOK'
  <2>1. /\ ring \in [0 .. Ring - 1 -> Music!Byte] /\ sent \in 0 .. Music!Tags - 1
    BY DEF MusicIInv, Music!TypeOK
  <2>2. sent \in Music!Byte /\ sent' \in 0 .. Music!Tags - 1
    <3>1. sent \in 0 .. 2 * Ring - 1 /\ sent' = (sent + 1) % (2 * Ring)
      BY <1>2, <1>4, <2>1
    <3>2. sent' \in 0 .. 2 * Ring - 1
      BY <3>1, OnRing
    <3> QED
      BY <1>1, <1>4, <3>1, <3>2 DEF Music!Byte
  <2>3. ring' \in [0 .. Ring - 1 -> Music!Byte]
    BY <1>2, <2>1, <2>2
  <2>4. wr_addr' \in 0 .. Ring - 1 /\ left' \in 0 .. Block /\ burst' \in 0 .. Burst
    BY <1>1, <1>2, <1>4 DEF Plus
  <2> QED
    BY <1>2, <2>2, <2>3, <2>4 DEF MusicIInv, Music!TypeOK
<1>9. WholeSamples'
  BY <1>1, <1>2, <1>4 DEF MusicIInv, WholeSamples, Plus
<1>10. BeforeStart'
  <2> SUFFICES ASSUME ~play PROVE wr_addr' + left' = ahead * Block /\ rd_addr = 0 /\ empty
    BY <1>2 DEF BeforeStart
  <2>1. rd_addr = 0 /\ empty /\ (IF addr_rst THEN 0 ELSE wr_addr) + left = ahead * Block
    BY DEF MusicIInv, BeforeStart
  <2>2. wr_addr' = Unread + 1
    BY <1>1, <1>2, <1>6, <2>1 DEF Unread, Minus, Plus
  <2>3. Unread = IF addr_rst THEN 0 ELSE wr_addr
    BY <1>1, <2>1 DEF Unread, Minus
  <2>4. PICK b \in Nat : b = ahead * Block
    BY <1>4
  <2>5. Unread + left = b
    BY <2>1, <2>3, <2>4
  <2>6. wr_addr' + left' = b
    BY <1>1, <1>2, <2>2, <2>5
  <2> QED
    BY <2>1, <2>4, <2>6
<1>11. BlockHasRoom'
  <2> SUFFICES ASSUME play PROVE BlockHasRoom'
    BY <1>2 DEF BlockHasRoom
  <2>1. Writable' = Writable - 1 /\ Writable \in Int
    BY <1>1, <1>2, <1>4 DEF Writable
  <2>2. Unread' + left' = Unread + left
    BY <1>1, <1>2, <1>6
  <2>3. Allowed' = Allowed
    BY <1>2 DEF Allowed
  <2>4. IF empty
        THEN \/ Unread + left <= Allowed
             \/ Unread >= 4 /\ Unread + left <= Allowed + Block /\ left > Writable
        ELSE \/ Unread + left < Ring
             \/ Unread >= 4 /\ Unread + left = Ring /\ left > Writable
    BY DEF MusicIInv, BlockHasRoom
  <2>5. left > Writable => left' > Writable'
    BY <1>1, <1>2, <2>1
  <2>6. Unread >= 4 => Unread' >= 4
    BY <1>1, <1>6
  <2> QED
    BY <1>2, <2>2, <2>3, <2>4, <2>5, <2>6 DEF BlockHasRoom
<1>12. SampleRead'
  <2> SUFFICES ASSUME play, ~empty, phase >= 1 PROVE SampleRead'
    BY <1>2 DEF SampleRead
  <2>1. /\ Unread >= 4 /\ part = QuarterOf(phase - 1)
        /\ \A k \in 0 .. 3 : phase >= k * Quarter + 2 => latch[k] = ring[4 * rd_addr + k]
    BY DEF MusicIInv, SampleRead
  <2>2. \A k \in 0 .. 3 : 4 * rd_addr + k # wr_addr /\ 4 * rd_addr + k \in 0 .. Ring - 1
    BY <1>1, <1>7, <2>1
  <2>3. \A k \in 0 .. 3 : ring'[4 * rd_addr + k] = ring[4 * rd_addr + k]
    BY <1>2, <2>2 DEF MusicIInv, Music!TypeOK
  <2>4. Unread' >= 4
    BY <1>1, <1>6, <2>1
  <2>5. \A k \in 0 .. 3 : phase' >= k * Quarter + 2 => latch'[k] = ring'[4 * rd_addr' + k]
    BY <1>2, <2>1, <2>3
  <2> QED
    BY <1>2, <2>1, <2>4, <2>5 DEF SampleRead, QuarterOf
<1> QED
  BY <1>1, <1>2, <1>3, <1>6, <1>7, <1>8, <1>9, <1>10, <1>11, <1>12 DEF MusicIInv

\* A block is begun, of its own accord before the start, or because there is room.
LEMMA BeginBlock ==
    ASSUME MusicIInv, Music!BlockAhead \/ Music!NextBlock
    PROVE  /\ MusicIInv'
           /\ UNCHANGED <<ring, wr_addr, rd_addr, addr_rst, pcm>>
<1>1. /\ wr_addr \in 0 .. Ring - 1 /\ 4 * rd_addr \in 0 .. Ring - 4 /\ rd_addr \in Nat
      /\ Ring \in Nat /\ Ring >= 4 /\ Unread \in 0 .. Ring - 1
      /\ left \in 0 .. Block /\ burst \in 0 .. Burst /\ ahead \in 0 .. Ahead
      /\ {play, empty, addr_rst} \subseteq BOOLEAN /\ (play => ~addr_rst)
      /\ ~addr_rst => (Unread + left) % 4 = 0
  BY OnTheRing
<1>2. /\ left = 0 /\ left' = Block
      /\ UNCHANGED <<ring, wr_addr, rd_addr, part, empty, phase, latch, pcm, play, addr_rst,
                     sent, burst>>
      /\ \/ ~play /\ ahead < Ahead /\ ahead' = ahead + 1
         \/ play /\ Music!can_wr /\ ahead' = ahead
  BY DEF Music!BlockAhead, Music!NextBlock, Music!clockVars
<1>3. /\ Ring % 4 = 0 /\ Block \in Nat /\ Block % 4 = 0 /\ Block > 4 * Burst /\ Burst \in Nat
      /\ Block >= 4 /\ Quarter \in Nat /\ Ahead \in Nat /\ Ring > 2 * Block
  BY MusicSizes
<1>4. Unread' = Unread
  BY <1>2 DEF Unread
<1>5. Writable \in Nat /\ Writable < Block /\ Writable' = Writable
  BY <1>1, <1>2, <1>3 DEF Writable
<1>6. Music!TypeOK'
  BY <1>1, <1>2, <1>3 DEF MusicIInv, Music!TypeOK
<1>7. WholeSamples'
  BY <1>1, <1>2, <1>3 DEF MusicIInv, WholeSamples
<1>8. BeforeStart'
  <2> SUFFICES ASSUME ~play PROVE BeforeStart'
    BY <1>2 DEF BeforeStart
  <2>1. rd_addr = 0 /\ empty /\ (IF addr_rst THEN 0 ELSE wr_addr) + left = ahead * Block
    BY DEF MusicIInv, BeforeStart
  <2>2. (ahead + 1) * Block = ahead * Block + Block
    BY <1>1, MusicSizes
  <2>3. (IF addr_rst THEN 0 ELSE wr_addr) = ahead * Block
    BY <1>1, <1>2, <2>1
  <2> QED
    BY <1>2, <2>1, <2>2, <2>3 DEF BeforeStart
<1>9. BlockHasRoom'
  <2> SUFFICES ASSUME play PROVE BlockHasRoom'
    BY <1>2 DEF BlockHasRoom
  <2>1. Allowed' = Allowed /\ Allowed \in Nat /\ Allowed >= Block
    BY <1>1, <1>2, <1>3, MusicSizes DEF Allowed
  <2>2. CASE empty
    <3>1. Unread <= Allowed
      BY <1>1, <1>2, <1>5, <2>2 DEF MusicIInv, BlockHasRoom
    <3>2. Unread >= 4 \/ Unread = 0
      BY <1>1, <1>2
    <3> QED
      BY <1>1, <1>2, <1>3, <1>4, <1>5, <2>1, <2>2, <3>1, <3>2 DEF BlockHasRoom
  <2>3. CASE ~empty
    <3>1. Music!pcm_delta > Block
      BY <1>2, <2>3 DEF Music!can_wr
    <3>2. part \in 0 .. 3
      BY DEF MusicIInv, Music!TypeOK
    <3>3. Unread = 0 \/ Unread >= 4
      BY <1>1, <1>2
    <3>4. CASE Unread >= 4
      <4>1. Music!pcm_delta = Ring - Unread + part
        <5>1. PICK x \in 0 .. 2 * Ring - 1 : x = 4 * rd_addr + part + Ring - wr_addr
          BY <1>1, <3>2
        <5>2. x % Ring = IF x < Ring THEN x ELSE x - Ring
          BY OnRing
        <5>3. Unread = Minus(wr_addr, 4 * rd_addr, Ring)
          BY <1>1 DEF Unread
        <5> QED
          BY <1>1, <3>2, <3>4, <5>1, <5>2, <5>3 DEF Music!pcm_delta, Minus
      <4>2. Unread + Block <= Ring
        BY <1>1, <1>2, <1>3, <3>1, <3>2, <4>1
      <4> QED
        BY <1>1, <1>2, <1>3, <1>4, <1>5, <2>3, <3>4, <4>2 DEF BlockHasRoom
    <3>5. CASE Unread = 0
      BY <1>1, <1>2, <1>3, <1>4, <2>3, <3>5 DEF BlockHasRoom
    <3> QED
      BY <3>3, <3>4, <3>5
  <2> QED
    BY <1>1, <2>2, <2>3
<1>10. SampleRead'
  BY <1>2, <1>4 DEF MusicIInv, SampleRead, QuarterOf
<1> QED
  BY <1>2, <1>6, <1>7, <1>8, <1>9, <1>10 DEF MusicIInv

LEMMA StartSound ==
    ASSUME MusicIInv, Music!Start
    PROVE  /\ MusicIInv'
           /\ Unread' = Unread
           /\ addr_rst => wr_addr = 0 /\ rd_addr = 0
           /\ UNCHANGED <<ring, wr_addr, rd_addr, pcm>>
<1>1. /\ wr_addr \in 0 .. Ring - 1 /\ Ring \in Nat /\ Ring >= 4
      /\ left \in 0 .. Block /\ ahead \in 0 .. Ahead
      /\ {play, empty, addr_rst} \subseteq BOOLEAN
  BY OnTheRing
<1>2. /\ left = 0 /\ ~play /\ (addr_rst => wr_addr = 0) /\ play' = TRUE /\ addr_rst' = FALSE
      /\ UNCHANGED <<ring, wr_addr, rd_addr, part, empty, phase, latch, pcm, left, ahead, sent,
                     burst>>
  BY DEF Music!Start, Music!Settled, Music!clockVars, Music!driveVars
<1>3. rd_addr = 0 /\ empty /\ (IF addr_rst THEN 0 ELSE wr_addr) + left = ahead * Block
  BY <1>2 DEF MusicIInv, BeforeStart
<1>4. Unread = wr_addr /\ Unread' = wr_addr
  BY <1>1, <1>2, <1>3 DEF Unread, Minus
<1>5. Unread = ahead * Block
  BY <1>1, <1>2, <1>3, <1>4
<1>6. Unread + 0 <= Allowed
  BY <1>1, <1>4, <1>5, MusicSizes DEF Allowed
<1>7. Music!TypeOK' /\ WholeSamples' /\ BeforeStart' /\ SampleRead'
  BY <1>2, <1>3 DEF MusicIInv, Music!TypeOK, WholeSamples, BeforeStart, SampleRead
<1>8. BlockHasRoom'
  BY <1>2, <1>3, <1>4, <1>6 DEF BlockHasRoom, Allowed
<1> QED
  BY <1>2, <1>3, <1>4, <1>7, <1>8 DEF MusicIInv

LEMMA StopSound ==
    ASSUME MusicIInv, Music!Stop \/ Music!AddrReset
    PROVE  /\ MusicIInv'
           /\ addr_rst' /\ pcm' = pcm
           /\ Music!AddrReset => addr_rst
<1>1. Ring \in Nat /\ Ring > 0 /\ Block \in Nat /\ Ahead \in Nat /\ 0 * Block = 0
      /\ Music!Samples \in Nat \ {0} /\ Music!Tags = 2 * Ring /\ Block % 4 = 0
  BY MusicSizes
<1>2. CASE Music!Stop
  <2>1. /\ left = 0 /\ play /\ play' = FALSE /\ addr_rst' = TRUE
        /\ rd_addr' = 0 /\ part' = 0 /\ empty' = TRUE
        /\ ring' = [a \in 0 .. Ring - 1 |-> Music!Old] /\ latch' = [k \in 0 .. 3 |-> Music!Old]
        /\ sent' = 0 /\ ahead' = 0
        /\ UNCHANGED <<wr_addr, phase, pcm, left, burst>>
    BY <1>2 DEF Music!Stop, Music!Forget
  <2>2. Music!TypeOK'
    <3>1. Music!Old \in Music!Byte
      BY <1>1 DEF Music!Old, Music!Byte
    <3>2. ring' \in [0 .. Ring - 1 -> Music!Byte] /\ latch' \in [0 .. 3 -> Music!Byte]
      BY <2>1, <3>1
    <3>3. /\ rd_addr' \in 0 .. Music!Samples - 1 /\ part' \in 0 .. 3 /\ ahead' \in 0 .. Ahead
          /\ sent' \in 0 .. Music!Tags - 1
      BY <1>1, <2>1
    <3> QED
      BY <2>1, <3>2, <3>3 DEF MusicIInv, Music!TypeOK
  <2>3. WholeSamples' /\ BeforeStart' /\ BlockHasRoom' /\ SampleRead'
    BY <1>1, <2>1 DEF MusicIInv, WholeSamples, BeforeStart, BlockHasRoom, SampleRead
  <2>4. ~Music!AddrReset
    BY <2>1 DEF MusicIInv, Music!TypeOK, Music!AddrReset
  <2> QED
    BY <2>1, <2>2, <2>3, <2>4 DEF MusicIInv
<1>3. CASE Music!AddrReset
  <2>1. /\ addr_rst /\ wr_addr' = 0
        /\ UNCHANGED <<ring, rd_addr, part, empty, phase, latch, pcm, play, addr_rst, left,
                       ahead, sent, burst>>
    BY <1>3 DEF Music!AddrReset, Music!clockVars, Music!driveVars
  <2>2. ~play
    BY <2>1 DEF MusicIInv, Music!TypeOK
  <2>3. left = ahead * Block /\ left \in 0 .. Block
    BY <2>1, <2>2, OnTheRing DEF MusicIInv, BeforeStart
  <2>4. WholeSamples'
    <3>1. left = 0 \/ left = Block
      <4>1. ahead = 0 \/ ahead \in 1 .. Ahead
        BY <1>1, OnTheRing
      <4>2. ahead \in 1 .. Ahead => ahead * Block >= Block
        BY MusicSizes
      <4> QED
        BY <1>1, <2>3, <4>1, <4>2
    <3> QED
      BY <1>1, <2>1, <3>1 DEF WholeSamples
  <2>5. Music!TypeOK'
    BY <1>1, <2>1 DEF MusicIInv, Music!TypeOK
  <2>6. BeforeStart' /\ BlockHasRoom' /\ SampleRead'
    BY <2>1, <2>2 DEF MusicIInv, BeforeStart, BlockHasRoom, SampleRead
  <2> QED
    BY <2>1, <2>4, <2>5, <2>6 DEF MusicIInv
<1> QED
  BY <1>2, <1>3

\* What every clock of the sound does: the time that is left gets less.
LEMMA ClockRuns ==
    ASSUME MusicIInv, Music!Clock
    PROVE  /\ phase \in 0 .. 4 * Quarter - 1 /\ phase' \in 0 .. 4 * Quarter - 1
           /\ phase' = IF phase = 4 * Quarter - 1 THEN 0 ELSE phase + 1
           /\ burst' \in 0 .. Burst
           /\ phase # 4 * Quarter - 1 => Writable' <= Writable
           /\ Writable \in Nat /\ Writable' \in Nat
           /\ UNCHANGED <<ring, wr_addr, play, addr_rst, left, ahead, sent>>
<1>1. /\ phase \in 0 .. 4 * Quarter - 1 /\ burst \in 0 .. Burst
  BY OnTheRing
<1>2. /\ Quarter \in Nat /\ Quarter > 2 /\ Burst \in Nat /\ Music!Phases = 4 * Quarter
  BY MusicSizes
<1>3. /\ phase' = (phase + 1) % Music!Phases
      /\ burst' = IF phase' % Quarter = 0 THEN 0 ELSE burst
      /\ UNCHANGED <<ring, wr_addr, play, addr_rst, left, ahead, sent>>
  BY DEF Music!Clock
<1>4. phase' = IF phase = 4 * Quarter - 1 THEN 0 ELSE phase + 1
  <2>1. PICK n \in Nat : n = 4 * Quarter /\ n > 0
    BY <1>2
  <2>2. phase + 1 \in 0 .. 3 * n - 1
    BY <1>1, <2>1
  <2>3. phase' = (phase + 1) % n
    BY <1>2, <1>3, <2>1
  <2> QED
    BY <1>1, <2>1, <2>2, <2>3, Remainder
<1>5. phase' \in 0 .. 4 * Quarter - 1
  BY <1>1, <1>2, <1>4
<1>6. phase' % Quarter = 0 <=> phase' \in {0, Quarter, 2 * Quarter, 3 * Quarter}
  BY <1>5, Quarters
<1>7. burst' = IF phase' \in {0, Quarter, 2 * Quarter, 3 * Quarter} THEN 0 ELSE burst
  BY <1>3, <1>6
<1>8. burst' \in 0 .. Burst
  BY <1>1, <1>2, <1>7
<1>9. Writable \in Nat
  BY <1>1, <1>2 DEF Writable
<1>10. Writable' \in Nat
  <2>1. PICK p \in 0 .. 4 * Quarter - 1, b \in 0 .. Burst : p = phase' /\ b = burst'
    BY <1>5, <1>8
  <2>2. Writable' = (IF p < Quarter THEN 4 * Burst
                     ELSE IF p < 2 * Quarter THEN 3 * Burst
                     ELSE IF p < 3 * Quarter THEN 2 * Burst ELSE Burst) - b
    BY <2>1 DEF Writable
  <2> QED
    BY <1>2, <2>2
<1>11. ASSUME phase # 4 * Quarter - 1 PROVE Writable' <= Writable
  <2>1. phase' = phase + 1
    BY <1>4, <1>11
  <2>2. CASE phase' = Quarter
    BY <1>1, <1>2, <1>7, <2>1, <2>2 DEF Writable
  <2>3. CASE phase' = 2 * Quarter
    BY <1>1, <1>2, <1>7, <2>1, <2>3 DEF Writable
  <2>4. CASE phase' = 3 * Quarter
    BY <1>1, <1>2, <1>7, <2>1, <2>4 DEF Writable
  <2>5. CASE phase' \notin {Quarter, 2 * Quarter, 3 * Quarter}
    <3>1. phase' # 0 /\ burst' = burst
      BY <1>1, <1>7, <2>1, <2>5
    <3> QED
      BY <1>1, <1>2, <2>1, <2>5, <3>1 DEF Writable
  <2> QED
    BY <2>2, <2>3, <2>4, <2>5
<1> QED
  BY <1>1, <1>3, <1>4, <1>5, <1>8, <1>9, <1>10, <1>11

\* Without sound, at the drive's place, or before the first period.
LEMMA ClockWaits ==
    ASSUME MusicIInv, Music!ClockSilent \/ Music!ClockEmpty \/ Music!ClockFilled
    PROVE  /\ MusicIInv'
           /\ UNCHANGED <<ring, wr_addr, rd_addr, addr_rst, pcm>>
<1>1. /\ Music!Clock
      /\ UNCHANGED <<latch, pcm, rd_addr, part>>
      /\ \/ ~play /\ empty' = empty
         \/ play /\ rd_addr = Music!wr_sample /\ empty'
         \/ play /\ empty /\ phase = 4 * Quarter - 1 /\ ~empty'
  BY MusicSizes DEF Music!ClockSilent, Music!ClockEmpty, Music!ClockFilled, Music!next_sample
<1>2. /\ phase' \in 0 .. 4 * Quarter - 1
      /\ phase' = IF phase = 4 * Quarter - 1 THEN 0 ELSE phase + 1
      /\ burst' \in 0 .. Burst
      /\ UNCHANGED <<ring, wr_addr, play, addr_rst, left, ahead, sent>>
  BY <1>1, ClockRuns
<1>3. /\ Ring \in Nat /\ Unread \in 0 .. Ring - 1 /\ left \in 0 .. Block /\ ahead \in 0 .. Ahead
      /\ {play, empty, addr_rst} \subseteq BOOLEAN /\ (play => ~addr_rst)
      /\ ~addr_rst => (rd_addr = Music!wr_sample <=> Unread < 4)
      /\ ~addr_rst => (Unread + left) % 4 = 0
  BY OnTheRing
<1>4. Unread' = Unread /\ Allowed' = Allowed
  BY <1>1, <1>2 DEF Unread, Allowed
<1>5. empty' \in BOOLEAN
  BY <1>1, <1>3 DEF Music!ClockSilent, Music!ClockEmpty, Music!ClockFilled
<1>6. Music!TypeOK' /\ WholeSamples' /\ BeforeStart'
  <2>1. Music!TypeOK'
    BY <1>1, <1>2, <1>5, MusicSizes DEF MusicIInv, Music!TypeOK
  <2>2. WholeSamples'
    BY <1>2 DEF MusicIInv, WholeSamples
  <2>3. BeforeStart'
    <3> SUFFICES ASSUME ~play PROVE BeforeStart'
      BY <1>2 DEF BeforeStart
    <3>1. rd_addr = 0 /\ empty /\ (IF addr_rst THEN 0 ELSE wr_addr) + left = ahead * Block
      BY DEF MusicIInv, BeforeStart
    <3>2. rd_addr' = rd_addr /\ (empty' <=> empty)
      BY <1>1
    <3> QED
      BY <1>2, <3>1, <3>2 DEF BeforeStart
  <2> QED
    BY <2>1, <2>2, <2>3
<1>7. SampleRead'
  BY <1>1, <1>2 DEF SampleRead
<1>8. BlockHasRoom'
  <2>1. CASE ~play
    BY <1>2, <2>1 DEF BlockHasRoom
  <2>2. CASE play /\ empty'
    <3>1. Unread < 4
      BY <1>1, <1>3, <2>2
    <3>2. Block \in Nat /\ Block % 4 = 0
      BY MusicSizes
    <3>3. Unread + left <= Block
      BY <1>3, <2>2, <3>1, <3>2
    <3>4. Allowed \in Nat /\ Allowed >= Block
      BY <1>3, MusicSizes DEF Allowed
    <3> QED
      BY <1>2, <1>3, <1>4, <2>2, <3>2, <3>3, <3>4 DEF BlockHasRoom
  <2>3. CASE play /\ ~empty'
    <3>1. empty /\ Unread + left <= Allowed + Block
      <4>1. empty
        BY <1>1, <2>3
      <4>2. Block \in Nat /\ Allowed \in Nat
        BY <1>3, MusicSizes DEF Allowed
      <4> QED
        BY <1>3, <2>3, <4>1, <4>2 DEF MusicIInv, BlockHasRoom
    <3>2. Allowed + Block < Ring /\ Allowed + Block \in Nat
      <4>1. ahead * Block \in Nat /\ ahead * Block + Block < Ring
        BY <1>3, MusicSizes
      <4>2. Block \in Nat /\ Ring > 2 * Block
        BY MusicSizes
      <4> QED
        BY <1>3, <4>1, <4>2 DEF Allowed
    <3>3. Unread + left < Ring
      BY <1>3, <3>1, <3>2, MusicSizes
    <3> QED
      BY <1>2, <1>4, <2>3, <3>3 DEF BlockHasRoom
  <2> QED
    BY <1>3, <1>5, <2>1, <2>2, <2>3
<1> QED
  BY <1>1, <1>2, <1>6, <1>7, <1>8 DEF MusicIInv

\* A byte is read; in the last clock of the period the sample is handed over.
LEMMA ClockReads ==
    ASSUME MusicIInv, Music!ClockRead
    PROVE  /\ MusicIInv'
           /\ ~addr_rst /\ UNCHANGED <<ring, wr_addr, addr_rst>>
           /\ \/ UNCHANGED <<rd_addr, pcm>>
              \/ /\ Unread >= 4 /\ Unread' = Unread - 4
                 /\ 4 * rd_addr' = IF 4 * rd_addr + 4 = Ring THEN 0 ELSE 4 * rd_addr + 4
                 /\ pcm' = <<ring[4 * rd_addr], ring[4 * rd_addr + 1],
                             ring[4 * rd_addr + 2], ring[4 * rd_addr + 3]>>
<1> DEFINE last_phase == phase = 4 * Quarter - 1
<1>1. /\ Music!Clock /\ play /\ rd_addr # Music!wr_sample /\ empty' = empty
      /\ last_phase => ~empty
      /\ part' = IF phase % Quarter = 0 THEN phase \div Quarter ELSE part
      /\ latch' = [latch EXCEPT ![part] = ring[4 * rd_addr + part]]
      /\ IF last_phase THEN /\ pcm' = <<latch[0], latch[1], latch[2], latch[3]>>
                            /\ rd_addr' = (rd_addr + 1) % Music!Samples
         ELSE UNCHANGED <<pcm, rd_addr>>
  BY MusicSizes DEF Music!ClockRead, Music!next_sample
<1>2. /\ phase \in 0 .. 4 * Quarter - 1 /\ phase' \in 0 .. 4 * Quarter - 1
      /\ phase' = IF last_phase THEN 0 ELSE phase + 1
      /\ burst' \in 0 .. Burst
      /\ ~last_phase => Writable' <= Writable
      /\ Writable \in Nat /\ Writable' \in Nat
      /\ UNCHANGED <<ring, wr_addr, play, addr_rst, left, ahead, sent>>
  BY <1>1, ClockRuns
<1>3. /\ Ring \in Nat /\ Ring >= 4 /\ Unread \in 0 .. Ring - 1 /\ left \in 0 .. Block
      /\ wr_addr \in 0 .. Ring - 1 /\ rd_addr \in 0 .. Music!Samples - 1
      /\ 4 * rd_addr \in 0 .. Ring - 4
      /\ {play, empty, addr_rst} \subseteq BOOLEAN /\ ~addr_rst
      /\ Unread >= 4
  BY <1>1, OnTheRing
<1>4. /\ Quarter \in Nat /\ Quarter > 2 /\ Ring = 4 * Music!Samples /\ Music!Samples \in Nat \ {0}
      /\ Block \in Nat /\ Music!Phases = 4 * Quarter
  BY MusicSizes
<1>5. /\ part \in 0 .. 3 /\ latch \in [0 .. 3 -> Music!Byte]
      /\ ring \in [0 .. Ring - 1 -> Music!Byte]
  BY DEF MusicIInv, Music!TypeOK
<1>6. ~empty /\ phase >= 1 =>
        /\ part = QuarterOf(phase - 1)
        /\ \A k \in 0 .. 3 : phase >= k * Quarter + 2 => latch[k] = ring[4 * rd_addr + k]
  BY <1>1 DEF MusicIInv, SampleRead
<1>7. rd_addr' \in 0 .. Music!Samples - 1
      /\ (last_phase => 4 * rd_addr' = IF 4 * rd_addr + 4 = Ring THEN 0 ELSE 4 * rd_addr + 4)
  <2>1. PICK n \in Nat : n = Music!Samples /\ n > 0
    BY <1>4
  <2>2. (rd_addr + 1) % n = IF rd_addr + 1 = n THEN 0 ELSE rd_addr + 1
    <3>1. rd_addr + 1 \in 0 .. 3 * n - 1 /\ rd_addr + 1 <= n
      BY <1>3, <2>1
    <3> QED
      BY <1>3, <2>1, <3>1, Remainder
  <2>3. CASE last_phase
    BY <1>1, <1>3, <1>4, <2>1, <2>2, <2>3
  <2>4. CASE ~last_phase
    BY <1>1, <1>3, <2>4
  <2> QED
    BY <2>3, <2>4
<1>8. last_phase => Unread' = Unread - 4
  <2> SUFFICES ASSUME last_phase PROVE Unread' = Unread - 4
    OBVIOUS
  <2>1. Unread = Minus(wr_addr, 4 * rd_addr, Ring)
    BY <1>3 DEF Unread
  <2>2. Unread' = Minus(wr_addr, 4 * rd_addr', Ring)
    BY <1>2, <1>3 DEF Unread
  <2>3. PICK a \in 0 .. Ring - 4 : a = 4 * rd_addr
    BY <1>3
  <2>4. PICK b \in Nat : b = 4 * rd_addr' /\ b = IF a + 4 = Ring THEN 0 ELSE a + 4
    <3>1. (IF a + 4 = Ring THEN 0 ELSE a + 4) \in Nat
      BY <2>3
    <3>2. 4 * rd_addr' = IF a + 4 = Ring THEN 0 ELSE a + 4
      BY <1>7, <2>3
    <3> QED
      BY <3>1, <3>2
  <2> QED
    BY <1>3, <2>1, <2>2, <2>3, <2>4 DEF Minus
<1>9. ~last_phase => Unread' = Unread
  BY <1>1, <1>2 DEF Unread
<1>10. last_phase => pcm' = <<ring[4 * rd_addr], ring[4 * rd_addr + 1],
                              ring[4 * rd_addr + 2], ring[4 * rd_addr + 3]>>
  <2> SUFFICES ASSUME last_phase
               PROVE  \A k \in 0 .. 3 : latch[k] = ring[4 * rd_addr + k]
    <3>1. 4 * rd_addr + 0 = 4 * rd_addr
      BY <1>3
    <3> QED
      BY <1>1, <3>1
  <2> SUFFICES ASSUME NEW k \in 0 .. 3 PROVE phase >= k * Quarter + 2 /\ phase >= 1
    BY <1>1, <1>6
  <2>1. k = 0 \/ k = 1 \/ k = 2 \/ k = 3
    OBVIOUS
  <2> QED
    BY <1>4, <2>1
<1>11. part' = QuarterOf(phase) \/ empty
  <2> SUFFICES ASSUME ~empty PROVE part' = QuarterOf(phase)
    BY <1>3
  <2>1. /\ phase \div Quarter = QuarterOf(phase)
        /\ phase % Quarter = 0 <=> phase \in {0, Quarter, 2 * Quarter, 3 * Quarter}
    BY <1>2, Quarters
  <2>2. CASE phase % Quarter = 0
    BY <1>1, <2>1, <2>2
  <2>3. CASE phase % Quarter # 0
    <3>1. phase \notin {0, Quarter, 2 * Quarter, 3 * Quarter} /\ phase >= 1
      BY <1>2, <2>1, <2>3
    <3>2. QuarterOf(phase) = QuarterOf(phase - 1)
      BY <1>2, <1>4, <3>1 DEF QuarterOf
    <3>3. part = QuarterOf(phase - 1)
      BY <1>6, <3>1
    <3> QED
      BY <1>1, <2>3, <3>2, <3>3
  <2> QED
    BY <2>2, <2>3
<1>12. part' \in 0 .. 3 /\ latch' \in [0 .. 3 -> Music!Byte]
  <2>1. phase \div Quarter \in 0 .. 3
    BY <1>2, Quarters DEF QuarterOf
  <2>2. ring[4 * rd_addr + part] \in Music!Byte
    BY <1>3, <1>5
  <2> QED
    BY <1>1, <1>5, <2>1, <2>2
<1>13. Music!TypeOK'
  BY <1>1, <1>2, <1>4, <1>7, <1>12 DEF MusicIInv, Music!TypeOK
<1>14. WholeSamples' /\ BeforeStart'
  BY <1>1, <1>2 DEF MusicIInv, WholeSamples, BeforeStart
<1>15. BlockHasRoom'
  <2>1. CASE empty
    <3>1. ~last_phase
      BY <1>1, <2>1
    <3>2. \/ Unread + left <= Allowed
          \/ Unread >= 4 /\ Unread + left <= Allowed + Block /\ left > Writable
      BY <1>1, <2>1 DEF MusicIInv, BlockHasRoom
    <3>3. Allowed' = Allowed /\ left' = left /\ Unread' = Unread /\ empty'
      BY <1>1, <1>2, <1>9, <2>1, <3>1 DEF Allowed
    <3>4. left > Writable => left' > Writable'
      BY <1>2, <1>3, <1>4, <3>1
    <3> QED
      BY <3>2, <3>3, <3>4 DEF BlockHasRoom
  <2>2. CASE ~empty
    <3>1. \/ Unread + left < Ring
          \/ Unread >= 4 /\ Unread + left = Ring /\ left > Writable
      BY <1>1, <2>2 DEF MusicIInv, BlockHasRoom
    <3>2. CASE last_phase
      BY <1>1, <1>2, <1>3, <1>4, <1>8, <2>2, <3>1, <3>2 DEF BlockHasRoom
    <3>3. CASE ~last_phase
      BY <1>1, <1>2, <1>3, <1>4, <1>9, <2>2, <3>1, <3>3 DEF BlockHasRoom
    <3> QED
      BY <3>2, <3>3
  <2> QED
    BY <1>3, <2>1, <2>2
<1>16. SampleRead'
  <2> SUFFICES ASSUME ~empty, ~last_phase PROVE SampleRead'
    BY <1>1, <1>2 DEF SampleRead
  <2>1. phase' = phase + 1 /\ phase' - 1 = phase /\ rd_addr' = rd_addr /\ Unread' >= 4
    BY <1>1, <1>2, <1>3, <1>9
  <2>2. part' = QuarterOf(phase)
    BY <1>11
  <2>3. ASSUME NEW k \in 0 .. 3, phase' >= k * Quarter + 2
        PROVE  latch'[k] = ring[4 * rd_addr + k]
    <3>1. CASE part = k
      BY <1>1, <1>5, <3>1
    <3>2. CASE part # k
      <4>1. phase >= 1 /\ part = QuarterOf(phase - 1)
        BY <1>4, <1>6, <2>1, <2>3
      <4>2. phase >= k * Quarter + 2
        <5>1. k = 0 \/ k = 1 \/ k = 2 \/ k = 3
          OBVIOUS
        <5>2. phase - 1 # k * Quarter
          BY <1>2, <1>4, <3>2, <4>1, <5>1 DEF QuarterOf
        <5> QED
          BY <1>2, <1>4, <2>1, <2>3, <5>1, <5>2
      <4> QED
        BY <1>1, <1>5, <1>6, <3>2, <4>1, <4>2
    <3> QED
      BY <3>1, <3>2
  <2>4. QuarterOf(phase' - 1) = QuarterOf(phase)
    BY <2>1
  <2>5. part' = QuarterOf(phase' - 1)
    BY <2>2, <2>4
  <2> QED
    BY <1>2, <2>1, <2>3, <2>5 DEF SampleRead, QuarterOf
<1>17. MusicIInv'
  BY <1>13, <1>14, <1>15, <1>16 DEF MusicIInv
<1>18. CASE last_phase
  BY <1>2, <1>3, <1>7, <1>8, <1>10, <1>17, <1>18
<1>19. CASE ~last_phase
  BY <1>1, <1>2, <1>3, <1>17, <1>19
<1> QED
  BY <1>18, <1>19

LEMMA NextMusic == MusicIInv /\ [Music!Next]_musicVars => MusicIInv'
<1> SUFFICES ASSUME MusicIInv, [Music!Next]_musicVars PROVE MusicIInv'
  OBVIOUS
<1>1. CASE UNCHANGED musicVars
  <2>1. Unread' = Unread /\ Allowed' = Allowed /\ Writable' = Writable
    BY <1>1 DEF musicVars, Unread, Allowed, Writable
  <2>2. Music!TypeOK' /\ WholeSamples' /\ BeforeStart'
    BY <1>1 DEF MusicIInv, musicVars, Music!TypeOK, WholeSamples, BeforeStart
  <2>3. BlockHasRoom'
    BY <1>1, <2>1 DEF MusicIInv, musicVars, BlockHasRoom
  <2>4. SampleRead'
    BY <1>1, <2>1 DEF MusicIInv, musicVars, SampleRead, QuarterOf
  <2> QED
    BY <2>2, <2>3, <2>4 DEF MusicIInv
<1>2. CASE Music!Next
  BY <1>2, ClockWaits, ClockReads, WriteByte, BeginBlock, StartSound, StopSound
     DEF Music!Next, Music!Sound, Music!Drive
<1> QED
  BY <1>1, <1>2

\* A distance in the ring, as a place in it.
InRing(a) == IF a < Ring THEN a ELSE a - Ring

\* What is unread is a sequence of bytes.
UnreadIsBytes ==
    /\ Music!unread = [k \in 1 .. Unread |-> ring[InRing(4 * rd_addr + k - 1)]]
    /\ Music!unread \in Seq(Music!Byte) /\ Len(Music!unread) = Unread

LEMMA UnreadBytes == MusicIInv => UnreadIsBytes
<1> SUFFICES ASSUME MusicIInv PROVE UnreadIsBytes
  OBVIOUS
<1>1. /\ 4 * rd_addr \in 0 .. Ring - 4 /\ Ring \in Nat /\ Unread \in 0 .. Ring - 1
      /\ addr_rst \in BOOLEAN
      /\ ~addr_rst => (Ring + wr_addr - 4 * rd_addr) % Ring = Unread
  BY OnTheRing
<1>2. ASSUME NEW k \in 1 .. Unread
      PROVE  /\ (4 * rd_addr + k - 1) % Ring = InRing(4 * rd_addr + k - 1)
             /\ ring[InRing(4 * rd_addr + k - 1)] \in Music!Byte
  <2>1. PICK x \in 0 .. 2 * Ring - 1 : x = 4 * rd_addr + k - 1
    BY <1>1
  <2>2. x % Ring = InRing(x) /\ InRing(x) \in 0 .. Ring - 1
    BY <1>1, OnRing DEF InRing
  <2>3. ring \in [0 .. Ring - 1 -> Music!Byte]
    BY DEF MusicIInv, Music!TypeOK
  <2> QED
    BY <2>1, <2>2, <2>3
<1>3. Music!unread = [k \in 1 .. Unread |-> ring[InRing(4 * rd_addr + k - 1)]]
  <2>1. CASE addr_rst
    <3>1. Unread = 0 /\ Music!unread = << >> /\ 1 .. 0 = {}
      BY <2>1 DEF Unread, Music!unread
    <3> QED
      BY <3>1
  <2>2. CASE ~addr_rst
    BY <1>1, <1>2, <2>2 DEF Music!unread
  <2> QED
    BY <1>1, <2>1, <2>2
<1>4. Music!unread \in Seq(Music!Byte) /\ Len(Music!unread) = Unread
  BY <1>1, <1>2, <1>3
<1> QED
  BY <1>3, <1>4 DEF UnreadIsBytes

LEMMA UnreadBytesNext == MusicIInv' => UnreadIsBytes'
BY UnreadBytes, PTL

\* Sequences told from one another byte by byte.
LEMMA SameAsAppend ==
    ASSUME NEW S, NEW q \in Seq(S), NEW r \in Seq(S), NEW e \in S, NEW n \in Nat,
           Len(q) = n, Len(r) = n + 1,
           \A k \in 1 .. n + 1 : r[k] = IF k = n + 1 THEN e ELSE q[k]
    PROVE  r = Append(q, e)
OBVIOUS

LEMMA SameAsRest ==
    ASSUME NEW S, NEW q \in Seq(S), NEW r \in Seq(S), NEW n \in Nat,
           Len(q) = n + 4, Len(r) = n,
           \A k \in 1 .. n : r[k] = q[k + 4]
    PROVE  r = SubSeq(q, 5, Len(q))
OBVIOUS

\* What the invariant says of the blocks, in the words of the ring.
LEMMA RoomKept == MusicIInv => RingFits
<1> SUFFICES ASSUME MusicIInv, left > 0
             PROVE  \/ Unread + left < Ring
                    \/ play /\ ~empty /\ Unread + left = Ring
  BY UnreadBytes DEF UnreadIsBytes, MusicIInv, RingFits, Music!BlockFits
<1>1. /\ Ring \in Nat /\ Unread \in 0 .. Ring - 1 /\ left \in 0 .. Block
      /\ ahead \in 0 .. Ahead /\ {play, empty, addr_rst} \subseteq BOOLEAN
      /\ 4 * rd_addr \in 0 .. Ring - 4 /\ wr_addr \in 0 .. Ring - 1
  BY OnTheRing
<1>2. PICK b \in Nat : b = ahead * Block /\ b + Block < Ring
  BY <1>1, MusicSizes
<1>3. Block \in Nat /\ Ring > 2 * Block
  BY MusicSizes
<1>4. CASE ~play
  <2>1. rd_addr = 0 /\ (IF addr_rst THEN 0 ELSE wr_addr) + left = b
    BY <1>2, <1>4 DEF MusicIInv, BeforeStart
  <2>2. Unread = IF addr_rst THEN 0 ELSE wr_addr
    BY <1>1, <2>1 DEF Unread, Minus
  <2> QED
    BY <1>1, <1>2, <1>3, <2>1, <2>2
<1>5. CASE play /\ empty
  <2>1. Allowed \in Nat /\ Allowed + Block < Ring
    BY <1>1, <1>2, <1>3 DEF Allowed
  <2>2. Unread + left <= Allowed \/ Unread + left <= Allowed + Block
    BY <1>5 DEF MusicIInv, BlockHasRoom
  <2> QED
    BY <1>1, <1>3, <2>1, <2>2
<1>6. CASE play /\ ~empty
  BY <1>6 DEF MusicIInv, BlockHasRoom
<1> QED
  BY <1>1, <1>4, <1>5, <1>6

LEMMA InitStream == Music!Init => Music!Stream!Init
BY DEF Music!Init, Music!Stream!Init, Music!unread

\* A byte that is written is put at the end.
LEMMA WritePuts ==
    ASSUME MusicIInv, Music!WritePcm
    PROVE  \E b \in 0 .. Music!Tags - 1 : Music!Stream!Put(b)
<1>1. /\ MusicIInv' /\ Unread' = Unread + 1 /\ Unread + 1 < Ring
      /\ rd_addr' = rd_addr /\ pcm' = pcm
      /\ ring' = [ring EXCEPT ![wr_addr] = sent]
      /\ 4 * rd_addr + Unread = (IF 4 * rd_addr + Unread < Ring THEN wr_addr ELSE wr_addr + Ring)
  BY WriteByte
<1>2. /\ 4 * rd_addr \in 0 .. Ring - 4 /\ Ring \in Nat /\ Unread \in 0 .. Ring - 1
      /\ wr_addr \in 0 .. Ring - 1
  BY OnTheRing
<1>3. ring \in [0 .. Ring - 1 -> Music!Byte] /\ sent \in 0 .. Music!Tags - 1
  BY DEF MusicIInv, Music!TypeOK
<1>4. /\ Music!unread = [k \in 1 .. Unread |-> ring[InRing(4 * rd_addr + k - 1)]]
      /\ Music!unread \in Seq(Music!Byte) /\ Len(Music!unread) = Unread
  BY UnreadBytes DEF UnreadIsBytes
<1>5. /\ Music!unread' = [k \in 1 .. Unread' |-> ring'[InRing(4 * rd_addr' + k - 1)]]
      /\ Music!unread' \in Seq(Music!Byte) /\ Len(Music!unread') = Unread'
  BY <1>1, UnreadBytesNext DEF UnreadIsBytes, InRing
<1>6. ASSUME NEW k \in 1 .. Unread + 1
      PROVE  Music!unread'[k] = IF k = Unread + 1 THEN sent ELSE Music!unread[k]
  <2>1. InRing(4 * rd_addr + k - 1) \in 0 .. Ring - 1
    BY <1>1, <1>2 DEF InRing
  <2>2. InRing(4 * rd_addr + k - 1) = wr_addr <=> k = Unread + 1
    BY <1>1, <1>2 DEF InRing
  <2> QED
    BY <1>1, <1>2, <1>3, <1>4, <1>5, <2>1, <2>2
<1>7. Music!unread' = Append(Music!unread, sent)
  <2>1. sent \in Music!Byte
    BY <1>2, <1>3, MusicSizes DEF Music!Byte
  <2>2. /\ Music!unread \in Seq(Music!Byte) /\ Music!unread' \in Seq(Music!Byte)
        /\ Unread \in Nat /\ Len(Music!unread) = Unread /\ Len(Music!unread') = Unread + 1
    BY <1>1, <1>2, <1>4, <1>5
  <2>3. \A k \in 1 .. Unread + 1 :
           Music!unread'[k] = IF k = Unread + 1 THEN sent ELSE Music!unread[k]
    BY <1>6
  <2> QED
    BY ONLY <2>1, <2>2, <2>3, SameAsAppend
<1> QED
  BY <1>1, <1>2, <1>3, <1>4, <1>7 DEF Music!Stream!Put

\* A sample that is handed over is taken from the beginning.
LEMMA ReadTakes ==
    ASSUME MusicIInv, Music!ClockRead
    PROVE  Music!Stream!Take \/ UNCHANGED <<Music!unread, pcm>>
<1>1. /\ MusicIInv' /\ ~addr_rst /\ UNCHANGED <<ring, wr_addr, addr_rst>>
      /\ \/ UNCHANGED <<rd_addr, pcm>>
         \/ /\ Unread >= 4 /\ Unread' = Unread - 4
            /\ 4 * rd_addr' = IF 4 * rd_addr + 4 = Ring THEN 0 ELSE 4 * rd_addr + 4
            /\ pcm' = <<ring[4 * rd_addr], ring[4 * rd_addr + 1],
                        ring[4 * rd_addr + 2], ring[4 * rd_addr + 3]>>
  BY ClockReads
<1>2. CASE UNCHANGED <<rd_addr, pcm>>
  BY <1>1, <1>2 DEF Music!unread
<1>3. CASE /\ Unread >= 4 /\ Unread' = Unread - 4
           /\ 4 * rd_addr' = IF 4 * rd_addr + 4 = Ring THEN 0 ELSE 4 * rd_addr + 4
           /\ pcm' = <<ring[4 * rd_addr], ring[4 * rd_addr + 1],
                       ring[4 * rd_addr + 2], ring[4 * rd_addr + 3]>>
  <2>1. /\ 4 * rd_addr \in 0 .. Ring - 4 /\ Ring \in Nat /\ Unread \in 0 .. Ring - 1
    BY OnTheRing
  <2>2. /\ Music!unread = [k \in 1 .. Unread |-> ring[InRing(4 * rd_addr + k - 1)]]
        /\ Music!unread \in Seq(Music!Byte) /\ Len(Music!unread) = Unread
    BY UnreadBytes DEF UnreadIsBytes
  <2>3. /\ Music!unread' = [k \in 1 .. Unread - 4 |-> ring[InRing(4 * rd_addr' + k - 1)]]
        /\ Music!unread' \in Seq(Music!Byte) /\ Len(Music!unread') = Unread - 4
    <3>1. /\ Music!unread' = [k \in 1 .. Unread' |-> ring'[InRing(4 * rd_addr' + k - 1)]]
          /\ Music!unread' \in Seq(Music!Byte) /\ Len(Music!unread') = Unread'
      BY <1>1, UnreadBytesNext DEF UnreadIsBytes, InRing
    <3> QED
      BY <1>1, <1>3, <3>1
  <2>4. pcm' = SubSeq(Music!unread, 1, 4)
    <3>1. ASSUME NEW k \in 1 .. 4
          PROVE  Music!unread[k] = ring[4 * rd_addr + (k - 1)]
      <4>1. PICK a \in 0 .. Ring - 4 : a = 4 * rd_addr
        BY <2>1
      <4>2. InRing(a + k - 1) = a + (k - 1)
        BY <2>1, <4>1 DEF InRing
      <4>3. k \in 1 .. Unread
        BY <1>3, <2>1
      <4> QED
        BY <2>2, <4>1, <4>2, <4>3
    <3>2. /\ Music!unread[1] = ring[4 * rd_addr] /\ Music!unread[2] = ring[4 * rd_addr + 1]
          /\ Music!unread[3] = ring[4 * rd_addr + 2] /\ Music!unread[4] = ring[4 * rd_addr + 3]
      BY <2>1, <3>1
    <3> QED
      BY <1>3, <2>1, <2>2, <3>2
  <2>5. Music!unread' = SubSeq(Music!unread, 5, Len(Music!unread))
    <3>1. ASSUME NEW k \in 1 .. Unread - 4
          PROVE  Music!unread'[k] = Music!unread[k + 4]
      <4>1. PICK a \in 0 .. Ring - 4 : a = 4 * rd_addr
        BY <2>1
      <4>2. PICK b \in Nat : b = 4 * rd_addr' /\ b = IF a + 4 = Ring THEN 0 ELSE a + 4
        <5>1. (IF a + 4 = Ring THEN 0 ELSE a + 4) \in Nat
          OBVIOUS
        <5> QED
          BY <1>3, <4>1, <5>1
      <4>3. InRing(b + k - 1) = InRing(a + (k + 4) - 1)
        BY <2>1, <4>2 DEF InRing
      <4> QED
        BY <2>1, <2>2, <2>3, <4>1, <4>2, <4>3
    <3>2. Unread - 4 \in Nat /\ Unread = (Unread - 4) + 4
      BY <1>3, <2>1
    <3> QED
      BY <2>2, <2>3, <3>1, <3>2, SameAsRest
  <2> QED
    BY <1>3, <2>2, <2>4, <2>5 DEF Music!Stream!Take
<1> QED
  BY <1>1, <1>2, <1>3

\* Every step of the ring is one of the stream, or none.
LEMMA StepStream ==
    MusicIInv /\ [Music!Next]_musicVars => [Music!Stream!Next]_<<Music!unread, pcm>>
<1> SUFFICES ASSUME MusicIInv, [Music!Next]_musicVars
             PROVE  [Music!Stream!Next]_<<Music!unread, pcm>>
  OBVIOUS
<1>1. CASE UNCHANGED musicVars
  BY <1>1 DEF musicVars, Music!unread
<1>2. CASE Music!ClockRead
  BY <1>2, ReadTakes DEF Music!Stream!Next
<1>3. CASE Music!ClockSilent \/ Music!ClockEmpty \/ Music!ClockFilled
  <2>1. UNCHANGED <<ring, wr_addr, rd_addr, addr_rst, pcm>>
    BY <1>3, ClockWaits
  <2> QED
    BY <2>1 DEF Music!unread
<1>4. CASE Music!WritePcm
  BY <1>4, WritePuts DEF Music!Stream!Next
<1>5. CASE Music!BlockAhead \/ Music!NextBlock
  <2>1. UNCHANGED <<ring, wr_addr, rd_addr, addr_rst, pcm>>
    BY <1>5, BeginBlock
  <2> QED
    BY <2>1 DEF Music!unread
<1>6. CASE Music!Start
  <2>1. /\ addr_rst => wr_addr = 0 /\ rd_addr = 0
        /\ ~addr_rst' /\ UNCHANGED <<ring, wr_addr, rd_addr, pcm>>
    BY <1>6, StartSound DEF Music!Start
  <2>2. CASE ~addr_rst
    BY <2>1, <2>2 DEF Music!unread
  <2>3. CASE addr_rst
    <3>1. Unread = 0 /\ MusicIInv' /\ Unread' = Unread
      BY <1>6, <2>3, StartSound DEF Unread
    <3>2. Music!unread' = [k \in 1 .. Unread' |-> ring'[InRing(4 * rd_addr' + k - 1)]]
      BY <3>1, UnreadBytesNext DEF UnreadIsBytes, InRing
    <3>3. Music!unread = << >> /\ 1 .. 0 = {}
      BY <2>3 DEF Music!unread
    <3> QED
      BY <2>1, <3>1, <3>2, <3>3
  <2> QED
    BY <2>2, <2>3, OnTheRing
<1>7. CASE Music!Stop
  <2>1. Music!unread' = << >> /\ pcm' = pcm
    BY <1>7, StopSound DEF Music!unread
  <2> QED
    BY <2>1 DEF Music!Stream!Next, Music!Stream!Clear
<1>8. CASE Music!AddrReset
  BY <1>8, StopSound DEF Music!unread
<1> QED
  BY <1>1, <1>2, <1>3, <1>4, <1>5, <1>6, <1>7, <1>8
     DEF Music!Next, Music!Sound, Music!Drive

-----------------------------------------------------------------------------
(***************************************************************************)
(* Mixing and output.                                                      *)
(***************************************************************************)
Silent == Output!Both(Output!Silence)
BitsOf(sample, n) == [k \in 1 .. n |-> <<sample, Bits - k>>]

\* What a sum is made of: a channel, the side, and a sample of the channel.
Terms == Int \X Output!Sides \X Nat

\* The sums for a side over sample f of the channels of the full rate, and the
\* pairs of them whose right side is not behind the left one.
Sums == [side \in Output!Sides |-> [f \in 0 .. Output!Tags - 1 |->
            {s \in [1 .. Chans -> Terms] :
                \A c \in 1 .. Chans : /\ s[c][1] = c - 1 /\ s[c][2] = side
                                      /\ c - 1 \notin Slow => s[c][3] = f}]]
Pairs == [f \in 0 .. Output!Tags - 1 |->
            {p \in [Output!Sides -> [1 .. Chans -> Terms]] :
                p[0] \in Sums[0][f] /\ p[1] \in Sums[1][f] /\ Output!NotBefore(p[0], p[1])}]

\* Two sounds, one a period after the other: the later one over sample f and
\* not behind the earlier one, or silence before there is sound.
Follow == [f \in 0 .. Output!Tags - 1 |->
            {<<Silent, Silent>>}
            \cup {pq \in ({Silent} \cup Pairs[(f + Output!Tags - 1) % Output!Tags]) \X Pairs[f] :
                      pq[1] = Silent \/ Output!NotBefore(pq[1][1], pq[2][0])}]

\* The sample of n periods ago.
Ago == [n \in 0 .. 5 |-> (frame + Output!Tags - n) % Output!Tags]

\* Where each channel was at the start of the pass, at the earliest: a slow one
\* no earlier than the sum before has it.
Floor == [chan \in Slow |->
            IF mix_side = 1 THEN sfx[0][chan + 1][3]
            ELSE IF sfx_v = Silent THEN 0 ELSE sfx_v[1][chan + 1][3]]
Span == [c \in 1 .. Chans |-> IF c - 1 \in Slow THEN Floor[c - 1] .. chan_steps[c - 1] ELSE {frame}]

\* Bits of the two sides that have begun in this period.
Slot == out_phase \div PerBit

\* A sum is made channel by channel, all panned for the same side, each over
\* the sample of the period or, at another rate, over one within its span.
ChannelsAdded ==
    /\ ack <=> state = 4 * Chans + 1
    /\ ack => snd = acc
    /\ acc \in Seq(Terms) /\ Len(acc) = state \div 4
    /\ ~mix_next =>
           /\ \A c \in 1 .. Len(acc) :
                  acc[c][1] = c - 1 /\ acc[c][2] = mix_side /\ acc[c][3] \in Span[c]
           /\ state < 4 * Chans /\ state % 4 \in {1, 2} =>
                  val = <<state \div 4, val[2]>> /\ val[2] \in Span[state \div 4 + 1]
           /\ state < 4 * Chans /\ state % 4 = 3 =>
                  val = <<state \div 4, mix_side, val[3]>> /\ val[3] \in Span[state \div 4 + 1]

\* The right side is mixed when the left one is there, and both are there when
\* nothing is mixed; each is ahead of the sum before, as far as the channels are.
SidesMixed ==
    /\ mix_next => mix_req
    /\ DOMAIN sfx = Output!Sides
    /\ \A chan \in Slow : Floor[chan] \in 0 .. chan_steps[chan]
    /\ mix_req /\ mix_side = 1 =>
           sfx[0] \in Sums[0][frame] /\ (sfx_v = Silent \/ Output!NotBefore(sfx_v[1], sfx[0]))
    /\ ~mix_req =>
           /\ <<sfx_v, sfx>> \in Follow[frame]
           /\ sfx = Silent \/ \A chan \in Slow : sfx[1][chan + 1][3] <= chan_steps[chan]

\* Clocks the mixing has taken.
Mixed ==
    (IF mix_side = 1 THEN 4 * Chans + 3 ELSE 0) + (IF mix_next THEN 0 ELSE state + 1)

\* Mixing has been going on for as long as the period, or it is over.
InTime == mix_req => out_phase * MinTick + out_since <= Mixed + 1

\* Each stage is a period behind the one before it.
StagesFollow ==
    /\ <<sum, sfx_v>> \in Follow[Ago[1]]
    /\ <<out, sum>> \in Follow[Ago[2]]
    /\ <<snd_st, out>> \in Follow[Ago[3]]

\* The bits that were sent are those of the sample that is sent, from its
\* beginning; the last bit of the period before comes in the first of this one.
BitsSent(last) ==
    /\ Slot = 0 =>
           /\ snd_bit = <<last[1], 0>>
           /\ word = BitsOf(last[1], Bits - 1) \/ (word = << >> /\ heard[1] = BitsOf(last[1], Bits))
    /\ Slot \in 1 .. Bits =>
           snd_bit = <<snd_st[0], Bits - Slot>> /\ word = BitsOf(snd_st[0], Slot - 1)
    /\ Slot > Bits =>
           snd_bit = <<snd_st[1], 2 * Bits - Slot>> /\ word = BitsOf(snd_st[1], Slot - Bits - 1)

\* What was heard is the pair of the period before, until the left sample of
\* this one is complete.
PairHeard(last) ==
    /\ heard = [side \in Output!Sides |-> heard[side]]
    /\ heard[0] = BitsOf(IF Slot <= Bits THEN last[0] ELSE snd_st[0], Bits)
    /\ Slot >= 1 => heard[1] = BitsOf(last[1], Bits)

WordsFollow ==
    \E last : <<last, snd_st>> \in Follow[Ago[4]] /\ BitsSent(last) /\ PairHeard(last)

OutputIInv ==
    /\ Output!TypeOK /\ ChannelsAdded /\ SidesMixed /\ InTime /\ StagesFollow /\ WordsFollow

LEMMA OutputSizes ==
    /\ Chans \in Nat \ {0} /\ Bits \in Nat \ {0} /\ PerBit \in Nat \ {0} /\ MinTick \in Nat \ {0}
    /\ Bits * PerBit \in Nat \ {0} /\ Output!Phases = 2 * (Bits * PerBit)
    /\ Output!Phases \in Nat \ {0} /\ Output!Phases \div 2 = Bits * PerBit
    /\ Output!Phases * MinTick \in Nat /\ Output!Phases * MinTick >= 8 * Chans + 8
    /\ Output!Tags = 8 /\ Output!Sides = {0, 1}
<1>1. /\ Chans \in Nat \ {0} /\ Bits \in Nat \ {0} /\ PerBit \in Nat \ {0} /\ MinTick \in Nat \ {0}
      /\ Output!Phases * MinTick >= Output!MixTime
  BY PartsAssumption DEF Output!AudioAssumption
<1>2. PICK b \in Nat : b = Bits * PerBit /\ b > 0
  BY <1>1
<1>3. Output!Phases = 2 * b
  BY <1>1, <1>2 DEF Output!Phases
<1>4. Output!Phases * MinTick \in Nat
  BY <1>1, <1>2, <1>3
<1>5. Output!MixTime = 8 * Chans + 8
  BY <1>1 DEF Output!MixTime
<1> QED
  BY <1>1, <1>2, <1>3, <1>4, <1>5 DEF Output!Tags, Output!Sides

\* Places in slots of n.
LEMMA InSlots ==
    ASSUME NEW n \in Nat \ {0}, NEW b \in Nat, NEW r \in 0 .. n - 1
    PROVE  (b * n + r) \div n = b /\ (b * n + r) % n = r
<1>1. PICK m \in Nat : m = b * n
  OBVIOUS
<1>2. n * b = m
  BY <1>1
<1> QED
  BY <1>1, <1>2, SMT

LEMMA SlotOf ==
    ASSUME NEW n \in Nat \ {0}, NEW p \in Nat
    PROVE  \E b \in Nat, r \in 0 .. n - 1 : p = b * n + r /\ b = p \div n /\ r = p % n
<1>1. p \div n \in Nat
  BY SMT
<1>2. p % n \in 0 .. n - 1
  BY SMT
<1>3. p = (p \div n) * n + (p % n)
  <2>1. p = n * (p \div n) + (p % n)
    BY SMT
  <2>2. PICK q \in Nat : q = p \div n
    BY <1>1
  <2>3. n * q = q * n
    OBVIOUS
  <2> QED
    BY <2>1, <2>2, <2>3
<1> QED
  BY <1>1, <1>2, <1>3

LEMMA Products ==
    ASSUME NEW n \in Nat \ {0}, NEW a \in Nat, NEW b \in Nat
    PROVE  /\ a * n \in Nat /\ (a + 1) * n = a * n + n
           /\ a < b => a * n + n <= b * n
<1>1. a * n \in Nat /\ (a + 1) * n = a * n + n
  OBVIOUS
<1>2. ASSUME a < b PROVE a * n + n <= b * n
  <2>1. PICK d \in Nat : b = a + 1 + d
    <3>1. b - a - 1 \in Nat /\ b = a + 1 + (b - a - 1)
      BY <1>2
    <3> QED
      BY <3>1
  <2>2. b * n = (a + 1) * n + d * n /\ d * n \in Nat
    BY <2>1
  <2> QED
    BY <1>1, <2>2
<1> QED
  BY <1>1, <1>2

\* Where a place of the period is.
LEMMA Places ==
    ASSUME NEW p \in 0 .. Output!Phases - 1
    PROVE  /\ p \div PerBit \in 0 .. 2 * Bits - 1 /\ p % PerBit \in 0 .. PerBit - 1
           /\ p < Bits * PerBit <=> p \div PerBit < Bits
           /\ (p \div PerBit) % Bits = IF p \div PerBit < Bits THEN p \div PerBit
                                       ELSE p \div PerBit - Bits
           /\ p % PerBit # PerBit - 1
                => p # Output!Phases - 1 /\ (p + 1) \div PerBit = p \div PerBit
           /\ p % PerBit = PerBit - 1
                => /\ p = Output!Phases - 1 <=> p \div PerBit = 2 * Bits - 1
                   /\ (p + 1) \div PerBit = p \div PerBit + 1
           /\ p >= PerBit <=> p \div PerBit >= 1
           /\ p + 1 = Bits * PerBit + PerBit
                <=> p \div PerBit = Bits /\ p % PerBit = PerBit - 1
<1>1. /\ Bits \in Nat \ {0} /\ PerBit \in Nat \ {0} /\ p \in Nat
  BY OutputSizes
<1>2. PICK b \in Nat, r \in 0 .. PerBit - 1 :
          p = b * PerBit + r /\ b = p \div PerBit /\ r = p % PerBit
  BY <1>1, SlotOf
<1>3. PICK m \in Nat : m = b * PerBit
  BY <1>1, <1>2
<1>4. PICK h \in Nat : h = Bits * PerBit /\ Output!Phases = 2 * h
  BY <1>1, OutputSizes
<1>5. /\ b < Bits => m + PerBit <= h
      /\ Bits < b => h + PerBit <= m
      /\ b = Bits => m = h
      /\ 1 <= b => PerBit <= m
      /\ b = 0 => m = 0
  <2>1. b < Bits => m + PerBit <= h
    BY <1>1, <1>2, <1>3, <1>4, Products
  <2>2. Bits < b => h + PerBit <= m
    BY <1>1, <1>2, <1>3, <1>4, Products
  <2>3. 0 < b => 0 * PerBit + PerBit <= m
    BY <1>1, <1>2, <1>3, Products
  <2> QED
    <3>1. b = Bits => m = h
      BY <1>3, <1>4
    <3>2. b = 0 => m = 0
      BY <1>1, <1>3
    <3>3. 0 * PerBit = 0
      BY <1>1
    <3> QED
      BY <1>1, <1>2, <2>1, <2>2, <2>3, <3>1, <3>2, <3>3
<1>6. (2 * Bits) * PerBit = 2 * h
  BY <1>1, <1>4
<1>7. /\ b < 2 * Bits => m + PerBit <= 2 * h
      /\ 2 * Bits <= b => 2 * h <= m
      /\ b < 2 * Bits - 1 => m + 2 * PerBit <= 2 * h
      /\ b = 2 * Bits - 1 => m + PerBit = 2 * h
  <2>1. b < 2 * Bits => m + PerBit <= 2 * h
    BY <1>1, <1>2, <1>3, <1>6, Products
  <2>2. 2 * Bits < b => 2 * h + PerBit <= m
    BY <1>1, <1>2, <1>3, <1>6, Products
  <2>3. (b + 1) * PerBit = m + PerBit /\ b + 1 \in Nat
    <3>1. (b + 1) * PerBit = b * PerBit + PerBit
      BY <1>1, Products
    <3> QED
      BY <1>3, <3>1
  <2>4. b + 1 < 2 * Bits => (b + 1) * PerBit + PerBit <= 2 * h
    BY <1>1, <1>6, <2>3, Products
  <2>5. b + 1 = 2 * Bits => (b + 1) * PerBit = 2 * h
    BY <1>6
  <2>6. b = 2 * Bits => m = 2 * h
    BY <1>3, <1>6
  <2> QED
    BY <1>1, <1>2, <1>3, <1>4, <2>1, <2>2, <2>3, <2>4, <2>5, <2>6
<1>8. b \in 0 .. 2 * Bits - 1
  BY <1>1, <1>2, <1>3, <1>4, <1>7
<1>9. b % Bits = IF b < Bits THEN b ELSE b - Bits
  <2>1. b \in 0 .. 3 * Bits - 1
    BY <1>1, <1>8
  <2> QED
    BY <1>1, <1>8, <2>1, Remainder
<1>10. r # PerBit - 1 => (p + 1) \div PerBit = b
  <2> SUFFICES ASSUME r # PerBit - 1 PROVE (p + 1) \div PerBit = b
    OBVIOUS
  <2>1. r + 1 \in 0 .. PerBit - 1 /\ p = m + r
    <3>1. r + 1 \in 0 .. PerBit - 1
      BY <1>1
    <3> QED
      BY <1>2, <1>3, <3>1
  <2>2. p + 1 = m + (r + 1)
    BY <1>2, <2>1
  <2>3. (b * PerBit + (r + 1)) \div PerBit = b
    BY <1>1, <1>2, <2>1, InSlots
  <2> QED
    BY <1>3, <2>2, <2>3
<1>11. r = PerBit - 1 => (p + 1) \div PerBit = b + 1
  <2> SUFFICES ASSUME r = PerBit - 1 PROVE (p + 1) \div PerBit = b + 1
    OBVIOUS
  <2>1. (b + 1) * PerBit = m + PerBit /\ b + 1 \in Nat /\ 0 \in 0 .. PerBit - 1
    BY <1>1, <1>2, <1>3, Products
  <2>2. p = m + r
    BY <1>2, <1>3
  <2>3. p + 1 = (m + PerBit) + 0
    BY <1>1, <1>2, <2>2
  <2>4. ((b + 1) * PerBit + 0) \div PerBit = b + 1
    BY <1>1, <2>1, InSlots
  <2> QED
    BY <2>1, <2>3, <2>4
<1>12. /\ p < h <=> b < Bits
       /\ r # PerBit - 1 => p # 2 * h - 1
       /\ r = PerBit - 1 => (p = 2 * h - 1 <=> b = 2 * Bits - 1)
       /\ p >= PerBit <=> b >= 1
       /\ p + 1 = h + PerBit <=> b = Bits /\ r = PerBit - 1
  BY <1>1, <1>2, <1>3, <1>4, <1>5, <1>7, <1>8
<1> QED
  BY <1>2, <1>4, <1>8, <1>9, <1>10, <1>11, <1>12

OutputTick(tick) ==
    /\ Output!Phase(tick) /\ Output!Channels(tick)
    /\ Output!MixBank(tick) /\ Output!MixMono
    /\ Output!AudioMix(tick) /\ Output!Serial(tick) /\ Output!Converter(tick)

\* The time of a clock: slot by slot, and no faster than the ticks come.
LEMMA SlotRuns ==
    ASSUME OutputIInv, NEW tick \in BOOLEAN, OutputTick(tick)
    PROVE  /\ out_phase' \in 0 .. Output!Phases - 1 /\ out_since' \in 1 .. MinTick + 1
           /\ Slot \in 0 .. 2 * Bits - 1
           /\ Output!lrck = IF Slot < Bits THEN 0 ELSE 1
           /\ Output!bit_ctr = IF Slot < Bits THEN Slot ELSE Slot - Bits
           /\ Slot' = IF Output!next_sample(tick) THEN 0
                      ELSE IF Output!next_bit(tick) THEN Slot + 1 ELSE Slot
           /\ Output!next_sample(tick) <=> Output!next_bit(tick) /\ Slot = 2 * Bits - 1
           /\ Output!next_sample(tick)
                => /\ out_phase * MinTick + out_since >= 8 * Chans + 8
                   /\ out_phase' = 0 /\ out_since' = 1
           /\ ~Output!next_sample(tick)
                => out_phase' * MinTick + out_since' <= out_phase * MinTick + out_since + 1
           /\ out_phase * MinTick \in Nat /\ out_since \in Nat
           /\ out_phase' * MinTick \in Nat /\ out_since' \in Nat
<1>1. /\ out_phase \in 0 .. Output!Phases - 1 /\ out_since \in 1 .. MinTick + 1
  BY DEF OutputIInv, Output!TypeOK
<1>2. /\ Bits \in Nat \ {0} /\ PerBit \in Nat \ {0} /\ MinTick \in Nat \ {0} /\ Chans \in Nat
      /\ Output!Phases \in Nat \ {0} /\ Output!Phases \div 2 = Bits * PerBit
      /\ Output!Phases * MinTick \in Nat /\ Output!Phases * MinTick >= 8 * Chans + 8
  BY OutputSizes
<1>3. /\ IF tick THEN out_since >= MinTick ELSE out_since <= MinTick
      /\ out_since' = IF tick THEN 1 ELSE out_since + 1
      /\ out_phase' = IF tick THEN (out_phase + 1) % Output!Phases ELSE out_phase
  BY DEF OutputTick, Output!Phase
<1>4. (out_phase + 1) % Output!Phases = IF out_phase = Output!Phases - 1 THEN 0 ELSE out_phase + 1
  <2>1. out_phase + 1 \in 0 .. 3 * Output!Phases - 1
    BY <1>1, <1>2
  <2> QED
    BY <1>1, <1>2, <2>1, Remainder
<1>5. /\ Output!next_sample(tick) <=> tick /\ out_phase = Output!Phases - 1
      /\ Output!next_bit(tick) <=> tick /\ out_phase % PerBit = PerBit - 1
  BY DEF Output!next_sample, Output!next_bit
<1>6. /\ Slot \in 0 .. 2 * Bits - 1
      /\ out_phase < Bits * PerBit <=> Slot < Bits
      /\ Slot % Bits = IF Slot < Bits THEN Slot ELSE Slot - Bits
      /\ out_phase % PerBit # PerBit - 1
           => out_phase # Output!Phases - 1 /\ (out_phase + 1) \div PerBit = Slot
      /\ out_phase % PerBit = PerBit - 1
           => /\ out_phase = Output!Phases - 1 <=> Slot = 2 * Bits - 1
              /\ (out_phase + 1) \div PerBit = Slot + 1
  BY <1>1, Places DEF Slot
<1>7. Output!lrck = (IF Slot < Bits THEN 0 ELSE 1)
      /\ Output!bit_ctr = (IF Slot < Bits THEN Slot ELSE Slot - Bits)
  BY <1>2, <1>6 DEF Output!lrck, Output!bit_ctr, Slot
<1>8. Output!next_sample(tick) <=> Output!next_bit(tick) /\ Slot = 2 * Bits - 1
  BY <1>5, <1>6
<1>9. Slot' = IF Output!next_sample(tick) THEN 0
              ELSE IF Output!next_bit(tick) THEN Slot + 1 ELSE Slot
  <2>1. 0 \div PerBit = 0
    <3>1. 0 \in 0 .. Output!Phases - 1 /\ ~(0 >= PerBit)
      BY <1>2
    <3>2. 0 \div PerBit \in 0 .. 2 * Bits - 1 /\ ~(0 \div PerBit >= 1)
      BY <3>1, Places
    <3> QED
      BY <1>2, <3>2
  <2>2. Slot' = out_phase' \div PerBit
    BY DEF Slot
  <2>3. CASE ~tick
    BY <1>3, <1>5, <2>3 DEF Slot
  <2>4. CASE tick
    BY <1>3, <1>4, <1>5, <1>6, <2>1, <2>2, <2>4
  <2> QED
    BY <2>3, <2>4
<1>10. /\ out_phase' \in 0 .. Output!Phases - 1 /\ out_since' \in 1 .. MinTick + 1
  BY <1>1, <1>2, <1>3, <1>4
<1>11. out_phase * MinTick \in Nat /\ (out_phase + 1) * MinTick = out_phase * MinTick + MinTick
  BY <1>1, <1>2, Products
<1>12. Output!next_sample(tick)
         => /\ out_phase * MinTick + out_since >= 8 * Chans + 8
            /\ out_phase' = 0 /\ out_since' = 1
  <2> SUFFICES ASSUME tick, out_phase = Output!Phases - 1
               PROVE  /\ out_phase * MinTick + out_since >= 8 * Chans + 8
                      /\ out_phase' = 0 /\ out_since' = 1
    BY <1>5
  <2>1. out_phase + 1 = Output!Phases
    BY <1>2
  <2>2. Output!Phases * MinTick = out_phase * MinTick + MinTick
    BY <1>11, <2>1
  <2> QED
    BY <1>1, <1>2, <1>3, <1>4, <1>11, <2>2
<1>13. ~Output!next_sample(tick)
         => out_phase' * MinTick + out_since' <= out_phase * MinTick + out_since + 1
  <2> SUFFICES ASSUME ~(tick /\ out_phase = Output!Phases - 1)
               PROVE  out_phase' * MinTick + out_since' <= out_phase * MinTick + out_since + 1
    BY <1>5
  <2>1. CASE tick
    <3>1. out_phase' * MinTick = out_phase * MinTick + MinTick
      BY <1>3, <1>4, <1>11, <2>1
    <3> QED
      BY <1>1, <1>2, <1>3, <1>11, <2>1, <3>1
  <2>2. CASE ~tick
    BY <1>1, <1>2, <1>3, <1>11, <2>2
  <2> QED
    BY <2>1, <2>2
<1>14. out_phase' * MinTick \in Nat /\ out_since' \in Nat
  <2>1. out_phase' \in Nat /\ out_since' \in Nat
    BY <1>2, <1>10
  <2> QED
    BY <1>2, <2>1, Products
<1> QED
  BY <1>1, <1>6, <1>7, <1>8, <1>9, <1>10, <1>11, <1>12, <1>13, <1>14

LEMMA SlowChannels ==
    /\ \A chan \in Slow : chan \in 0 .. Chans - 1 /\ chan + 1 \in 1 .. Chans
    /\ MaxSteps \in Nat
<1>1. Slow \subseteq 0 .. Chans - 1 /\ MaxSteps \in Nat /\ Chans \in Nat
  BY PartsAssumption DEF Output!AudioAssumption
<1> QED
  BY <1>1

\* The number of a period, from one period to the next.
LEMMA PeriodsAgo ==
    ASSUME frame \in 0 .. Output!Tags - 1
    PROVE  /\ frame' = frame => Ago' = Ago
           /\ frame' = (frame + 1) % Output!Tags => \A n \in 0 .. 4 : Ago'[n + 1] = Ago[n]
           /\ \A n \in 0 .. 5 : Ago[n] \in 0 .. Output!Tags - 1
           /\ Ago[0] = frame /\ Ago[1] = (frame + Output!Tags - 1) % Output!Tags
           /\ \A n \in 0 .. 4 : Ago[n + 1] = (Ago[n] + Output!Tags - 1) % Output!Tags
<1>1. Output!Tags = 8
  BY DEF Output!Tags
<1>2. frame' = frame => Ago' = Ago
  BY DEF Ago, Output!Tags
<1>3. \A n \in 0 .. 5 : Ago[n] = (frame + 8 - n) % 8 /\ Ago'[n] = (frame' + 8 - n) % 8
  BY <1>1 DEF Ago
<1>4. ASSUME frame' = (frame + 1) % 8, NEW n \in 0 .. 4
      PROVE  Ago'[n + 1] = Ago[n]
  <2>1. n + 1 \in 0 .. 5 /\ n \in 0 .. 5
    OBVIOUS
  <2>2. (frame' + 8 - (n + 1)) % 8 = (frame + 8 - n) % 8
    BY <1>1, <1>4
  <2> QED
    BY <1>3, <2>1, <2>2
<1>5. \A n \in 0 .. 5 : Ago[n] \in 0 .. 7
  BY <1>1, <1>3
<1>6. Ago[0] = frame /\ Ago[1] = (frame + 8 - 1) % 8
  BY <1>1, <1>3
<1>7. ASSUME NEW n \in 0 .. 4 PROVE Ago[n + 1] = (Ago[n] + 8 - 1) % 8
  <2>1. n + 1 \in 0 .. 5 /\ n \in 0 .. 5
    OBVIOUS
  <2>2. (frame + 8 - (n + 1)) % 8 = (((frame + 8 - n) % 8) + 8 - 1) % 8
    BY <1>1
  <2> QED
    BY <1>3, <2>1, <2>2
<1> QED
  BY <1>1, <1>2, <1>4, <1>5, <1>6, <1>7

\* What a sum is and what follows it does not change.
LEMMA SumsFixed == Sums' = Sums /\ Pairs' = Pairs /\ Silent' = Silent /\ Follow' = Follow
<1>1. Sums' = Sums
  BY DEF Sums, Terms, Output!Sides, Output!Tags
<1>2. Pairs' = Pairs
  BY <1>1 DEF Pairs, Terms, Output!Sides, Output!Tags, Output!NotBefore
<1>3. Silent' = Silent
  BY DEF Silent, Output!Both, Output!Sides, Output!Silence
<1> QED
  BY <1>1, <1>2, <1>3 DEF Follow, Output!Tags, Output!NotBefore

LEMMA FollowIs ==
    ASSUME NEW f \in 0 .. Output!Tags - 1, NEW p, NEW q
    PROVE  <<p, q>> \in Follow[f] <=>
               \/ p = Silent /\ q = Silent
               \/ /\ q \in Pairs[f]
                  /\ \/ p = Silent
                     \/ /\ p \in Pairs[(f + Output!Tags - 1) % Output!Tags]
                        /\ Output!NotBefore(p[1], q[0])
<1>1. Follow[f] =
          {<<Silent, Silent>>}
          \cup {pq \in ({Silent} \cup Pairs[(f + Output!Tags - 1) % Output!Tags]) \X Pairs[f] :
                    pq[1] = Silent \/ Output!NotBefore(pq[1][1], pq[2][0])}
  BY DEF Follow
<1>2. <<p, q>>[1] = p /\ <<p, q>>[2] = q
  OBVIOUS
<1> QED
  BY <1>1, <1>2

\* What a pair is, taken apart.
LEMMA PairIs ==
    ASSUME NEW f \in 0 .. Output!Tags - 1, NEW p \in Pairs[f]
    PROVE  /\ p \in [Output!Sides -> [1 .. Chans -> Terms]]
           /\ p[0] \in Sums[0][f] /\ p[1] \in Sums[1][f] /\ Output!NotBefore(p[0], p[1])
           /\ \A chan \in Slow : \A side \in Output!Sides : p[side][chan + 1][3] \in Nat
<1>1. /\ p \in [Output!Sides -> [1 .. Chans -> Terms]]
      /\ p[0] \in Sums[0][f] /\ p[1] \in Sums[1][f] /\ Output!NotBefore(p[0], p[1])
  BY DEF Pairs
<1>2. ASSUME NEW chan \in Slow, NEW side \in Output!Sides
      PROVE  p[side][chan + 1][3] \in Nat
  <2>1. chan + 1 \in 1 .. Chans
    BY SlowChannels
  <2>2. p[side][chan + 1] \in Terms
    BY <1>1, <2>1
  <2> QED
    BY <2>2 DEF Terms
<1> QED
  BY <1>1, <1>2

LEMMA BitsGrow ==
    ASSUME NEW s, NEW n \in Nat
    PROVE  /\ BitsOf(s, 0) = << >> /\ Len(BitsOf(s, n)) = n
           /\ Append(BitsOf(s, n), <<s, Bits - (n + 1)>>) = BitsOf(s, n + 1)
           /\ BitsOf(s, Bits) = Output!WordOf(s)
<1> DEFINE Marks == {s} \X Int
<1>1. ASSUME NEW m \in Nat
      PROVE  /\ BitsOf(s, m) \in Seq(Marks) /\ Len(BitsOf(s, m)) = m
             /\ \A k \in 1 .. m : BitsOf(s, m)[k] = <<s, Bits - k>>
  <2>1. \A k \in 1 .. m : <<s, Bits - k>> \in Marks
    BY OutputSizes
  <2> HIDE DEF Marks
  <2> QED
    BY <2>1 DEF BitsOf
<1>2. BitsOf(s, 0) = << >>
  BY <1>1
<1>3. <<s, Bits - (n + 1)>> \in Marks
  BY OutputSizes
<1> HIDE DEF Marks
<1>4. \A k \in 1 .. n + 1 : BitsOf(s, n + 1)[k] =
          IF k = n + 1 THEN <<s, Bits - (n + 1)>> ELSE BitsOf(s, n)[k]
  <2>1. n + 1 \in Nat
    OBVIOUS
  <2>2. \A k \in 1 .. n + 1 : BitsOf(s, n + 1)[k] = <<s, Bits - k>>
    BY <1>1, <2>1
  <2>3. \A k \in 1 .. n : BitsOf(s, n)[k] = <<s, Bits - k>>
    BY <1>1
  <2> QED
    BY <2>2, <2>3
<1>5. BitsOf(s, n + 1) = Append(BitsOf(s, n), <<s, Bits - (n + 1)>>)
  <2>1. n + 1 \in Nat
    OBVIOUS
  <2>2. /\ BitsOf(s, n) \in Seq(Marks) /\ Len(BitsOf(s, n)) = n
        /\ BitsOf(s, n + 1) \in Seq(Marks) /\ Len(BitsOf(s, n + 1)) = n + 1
    BY <1>1, <2>1
  <2>3. PICK e \in Marks : e = <<s, Bits - (n + 1)>>
    BY <1>3
  <2>4. \A k \in 1 .. n + 1 : BitsOf(s, n + 1)[k] = IF k = n + 1 THEN e ELSE BitsOf(s, n)[k]
    BY <1>4, <2>3
  <2>5. BitsOf(s, n + 1) = Append(BitsOf(s, n), e)
    BY ONLY <2>2, <2>4, SameAsAppend
  <2> QED
    BY <2>3, <2>5
<1> QED
  BY <1>1, <1>2, <1>5 DEF BitsOf, Output!WordOf

\* What does not begin anew keeps its side and its period.
LEMMA BankStep ==
    ASSUME OutputIInv, NEW tick \in BOOLEAN, OutputTick(tick)
    PROVE  /\ frame \in 0 .. Output!Tags - 1 /\ frame' \in 0 .. Output!Tags - 1
           /\ frame' = IF Output!next_sample(tick) THEN (frame + 1) % Output!Tags ELSE frame
           /\ chan_steps' \in [Slow -> 0 .. MaxSteps]
           /\ \A chan \in Slow : /\ chan_steps[chan] \in Nat /\ chan_steps'[chan] \in Nat
                                 /\ chan_steps[chan] <= chan_steps'[chan]
           /\ {mix_req, mix_next, ack} \subseteq BOOLEAN
           /\ {mix_req', mix_next'} \subseteq BOOLEAN
           /\ mix_side \in Output!Sides /\ mix_side' \in Output!Sides
           /\ ~mix_next' => ~Output!next_sample(tick) /\ mix_side' = mix_side
           /\ mix_next' => mix_req'
<1>1. /\ frame \in 0 .. Output!Tags - 1 /\ {mix_req, mix_next, ack} \subseteq BOOLEAN
      /\ mix_side \in Output!Sides /\ (mix_next => mix_req)
      /\ chan_steps \in [Slow -> 0 .. MaxSteps]
  BY DEF OutputIInv, Output!TypeOK, SidesMixed
<1>2. /\ frame' = IF Output!next_sample(tick) THEN (frame + 1) % Output!Tags ELSE frame
      /\ \E ticked \in SUBSET {chan \in Slow : chan_steps[chan] < MaxSteps} :
             chan_steps' = [chan \in Slow |-> IF chan \in ticked THEN chan_steps[chan] + 1
                                              ELSE chan_steps[chan]]
  BY DEF OutputTick, Output!Channels
<1>3. frame' \in 0 .. Output!Tags - 1
  BY <1>1, <1>2 DEF Output!Tags
<1>4. /\ chan_steps' \in [Slow -> 0 .. MaxSteps]
      /\ \A chan \in Slow : /\ chan_steps[chan] \in Nat /\ chan_steps'[chan] \in Nat
                            /\ chan_steps[chan] <= chan_steps'[chan]
  <2>1. PICK ticked \in SUBSET {chan \in Slow : chan_steps[chan] < MaxSteps} :
            chan_steps' = [chan \in Slow |-> IF chan \in ticked THEN chan_steps[chan] + 1
                                             ELSE chan_steps[chan]]
    BY <1>2
  <2>2. ASSUME NEW chan \in Slow
        PROVE  /\ chan_steps'[chan] \in 0 .. MaxSteps
               /\ chan_steps[chan] \in Nat /\ chan_steps[chan] <= chan_steps'[chan]
    <3>1. chan_steps[chan] \in 0 .. MaxSteps /\ MaxSteps \in Nat
      BY <1>1, SlowChannels
    <3>2. chan \in ticked => chan_steps[chan] < MaxSteps
      BY <2>1
    <3> QED
      BY <2>1, <3>1, <3>2
  <2> QED
    BY <2>1, <2>2, SlowChannels
<1>5. CASE Output!next_sample(tick)
  BY <1>1, <1>2, <1>3, <1>4, <1>5 DEF OutputTick, Output!MixBank, Output!Begin, Output!Sides
<1>6. CASE ~Output!next_sample(tick) /\ mix_next
  BY <1>1, <1>2, <1>3, <1>4, <1>6 DEF OutputTick, Output!MixBank
<1>7. CASE ~Output!next_sample(tick) /\ ~mix_next /\ mix_req /\ ack
  BY <1>1, <1>2, <1>3, <1>4, <1>7 DEF OutputTick, Output!MixBank, Output!Take, Output!Sides
<1>8. CASE ~Output!next_sample(tick) /\ ~mix_next /\ ~(mix_req /\ ack)
  BY <1>1, <1>2, <1>3, <1>4, <1>8 DEF OutputTick, Output!MixBank, Output!bankVars
<1> QED
  BY <1>5, <1>6, <1>7, <1>8

\* While a pass goes on the channels can only widen the span of their samples.
LEMMA SpanGrows ==
    ASSUME OutputIInv, NEW tick \in BOOLEAN, OutputTick(tick)
    PROVE  /\ ~mix_next' => Floor' = Floor
           /\ ~mix_next' => \A c \in 1 .. Chans : Span[c] \subseteq Span'[c]
           /\ \A c \in 1 .. Chans : Output!Pcm(c - 1) \in Span[c] /\ Span[c] \subseteq Nat
<1>1. /\ \A chan \in Slow : /\ Floor[chan] \in 0 .. chan_steps[chan]
                            /\ chan_steps[chan] \in Nat /\ chan_steps'[chan] \in Nat
                            /\ chan_steps[chan] <= chan_steps'[chan]
      /\ frame \in 0 .. Output!Tags - 1
      /\ DOMAIN sfx = {0, 1} /\ mix_side \in {0, 1} /\ Output!Tags = 8
  BY BankStep, OutputSizes DEF OutputIInv, SidesMixed
<1>2. ~mix_next' => frame' = frame /\ mix_side' = mix_side /\ ~Output!next_sample(tick)
  BY BankStep
<1>3. ASSUME ~mix_next' PROVE Floor' = Floor
  <2>1. sfx_v' = sfx_v
    BY <1>2, <1>3 DEF OutputTick, Output!AudioMix, Output!stageVars
  <2>2. mix_side = 1 => sfx'[0] = sfx[0]
    <3>1. CASE mix_next
      BY <1>2, <1>3, <3>1 DEF OutputTick, Output!MixBank
    <3>2. CASE ~mix_next /\ mix_req /\ ack
      <4>1. sfx' = [sfx EXCEPT ![mix_side] = snd]
        BY <1>2, <1>3, <3>2 DEF OutputTick, Output!MixBank, Output!Take
      <4> QED
        BY <1>1, <4>1
    <3>3. CASE ~mix_next /\ ~(mix_req /\ ack)
      BY <1>2, <1>3, <3>3 DEF OutputTick, Output!MixBank, Output!bankVars
    <3> QED
      BY <3>1, <3>2, <3>3
  <2> QED
    BY <1>2, <1>3, <2>1, <2>2, SumsFixed DEF Floor
<1>4. ASSUME NEW c \in 1 .. Chans
      PROVE  /\ Span[c] = IF c - 1 \in Slow THEN Floor[c - 1] .. chan_steps[c - 1] ELSE {frame}
             /\ Span'[c] = IF c - 1 \in Slow THEN Floor'[c - 1] .. chan_steps'[c - 1] ELSE {frame'}
  BY DEF Span
<1>5. ASSUME ~mix_next', NEW c \in 1 .. Chans
      PROVE  Span[c] \subseteq Span'[c]
  <2>1. CASE c - 1 \in Slow
    <3>1. PICK chan \in Slow : chan = c - 1
      BY <2>1
    <3> QED
      BY <1>1, <1>3, <1>4, <1>5, <3>1
  <2>2. CASE c - 1 \notin Slow
    BY <1>2, <1>4, <1>5, <2>2
  <2> QED
    BY <2>1, <2>2
<1>6. ASSUME NEW c \in 1 .. Chans
      PROVE  Output!Pcm(c - 1) \in Span[c] /\ Span[c] \subseteq Nat
  <2>1. CASE c - 1 \in Slow
    <3>1. PICK chan \in Slow : chan = c - 1
      BY <2>1
    <3> QED
      BY <1>1, <1>4, <3>1 DEF Output!Pcm
  <2>2. CASE c - 1 \notin Slow
    BY <1>1, <1>4, <2>2 DEF Output!Pcm
  <2> QED
    BY <2>1, <2>2
<1> QED
  BY <1>3, <1>5, <1>6

\* A clock of mix_mono.
LEMMA MixingStep ==
    ASSUME OutputIInv, NEW tick \in BOOLEAN, OutputTick(tick)
    PROVE  /\ ChannelsAdded' /\ state' \in 0 .. 4 * Chans + 1 /\ Len(acc') <= Chans
           /\ ack' \in BOOLEAN
           /\ mix_next => state' = 0
           /\ ~mix_next /\ ~ack => state' = state + 1
<1>1. /\ state \in 0 .. 4 * Chans + 1 /\ Chans \in Nat /\ (ack <=> state = 4 * Chans + 1)
      /\ ack \in BOOLEAN /\ mix_next \in BOOLEAN
      /\ ack => snd = acc
      /\ acc \in Seq(Terms) /\ Len(acc) = state \div 4
  BY OutputSizes DEF OutputIInv, Output!TypeOK, ChannelsAdded
<1>2. ~mix_next =>
          /\ \A c \in 1 .. Len(acc) :
                 acc[c][1] = c - 1 /\ acc[c][2] = mix_side /\ acc[c][3] \in Span[c]
          /\ state < 4 * Chans /\ state % 4 \in {1, 2} =>
                 val = <<state \div 4, val[2]>> /\ val[2] \in Span[state \div 4 + 1]
          /\ state < 4 * Chans /\ state % 4 = 3 =>
                 val = <<state \div 4, mix_side, val[3]>> /\ val[3] \in Span[state \div 4 + 1]
  BY DEF OutputIInv, ChannelsAdded
<1>3. /\ mix_side \in Output!Sides
      /\ ~mix_next' => mix_side' = mix_side
      /\ ~mix_next' => \A c \in 1 .. Chans : Span[c] \subseteq Span'[c]
      /\ \A c \in 1 .. Chans : Output!Pcm(c - 1) \in Span[c] /\ Span[c] \subseteq Nat
  BY BankStep, SpanGrows
<1>4. Terms' = Terms
  BY DEF Terms, Output!Sides
<1>5. CASE mix_next
  <2>1. state' = 0 /\ acc' = << >> /\ ack' = FALSE
    BY <1>5 DEF OutputTick, Output!MixMono, Output!Clear, Output!Silence
  <2>2. state' % 4 = 0 /\ state' \div 4 = 0 /\ state' # 4 * Chans + 1 /\ state' \in 0 .. 4 * Chans + 1
    BY <1>1, <2>1
  <2>3. acc' \in Seq(Terms) /\ Len(acc') = 0
    BY <2>1
  <2>4. ChannelsAdded'
    BY <1>4, <2>1, <2>2, <2>3 DEF ChannelsAdded
  <2> QED
    <3>1. Len(acc') <= Chans
      BY <1>1, <2>3
    <3>2. ack' \in BOOLEAN /\ state' = 0
      BY <2>1
    <3> QED
      BY <1>5, <2>2, <2>4, <3>1, <3>2
<1>6. CASE ~mix_next /\ ack
  <2>1. UNCHANGED <<state, val, acc, ack, snd>>
    BY <1>6 DEF OutputTick, Output!MixMono, Output!monoVars
  <2>2. state \div 4 = Chans /\ state = 4 * Chans + 1
    BY <1>1, <1>6
  <2>3. ~mix_next' => \A c \in 1 .. Len(acc) :
            acc[c][1] = c - 1 /\ acc[c][2] = mix_side' /\ acc[c][3] \in Span'[c]
    BY <1>1, <1>2, <1>3, <1>6, <2>2
  <2>4. ChannelsAdded'
    BY <1>1, <1>4, <1>6, <2>1, <2>2, <2>3 DEF ChannelsAdded
  <2> QED
    BY <1>1, <1>6, <2>1, <2>2, <2>4
<1>7. CASE ~mix_next /\ ~ack /\ state < 4 * Chans
  <2>1. PICK chan \in 0 .. Chans - 1, r \in 0 .. 3 :
            /\ chan = state \div 4 /\ r = state % 4
            /\ (state + 1) \div 4 = IF r = 3 THEN chan + 1 ELSE chan
            /\ (state + 1) % 4 = IF r = 3 THEN 0 ELSE r + 1
            /\ chan + 1 \in 1 .. Chans
    <3>1. state \div 4 \in 0 .. Chans - 1 /\ state % 4 \in 0 .. 3
      BY <1>1, <1>7
    <3>2. /\ (state + 1) \div 4 = IF state % 4 = 3 THEN state \div 4 + 1 ELSE state \div 4
          /\ (state + 1) % 4 = IF state % 4 = 3 THEN 0 ELSE (state % 4) + 1
      BY <1>1, <1>7
    <3> QED
      BY <1>1, <3>1, <3>2
  <2>2. /\ state' = state + 1
        /\ val' = CASE r = 0 -> <<chan, Output!Pcm(chan)>>
                    [] r = 2 -> <<chan, mix_side, val[2]>>
                    [] OTHER -> val
        /\ acc' = IF r = 3 THEN Append(acc, val) ELSE acc
        /\ UNCHANGED <<ack, snd>>
    BY <1>7, <2>1 DEF OutputTick, Output!MixMono, Output!AddChannel
  <2>3. /\ Output!Pcm(chan) \in Span[chan + 1] /\ Span[chan + 1] \subseteq Nat
        /\ ~mix_next' => Span[chan + 1] \subseteq Span'[chan + 1]
    <3>1. (chan + 1) - 1 = chan
      BY <2>1
    <3> QED
      BY <1>3, <2>1, <3>1
  <2>4. /\ acc' \in Seq(Terms) /\ Len(acc') = state' \div 4
        /\ \A c \in 1 .. Len(acc') :
               acc'[c][1] = c - 1 /\ acc'[c][2] = mix_side /\ acc'[c][3] \in Span[c]
    <3>1. CASE r = 3
      <4>1. val = <<chan, mix_side, val[3]>> /\ val[3] \in Span[chan + 1]
        BY <1>2, <1>7, <2>1, <3>1
      <4>2. val \in Terms /\ val[1] = chan /\ val[2] = mix_side
        BY <1>3, <2>3, <4>1 DEF Terms
      <4>3. /\ acc' \in Seq(Terms) /\ Len(acc') = chan + 1
            /\ \A c \in 1 .. chan + 1 : acc'[c] = IF c = chan + 1 THEN val ELSE acc[c]
        BY <1>1, <2>1, <2>2, <3>1, <4>2
      <4>4. (chan + 1) - 1 = chan /\ \A c \in 1 .. chan + 1 : c # chan + 1 => c \in 1 .. Len(acc)
        BY <1>1, <2>1
      <4>5. state' \div 4 = chan + 1
        BY <2>1, <2>2, <3>1
      <4>6. ASSUME NEW c \in 1 .. chan + 1
            PROVE  acc'[c][1] = c - 1 /\ acc'[c][2] = mix_side /\ acc'[c][3] \in Span[c]
        <5>1. CASE c = chan + 1
          BY <4>1, <4>2, <4>3, <4>4, <5>1
        <5>2. CASE c # chan + 1
          BY <1>2, <1>7, <4>3, <4>4, <5>2
        <5> QED
          BY <5>1, <5>2
      <4> QED
        BY <4>3, <4>5, <4>6
    <3>2. CASE r # 3
      BY <1>1, <1>2, <1>7, <2>1, <2>2, <3>2
    <3> QED
      BY <3>1, <3>2
  <2>5. Len(acc') <= Chans /\ state' \in 0 .. 4 * Chans /\ state' # 4 * Chans + 1
    <3>1. state' \in 0 .. 4 * Chans /\ state' # 4 * Chans + 1
      BY <1>1, <1>7, <2>2
    <3>2. Len(acc') = chan \/ Len(acc') = chan + 1
      BY <2>1, <2>2, <2>4
    <3> QED
      BY <1>1, <2>1, <3>1, <3>2
  <2>6. ~mix_next' => \A c \in 1 .. Len(acc') :
            acc'[c][1] = c - 1 /\ acc'[c][2] = mix_side' /\ acc'[c][3] \in Span'[c]
    <3>1. \A c \in 1 .. Len(acc') : c \in 1 .. Chans
      <4>1. Len(acc') \in Nat
        BY <2>4
      <4> QED
        BY <1>1, <2>5, <4>1
    <3> QED
      BY <1>3, <2>4, <3>1
  <2>7. r # 3 => state' \div 4 = chan /\ state' % 4 = r + 1
    BY <2>1, <2>2
  <2>8. r = 3 => state' % 4 = 0
    BY <2>1, <2>2
  <2>9. r \in {0, 1} => val' = <<chan, val'[2]>> /\ val'[2] \in Span[chan + 1]
    <3>1. CASE r = 0
      BY <2>2, <2>3, <3>1
    <3>2. CASE r = 1
      BY <1>2, <1>7, <2>1, <2>2, <3>2
    <3> QED
      BY <3>1, <3>2
  <2>10. r = 2 => val' = <<chan, mix_side, val'[3]>> /\ val'[3] \in Span[chan + 1]
    BY <1>2, <1>7, <2>1, <2>2
  <2>11. ~mix_next' =>
            /\ state' % 4 \in {1, 2} =>
                   val' = <<state' \div 4, val'[2]>> /\ val'[2] \in Span'[state' \div 4 + 1]
            /\ state' % 4 = 3 =>
                   val' = <<state' \div 4, mix_side', val'[3]>> /\ val'[3] \in Span'[state' \div 4 + 1]
    BY <1>3, <2>1, <2>3, <2>7, <2>8, <2>9, <2>10
  <2>12. ~ack'
    BY <1>7, <2>2
  <2>13. ChannelsAdded'
    BY <1>4, <2>4, <2>5, <2>6, <2>11, <2>12 DEF ChannelsAdded
  <2> QED
    BY <1>1, <1>7, <2>2, <2>5, <2>12, <2>13
<1>8. CASE ~mix_next /\ ~ack /\ state >= 4 * Chans
  <2>1. snd' = acc /\ ack' = TRUE /\ state' = state + 1 /\ UNCHANGED <<val, acc>>
    BY <1>1, <1>8 DEF OutputTick, Output!MixMono
  <2>2. state = 4 * Chans /\ state' = 4 * Chans + 1 /\ state \div 4 = Chans /\ state' \div 4 = Chans
    BY <1>1, <1>8, <2>1
  <2>3. ~mix_next' => \A c \in 1 .. Len(acc) :
            acc[c][1] = c - 1 /\ acc[c][2] = mix_side' /\ acc[c][3] \in Span'[c]
    BY <1>1, <1>2, <1>3, <1>8, <2>2
  <2>4. ChannelsAdded'
    BY <1>1, <1>4, <1>8, <2>1, <2>2, <2>3 DEF ChannelsAdded
  <2> QED
    BY <1>1, <1>8, <2>1, <2>2, <2>4
<1> QED
  BY <1>1, <1>5, <1>6, <1>7, <1>8

\* A finished sum is one of all channels for its side, none of them behind
\* the sum before or ahead of its channel.
LEMMA SumMade ==
    ASSUME OutputIInv, ~mix_next, ack
    PROVE  /\ snd \in [1 .. Chans -> Terms] /\ snd \in Sums[mix_side][frame]
           /\ \A chan \in Slow : snd[chan + 1][3] \in Floor[chan] .. chan_steps[chan]
<1>1. /\ state = 4 * Chans + 1 /\ snd = acc /\ acc \in Seq(Terms) /\ Len(acc) = state \div 4
      /\ \A c \in 1 .. Len(acc) :
             acc[c][1] = c - 1 /\ acc[c][2] = mix_side /\ acc[c][3] \in Span[c]
  BY DEF OutputIInv, ChannelsAdded
<1>2. mix_side \in Output!Sides /\ frame \in 0 .. Output!Tags - 1 /\ Chans \in Nat
  BY OutputSizes DEF OutputIInv, Output!TypeOK
<1>3. Len(acc) = Chans
  BY <1>1, <1>2
<1>4. snd \in [1 .. Chans -> Terms]
  BY <1>1, <1>3
<1>5. \A c \in 1 .. Chans : c - 1 \notin Slow => snd[c][3] = frame
  BY <1>1, <1>3 DEF Span
<1>6. snd \in Sums[mix_side][frame]
  BY <1>1, <1>2, <1>3, <1>4, <1>5 DEF Sums
<1>7. ASSUME NEW chan \in Slow PROVE snd[chan + 1][3] \in Floor[chan] .. chan_steps[chan]
  <2>1. chan + 1 \in 1 .. Chans /\ (chan + 1) - 1 = chan
    BY SlowChannels
  <2>2. Span[chan + 1] = Floor[chan] .. chan_steps[chan]
    BY <2>1 DEF Span
  <2> QED
    BY <1>1, <1>3, <2>1, <2>2
<1> QED
  BY <1>4, <1>6, <1>7

\* A clock of mix_bank: the right side after the left, both within the period.
LEMMA SidesStep ==
    ASSUME OutputIInv, NEW tick \in BOOLEAN, OutputTick(tick)
    PROVE  SidesMixed' /\ InTime' /\ (Output!next_sample(tick) => ~mix_req)
<1>1. /\ {mix_req, mix_next, ack} \subseteq BOOLEAN /\ mix_side \in {0, 1}
      /\ frame \in 0 .. Output!Tags - 1 /\ frame' \in 0 .. Output!Tags - 1
      /\ frame' = IF Output!next_sample(tick) THEN (frame + 1) % Output!Tags ELSE frame
      /\ \A chan \in Slow : /\ chan_steps[chan] \in Nat /\ chan_steps'[chan] \in Nat
                            /\ chan_steps[chan] <= chan_steps'[chan]
      /\ Output!Sides = {0, 1}
  BY BankStep, OutputSizes
<1>2. /\ mix_next => mix_req
      /\ DOMAIN sfx = {0, 1}
      /\ \A chan \in Slow : Floor[chan] \in 0 .. chan_steps[chan]
      /\ mix_req /\ mix_side = 1 =>
             sfx[0] \in Sums[0][frame] /\ (sfx_v = Silent \/ Output!NotBefore(sfx_v[1], sfx[0]))
      /\ ~mix_req =>
             /\ <<sfx_v, sfx>> \in Follow[frame]
             /\ sfx = Silent \/ \A chan \in Slow : sfx[1][chan + 1][3] <= chan_steps[chan]
  BY <1>1 DEF OutputIInv, SidesMixed
<1>3. /\ state \in 0 .. 4 * Chans + 1 /\ Chans \in Nat /\ (ack <=> state = 4 * Chans + 1)
  BY OutputSizes DEF OutputIInv, Output!TypeOK, ChannelsAdded
<1>4. /\ state' \in 0 .. 4 * Chans + 1
      /\ mix_next => state' = 0
      /\ ~mix_next /\ ~ack => state' = state + 1
  BY MixingStep
<1>5. /\ out_phase * MinTick \in Nat /\ out_since \in Nat
      /\ out_phase' * MinTick \in Nat /\ out_since' \in Nat
      /\ Output!next_sample(tick)
           => /\ out_phase * MinTick + out_since >= 8 * Chans + 8
              /\ out_phase' = 0 /\ out_since' = 1
      /\ ~Output!next_sample(tick)
           => out_phase' * MinTick + out_since' <= out_phase * MinTick + out_since + 1
  BY SlotRuns
<1>6. mix_req => out_phase * MinTick + out_since <= Mixed + 1
  BY DEF OutputIInv, InTime
<1>7. Mixed \in Nat /\ Mixed <= 8 * Chans + 5
  BY <1>1, <1>3 DEF Mixed
<1>8. Output!next_sample(tick) => ~mix_req
  BY <1>3, <1>5, <1>6, <1>7
<1>9. /\ Sums' = Sums /\ Silent' = Silent /\ Follow' = Follow
      /\ Output!Sides' = {0, 1}
  BY <1>1, SumsFixed DEF Output!Sides
<1>10. ~mix_next' => \A chan \in Slow : Floor'[chan] \in 0 .. chan_steps'[chan]
  BY <1>1, <1>2, SpanGrows
<1>11. ~Output!next_sample(tick) => sfx_v' = sfx_v
  BY DEF OutputTick, Output!AudioMix, Output!stageVars
<1>12. \A p, q : Output!NotBefore(p, q)' = Output!NotBefore(p, q)
  BY DEF Output!NotBefore
<1>13. CASE Output!next_sample(tick)
  <2>1. mix_req' /\ mix_next' /\ mix_side' = 0 /\ sfx' = sfx /\ sfx_v' = sfx
    BY <1>13 DEF OutputTick, Output!MixBank, Output!Begin, Output!AudioMix
  <2>2. ASSUME NEW chan \in Slow PROVE Floor'[chan] \in 0 .. chan_steps'[chan]
    <3>1. Floor'[chan] = IF sfx = Silent THEN 0 ELSE sfx[1][chan + 1][3]
      BY <1>9, <2>1 DEF Floor
    <3>2. CASE sfx = Silent
      BY <1>1, <3>1, <3>2
    <3>3. CASE sfx # Silent
      <4>1. sfx \in Pairs[frame]
        BY <1>1, <1>2, <1>8, <1>13, <3>3, FollowIs
      <4>2. sfx[1][chan + 1][3] \in Nat
        BY <1>1, <4>1, PairIs
      <4>3. sfx[1][chan + 1][3] <= chan_steps[chan]
        BY <1>2, <1>8, <1>13, <3>3
      <4> QED
        BY <1>1, <3>1, <3>3, <4>2, <4>3
    <3> QED
      BY <3>2, <3>3
  <2>3. SidesMixed'
    BY <1>1, <1>2, <2>1, <2>2 DEF SidesMixed
  <2>4. InTime'
    <3>1. Mixed' = 0
      BY <2>1 DEF Mixed
    <3>2. out_phase' * MinTick = 0 /\ out_since' = 1
      BY <1>5, <1>13, OutputSizes
    <3> QED
      BY <3>1, <3>2 DEF InTime
  <2> QED
    BY <1>8, <2>3, <2>4
<1>14. CASE ~Output!next_sample(tick) /\ mix_next
  <2>1. mix_next' = FALSE /\ UNCHANGED <<mix_req, mix_side, sfx>> /\ frame' = frame /\ mix_req
    BY <1>1, <1>2, <1>14 DEF OutputTick, Output!MixBank
  <2>2. SidesMixed'
    BY <1>1, <1>2, <1>9, <1>10, <1>11, <1>12, <1>14, <2>1 DEF SidesMixed
  <2>3. Mixed' = Mixed + 1
    BY <1>1, <1>3, <1>4, <1>14, <2>1 DEF Mixed
  <2>4. InTime'
    BY <1>5, <1>6, <1>7, <1>14, <2>1, <2>3 DEF InTime
  <2> QED
    BY <1>8, <2>2, <2>4
<1>15. CASE ~Output!next_sample(tick) /\ ~mix_next /\ mix_req /\ ack
  <2>1. /\ sfx' = [sfx EXCEPT ![mix_side] = snd] /\ frame' = frame
        /\ IF mix_side = 0 THEN mix_next' = TRUE /\ mix_side' = 1 /\ mix_req' = mix_req
           ELSE mix_req' = FALSE /\ mix_next' = mix_next /\ mix_side' = mix_side
    BY <1>1, <1>15 DEF OutputTick, Output!MixBank, Output!Take
  <2>2. /\ snd \in [1 .. Chans -> Terms] /\ snd \in Sums[mix_side][frame]
        /\ \A chan \in Slow : snd[chan + 1][3] \in Floor[chan] .. chan_steps[chan]
        /\ DOMAIN sfx' = {0, 1}
    BY <1>2, <1>15, <2>1, SumMade
  <2>3. CASE mix_side = 0
    <3>1. sfx'[0] = snd /\ mix_side' = 1 /\ mix_next' /\ mix_req'
      BY <1>2, <1>15, <2>1, <2>3
    <3>2. ASSUME NEW chan \in Slow PROVE Floor'[chan] \in 0 .. chan_steps'[chan]
      <4>1. Floor'[chan] = snd[chan + 1][3]
        BY <3>1 DEF Floor
      <4>2. PICK t : t = snd[chan + 1][3]
        OBVIOUS
      <4>3. t \in Floor[chan] .. chan_steps[chan] /\ Floor[chan] \in 0 .. chan_steps[chan]
        BY <1>2, <2>2, <4>2
      <4> QED
        BY <1>1, <4>1, <4>2, <4>3
    <3>3. sfx_v = Silent \/ Output!NotBefore(sfx_v[1], snd)
      <4>1. ASSUME sfx_v # Silent, NEW chan \in Slow
            PROVE  sfx_v[1][chan + 1][3] <= snd[chan + 1][3]
        <5>1. Floor[chan] = sfx_v[1][chan + 1][3]
          BY <2>3, <4>1 DEF Floor
        <5>2. snd[chan + 1][3] \in Floor[chan] .. chan_steps[chan] /\ Floor[chan] \in 0 .. chan_steps[chan]
          BY <1>2, <2>2
        <5> QED
          BY <1>1, <5>1, <5>2
      <4> QED
        BY <4>1 DEF Output!NotBefore
    <3>4. SidesMixed'
      BY <1>1, <1>9, <1>11, <1>12, <1>15, <2>1, <2>2, <2>3, <3>1, <3>2, <3>3 DEF SidesMixed
    <3>5. Mixed' = Mixed + 1
      BY <1>1, <1>3, <1>15, <2>1, <2>3 DEF Mixed
    <3> QED
      BY <1>5, <1>6, <1>7, <1>8, <1>15, <2>1, <2>3, <3>4, <3>5 DEF InTime
  <2>4. CASE mix_side = 1
    <3>1. sfx'[0] = sfx[0] /\ sfx'[1] = snd /\ ~mix_req' /\ ~mix_next'
      BY <1>1, <1>2, <1>15, <2>1, <2>4
    <3>2. sfx[0] \in Sums[0][frame] /\ (sfx_v = Silent \/ Output!NotBefore(sfx_v[1], sfx[0]))
      BY <1>2, <1>15, <2>4
    <3>3. Output!NotBefore(sfx[0], snd)
      <4>1. ASSUME NEW chan \in Slow PROVE sfx[0][chan + 1][3] <= snd[chan + 1][3]
        <5>1. Floor[chan] = sfx[0][chan + 1][3]
          BY <2>4, <4>1 DEF Floor
        <5>2. snd[chan + 1][3] \in Floor[chan] .. chan_steps[chan] /\ Floor[chan] \in 0 .. chan_steps[chan]
          BY <1>2, <2>2
        <5> QED
          BY <1>1, <5>1, <5>2
      <4> QED
        BY <4>1 DEF Output!NotBefore
    <3>4. sfx' \in Pairs[frame]
      <4>1. sfx[0] \in [1 .. Chans -> Terms]
        BY <1>1, <3>2 DEF Sums
      <4>2. sfx' = [side \in {0, 1} |-> IF side = 1 THEN snd ELSE sfx[0]]
        BY <1>2, <2>1, <2>4
      <4>3. sfx' \in [{0, 1} -> [1 .. Chans -> Terms]]
        BY <2>2, <4>1, <4>2
      <4> QED
        BY <1>1, <2>2, <2>4, <3>1, <3>2, <3>3, <4>3 DEF Pairs
    <3>5. sfx_v = Silent \/ sfx_v \in Pairs[(frame + Output!Tags - 1) % Output!Tags]
      <4>1. <<sum, sfx_v>> \in Follow[Ago[1]]
        BY DEF OutputIInv, StagesFollow
      <4>2. Ago[1] = (frame + Output!Tags - 1) % Output!Tags /\ Ago[1] \in 0 .. Output!Tags - 1
        BY <1>1, PeriodsAgo
      <4> QED
        BY <4>1, <4>2, FollowIs
    <3>6. <<sfx_v, sfx'>> \in Follow[frame]
      BY <1>1, <3>1, <3>2, <3>4, <3>5, FollowIs
    <3>7. \A chan \in Slow : sfx'[1][chan + 1][3] <= chan_steps'[chan]
      <4> SUFFICES ASSUME NEW chan \in Slow PROVE sfx'[1][chan + 1][3] <= chan_steps'[chan]
        OBVIOUS
      <4>1. snd[chan + 1][3] \in Floor[chan] .. chan_steps[chan] /\ Floor[chan] \in 0 .. chan_steps[chan]
        BY <1>2, <2>2
      <4> QED
        BY <1>1, <3>1, <4>1
    <3>8. SidesMixed'
      BY <1>1, <1>9, <1>10, <1>11, <1>15, <2>1, <2>2, <3>1, <3>6, <3>7 DEF SidesMixed
    <3> QED
      BY <1>8, <3>1, <3>8 DEF InTime
  <2> QED
    BY <1>1, <2>3, <2>4
<1>16. CASE ~Output!next_sample(tick) /\ ~mix_next /\ ~(mix_req /\ ack)
  <2>1. UNCHANGED <<mix_req, mix_next, mix_side, sfx, sfx_v>> /\ frame' = frame
    BY <1>1, <1>16 DEF OutputTick, Output!MixBank, Output!bankVars, Output!AudioMix,
                       Output!stageVars
  <2>2. ~mix_req => sfx = Silent \/ \A chan \in Slow : sfx[1][chan + 1][3] <= chan_steps'[chan]
    <3> SUFFICES ASSUME ~mix_req, sfx # Silent, NEW chan \in Slow
                 PROVE  sfx[1][chan + 1][3] <= chan_steps'[chan]
      OBVIOUS
    <3>1. sfx \in Pairs[frame]
      BY <1>1, <1>2, FollowIs
    <3>2. sfx[1][chan + 1][3] \in Nat
      BY <1>1, <3>1, PairIs
    <3> QED
      BY <1>1, <1>2, <3>2
  <2>3. SidesMixed'
    BY <1>1, <1>2, <1>9, <1>10, <1>12, <1>16, <2>1, <2>2 DEF SidesMixed
  <2>4. mix_req => Mixed' = Mixed + 1
    BY <1>1, <1>3, <1>4, <1>16, <2>1 DEF Mixed
  <2>5. InTime'
    BY <1>5, <1>6, <1>7, <1>16, <2>1, <2>4 DEF InTime
  <2> QED
    BY <1>8, <2>3, <2>5
<1> QED
  BY <1>1, <1>13, <1>14, <1>15, <1>16

\* The stages of the volume hand on.
LEMMA StageStep ==
    ASSUME OutputIInv, NEW tick \in BOOLEAN, OutputTick(tick)
    PROVE  StagesFollow'
<1>1. /\ frame \in 0 .. Output!Tags - 1
      /\ frame' = IF Output!next_sample(tick) THEN (frame + 1) % Output!Tags ELSE frame
      /\ Output!next_sample(tick) => ~mix_req
  BY BankStep, SidesStep
<1>2. /\ <<sum, sfx_v>> \in Follow[Ago[1]] /\ <<out, sum>> \in Follow[Ago[2]]
      /\ <<snd_st, out>> \in Follow[Ago[3]]
      /\ ~mix_req => <<sfx_v, sfx>> \in Follow[frame]
  BY DEF OutputIInv, StagesFollow, SidesMixed
<1>3. Follow' = Follow
  BY SumsFixed
<1>4. CASE Output!next_sample(tick)
  <2>1. sfx_v' = sfx /\ sum' = sfx_v /\ out' = sum /\ snd_st' = out
    BY <1>4 DEF OutputTick, Output!AudioMix, Output!Serial
  <2>2. Ago'[1] = frame /\ Ago'[2] = Ago[1] /\ Ago'[3] = Ago[2]
    <3>1. Ago'[0 + 1] = Ago[0] /\ Ago'[1 + 1] = Ago[1] /\ Ago'[2 + 1] = Ago[2] /\ Ago[0] = frame
      BY <1>1, <1>4, PeriodsAgo
    <3>2. 0 + 1 = 1 /\ 1 + 1 = 2 /\ 2 + 1 = 3
      OBVIOUS
    <3> QED
      BY <3>1, <3>2
  <2> QED
    BY <1>1, <1>2, <1>3, <1>4, <2>1, <2>2 DEF StagesFollow
<1>5. CASE ~Output!next_sample(tick)
  <2>1. UNCHANGED <<sfx_v, sum, out, snd_st>>
    BY <1>5 DEF OutputTick, Output!AudioMix, Output!Serial, Output!stageVars
  <2>2. Ago' = Ago
    BY <1>1, <1>5, PeriodsAgo
  <2> QED
    BY <1>2, <1>3, <2>1, <2>2 DEF StagesFollow
<1> QED
  BY <1>4, <1>5

\* A bit is sent, and the one before it is heard: n bits of a word make n + 1.
LEMMA BitStep ==
    ASSUME OutputIInv, NEW tick \in BOOLEAN, OutputTick(tick), Output!next_bit(tick),
           NEW last, BitsSent(last), PairHeard(last)
    PROVE  /\ snd_bit' = <<snd_st[IF Slot < Bits THEN 0 ELSE 1],
                           IF Slot < Bits THEN Bits - 1 - Slot ELSE 2 * Bits - 1 - Slot>>
           /\ word' = IF Slot = 0 \/ Slot = Bits THEN << >>
                      ELSE IF Slot < Bits THEN BitsOf(snd_st[0], Slot)
                      ELSE BitsOf(snd_st[1], Slot - Bits)
           /\ heard' = [side \in Output!Sides |-> heard'[side]]
           /\ heard'[0] = BitsOf(IF Slot < Bits THEN last[0] ELSE snd_st[0], Bits)
           /\ heard'[1] = BitsOf(last[1], Bits)
<1>1. /\ Bits \in Nat \ {0} /\ Output!Sides = {0, 1}
  BY OutputSizes
<1>2. /\ Slot \in 0 .. 2 * Bits - 1
      /\ Output!lrck = IF Slot < Bits THEN 0 ELSE 1
      /\ Output!bit_ctr = IF Slot < Bits THEN Slot ELSE Slot - Bits
  BY SlotRuns
<1>3. /\ snd_bit' = <<snd_st[Output!lrck], Bits - 1 - Output!bit_ctr>>
      /\ IF Output!bit_ctr = 0
         THEN /\ word' = << >>
              /\ heard' = IF Len(word) = Bits - 1
                          THEN [heard EXCEPT ![1 - Output!lrck] = Append(word, snd_bit)] ELSE heard
         ELSE word' = Append(word, snd_bit) /\ heard' = heard
  BY DEF OutputTick, Output!Serial, Output!Converter, Output!BitOf
<1>4. /\ Slot = 0 =>
           /\ snd_bit = <<last[1], 0>>
           /\ word = BitsOf(last[1], Bits - 1)
                \/ (word = << >> /\ heard[1] = BitsOf(last[1], Bits))
      /\ Slot \in 1 .. Bits =>
           snd_bit = <<snd_st[0], Bits - Slot>> /\ word = BitsOf(snd_st[0], Slot - 1)
      /\ Slot > Bits =>
           snd_bit = <<snd_st[1], 2 * Bits - Slot>> /\ word = BitsOf(snd_st[1], Slot - Bits - 1)
  BY DEF BitsSent
<1>5. /\ heard = [side \in {0, 1} |-> heard[side]]
      /\ heard[0] = BitsOf(IF Slot <= Bits THEN last[0] ELSE snd_st[0], Bits)
      /\ Slot >= 1 => heard[1] = BitsOf(last[1], Bits)
  BY <1>1 DEF PairHeard
<1>6. snd_bit' = <<snd_st[IF Slot < Bits THEN 0 ELSE 1],
                   IF Slot < Bits THEN Bits - 1 - Slot ELSE 2 * Bits - 1 - Slot>>
  <2>1. CASE Slot < Bits
    BY <1>1, <1>2, <1>3, <2>1
  <2>2. CASE Slot >= Bits
    <3>1. Bits - 1 - (Slot - Bits) = 2 * Bits - 1 - Slot
      BY <1>1, <1>2
    <3> QED
      BY <1>1, <1>2, <1>3, <2>2, <3>1
  <2> QED
    BY <1>1, <1>2, <2>1, <2>2
<1>7. ASSUME NEW s, NEW n \in Nat
      PROVE  Append(BitsOf(s, n), <<s, Bits - (n + 1)>>) = BitsOf(s, n + 1)
  BY BitsGrow
<1>8. ASSUME NEW e \in {0, 1}, NEW v, heard' = [heard EXCEPT ![e] = v]
      PROVE  /\ e = 0 => heard'[0] = v /\ heard'[1] = heard[1]
             /\ e = 1 => heard'[1] = v /\ heard'[0] = heard[0]
             /\ heard' = [side \in {0, 1} |-> heard'[side]]
  <2>1. DOMAIN heard = {0, 1}
    BY <1>5
  <2>2. heard' = [side \in {0, 1} |-> IF side = e THEN v ELSE heard[side]]
    BY <1>8, <2>1
  <2>3. \A side \in {0, 1} : heard'[side] = IF side = e THEN v ELSE heard[side]
    BY <2>2
  <2>4. heard' = [side \in {0, 1} |-> heard'[side]]
    BY <2>2
  <2> QED
    BY <2>3, <2>4
<1>9. CASE Slot = 0
  <2>1. /\ word' = << >> /\ Output!lrck = 0
        /\ heard' = IF Len(word) = Bits - 1
                    THEN [heard EXCEPT ![1] = Append(word, snd_bit)] ELSE heard
    BY <1>1, <1>2, <1>3, <1>9
  <2>2. Append(BitsOf(last[1], Bits - 1), <<last[1], 0>>) = BitsOf(last[1], Bits)
    <3>1. Bits - 1 \in Nat /\ (Bits - 1) + 1 = Bits /\ Bits - Bits = 0
      BY <1>1
    <3> QED
      BY <1>7, <3>1
  <2>3. Len(BitsOf(last[1], Bits - 1)) = Bits - 1
    <3>1. Bits - 1 \in Nat
      BY <1>1
    <3> QED
      BY <3>1, BitsGrow
  <2>4. heard'[0] = heard[0] /\ heard' = [side \in {0, 1} |-> heard'[side]]
    <3>1. CASE heard' = heard
      BY <1>5, <3>1
    <3>2. CASE heard' = [heard EXCEPT ![1] = Append(word, snd_bit)]
      BY <1>8, <3>2
    <3> QED
      BY <2>1, <3>1, <3>2
  <2>5. heard'[1] = BitsOf(last[1], Bits)
    <3>1. CASE word = BitsOf(last[1], Bits - 1)
      <4>1. heard' = [heard EXCEPT ![1] = BitsOf(last[1], Bits)]
        BY <1>4, <1>9, <2>1, <2>2, <2>3, <3>1
      <4> QED
        BY <1>8, <4>1
    <3>2. CASE word # BitsOf(last[1], Bits - 1)
      <4>1. word = << >> /\ heard[1] = BitsOf(last[1], Bits)
        BY <1>4, <1>9, <3>2
      <4>2. Bits # 1
        <5>1. BitsOf(last[1], 0) = << >>
          BY BitsGrow
        <5> QED
          BY <3>2, <4>1, <5>1
      <4>3. Len(word) # Bits - 1
        BY <1>1, <4>1, <4>2
      <4> QED
        BY <2>1, <4>1, <4>3
    <3> QED
      BY <3>1, <3>2
  <2> QED
    BY <1>1, <1>5, <1>6, <1>9, <2>1, <2>4, <2>5
<1>10. CASE Slot = Bits
  <2>1. Len(word) = Bits - 1 /\ Append(word, snd_bit) = BitsOf(snd_st[0], Bits)
    <3>1. Bits - 1 \in Nat /\ (Bits - 1) + 1 = Bits /\ Bits - Bits = 0
      BY <1>1
    <3>2. word = BitsOf(snd_st[0], Bits - 1) /\ snd_bit = <<snd_st[0], 0>>
      BY <1>1, <1>4, <1>10, <3>1
    <3>3. Len(BitsOf(snd_st[0], Bits - 1)) = Bits - 1
      BY <3>1, BitsGrow
    <3>4. Append(BitsOf(snd_st[0], Bits - 1), <<snd_st[0], 0>>) = BitsOf(snd_st[0], Bits)
      BY <1>7, <3>1
    <3> QED
      BY <3>2, <3>3, <3>4
  <2>2. Output!lrck = 1 /\ Output!bit_ctr = 0
    BY <1>1, <1>2, <1>10
  <2>3. word' = << >> /\ heard' = [heard EXCEPT ![0] = BitsOf(snd_st[0], Bits)]
    BY <1>3, <2>1, <2>2
  <2>4. /\ heard' = [side \in {0, 1} |-> heard'[side]]
        /\ heard'[0] = BitsOf(snd_st[0], Bits) /\ heard'[1] = heard[1]
    BY <1>8, <2>3
  <2> QED
    BY <1>1, <1>5, <1>6, <1>10, <2>3, <2>4
<1>11. CASE Slot \in 1 .. Bits - 1
  <2>1. word' = Append(word, snd_bit) /\ heard' = heard
    BY <1>1, <1>2, <1>3, <1>11
  <2>2. word = BitsOf(snd_st[0], Slot - 1) /\ snd_bit = <<snd_st[0], Bits - Slot>>
    BY <1>1, <1>4, <1>11
  <2>3. Slot - 1 \in Nat /\ (Slot - 1) + 1 = Slot
    BY <1>1, <1>11
  <2>4. Append(BitsOf(snd_st[0], Slot - 1), <<snd_st[0], Bits - Slot>>) = BitsOf(snd_st[0], Slot)
    BY <1>7, <2>3
  <2>5. word' = BitsOf(snd_st[0], Slot)
    BY <2>1, <2>2, <2>4
  <2> QED
    BY <1>1, <1>5, <1>6, <1>11, <2>1, <2>5
<1>12. CASE Slot > Bits
  <2>1. word' = Append(word, snd_bit) /\ heard' = heard
    BY <1>1, <1>2, <1>3, <1>12
  <2>2. PICK n \in Nat : n = Slot - Bits - 1
    BY <1>1, <1>2, <1>12
  <2>3. n + 1 = Slot - Bits /\ Bits - (n + 1) = 2 * Bits - Slot
    BY <1>1, <1>2, <2>2
  <2>4. word = BitsOf(snd_st[1], n) /\ snd_bit = <<snd_st[1], Bits - (n + 1)>>
    BY <1>4, <1>12, <2>2, <2>3
  <2>5. word' = BitsOf(snd_st[1], Slot - Bits)
    BY <1>7, <2>1, <2>3, <2>4
  <2>6. Slot # 0 /\ Slot # Bits /\ ~(Slot < Bits) /\ ~(Slot <= Bits) /\ Slot >= 1
    BY <1>1, <1>2, <1>12
  <2> QED
    BY <1>1, <1>5, <1>6, <2>1, <2>5, <2>6
<1> QED
  BY <1>1, <1>2, <1>9, <1>10, <1>11, <1>12

\* What is sent and heard, from clock to clock.
LEMMA WordStep ==
    ASSUME OutputIInv, NEW tick \in BOOLEAN, OutputTick(tick)
    PROVE  WordsFollow' /\ Len(word') < Bits
<1>1. /\ frame \in 0 .. Output!Tags - 1
      /\ frame' = IF Output!next_sample(tick) THEN (frame + 1) % Output!Tags ELSE frame
  BY BankStep
<1>2. Follow' = Follow
  BY SumsFixed
<1>3. /\ Slot \in 0 .. 2 * Bits - 1 /\ Bits \in Nat \ {0}
      /\ Slot' = IF Output!next_sample(tick) THEN 0
                 ELSE IF Output!next_bit(tick) THEN Slot + 1 ELSE Slot
      /\ Output!next_sample(tick) <=> Output!next_bit(tick) /\ Slot = 2 * Bits - 1
  BY SlotRuns, OutputSizes
<1>4. PICK last : <<last, snd_st>> \in Follow[Ago[4]] /\ BitsSent(last) /\ PairHeard(last)
  BY DEF OutputIInv, WordsFollow
<1>5. CASE ~Output!next_bit(tick)
  <2>1. UNCHANGED <<snd_bit, snd_st, word, heard>> /\ Slot' = Slot /\ frame' = frame
    BY <1>1, <1>3, <1>5 DEF OutputTick, Output!Serial, Output!Converter
  <2>2. Ago' = Ago
    BY <1>1, <2>1, PeriodsAgo
  <2>3. BitsSent(last)' /\ PairHeard(last)'
    BY <1>4, <2>1 DEF BitsSent, PairHeard, BitsOf, Output!Sides
  <2>4. WordsFollow'
    BY <1>2, <1>4, <2>1, <2>2, <2>3 DEF WordsFollow
  <2>5. Len(word') < Bits
    BY <2>1 DEF OutputIInv, Output!TypeOK
  <2> QED
    BY <2>4, <2>5
<1>6. ASSUME Output!next_bit(tick)
      PROVE  /\ snd_bit' = <<snd_st[IF Slot < Bits THEN 0 ELSE 1],
                             IF Slot < Bits THEN Bits - 1 - Slot ELSE 2 * Bits - 1 - Slot>>
             /\ word' = IF Slot = 0 \/ Slot = Bits THEN << >>
                        ELSE IF Slot < Bits THEN BitsOf(snd_st[0], Slot)
                        ELSE BitsOf(snd_st[1], Slot - Bits)
             /\ heard' = [side \in Output!Sides |-> heard'[side]]
             /\ heard'[0] = BitsOf(IF Slot < Bits THEN last[0] ELSE snd_st[0], Bits)
             /\ heard'[1] = BitsOf(last[1], Bits)
  BY <1>4, <1>6, BitStep
<1>7. ASSUME NEW s, NEW n \in Nat
      PROVE  BitsOf(s, 0) = << >> /\ Len(BitsOf(s, n)) = n
  BY BitsGrow
<1>8. Output!next_bit(tick) => Len(word') < Bits
  <2> SUFFICES ASSUME Output!next_bit(tick) PROVE Len(word') < Bits
    OBVIOUS
  <2>1. CASE Slot = 0 \/ Slot = Bits
    BY <1>3, <1>6, <2>1
  <2>2. CASE Slot # 0 /\ Slot < Bits
    <3>1. word' = BitsOf(snd_st[0], Slot) /\ Slot \in Nat
      BY <1>3, <1>6, <2>2
    <3> QED
      BY <1>3, <1>7, <2>2, <3>1
  <2>3. CASE Slot > Bits
    <3>1. word' = BitsOf(snd_st[1], Slot - Bits) /\ Slot - Bits \in Nat /\ Slot - Bits < Bits
      BY <1>3, <1>6, <2>3
    <3> QED
      BY <1>3, <1>7, <2>3, <3>1
  <2> QED
    BY <1>3, <2>1, <2>2, <2>3
<1>9. CASE Output!next_bit(tick) /\ ~Output!next_sample(tick)
  <2>1. Slot' = Slot + 1 /\ Slot < 2 * Bits - 1 /\ frame' = frame /\ snd_st' = snd_st
    BY <1>1, <1>3, <1>9 DEF OutputTick, Output!Serial
  <2>2. Ago' = Ago
    BY <1>1, <2>1, PeriodsAgo
  <2>3. \A s, n : BitsOf(s, n)' = BitsOf(s, n)
    BY DEF BitsOf
  <2>4. PairHeard(last)'
    <3>1. heard'[0] = BitsOf(IF Slot' <= Bits THEN last[0] ELSE snd_st[0], Bits)
      BY <1>3, <1>6, <1>9, <2>1
    <3> QED
      BY <1>6, <1>9, <2>1, <3>1 DEF PairHeard, BitsOf, Output!Sides
  <2>5. BitsSent(last)'
    <3>1. Slot' # 0
      BY <1>3, <2>1
    <3>2. CASE Slot < Bits
      <4>1. Slot' \in 1 .. Bits /\ ~(Slot' > Bits) /\ Slot' - 1 = Slot /\ Bits - Slot' = Bits - 1 - Slot
        BY <1>3, <2>1, <3>2
      <4>2. word' = BitsOf(snd_st[0], Slot)
        BY <1>3, <1>6, <1>7, <1>9, <3>2
      <4>3. snd_bit' = <<snd_st[0], Bits - 1 - Slot>>
        BY <1>6, <1>9, <3>2
      <4> QED
        BY <2>1, <3>1, <4>1, <4>2, <4>3 DEF BitsSent, BitsOf
    <3>3. CASE Slot >= Bits
      <4>1. /\ ~(Slot' \in 1 .. Bits) /\ Slot' - Bits - 1 = Slot - Bits
            /\ 2 * Bits - Slot' = 2 * Bits - 1 - Slot /\ ~(Slot < Bits)
        BY <1>3, <2>1, <3>3
      <4>2. word' = BitsOf(snd_st[1], Slot - Bits)
        <5>1. CASE Slot = Bits
          <6>1. Slot - Bits = 0
            BY <1>3, <5>1
          <6> QED
            BY <1>6, <1>7, <1>9, <5>1, <6>1
        <5>2. CASE Slot # Bits
          BY <1>3, <1>6, <1>9, <3>3, <5>2
        <5> QED
          BY <5>1, <5>2
      <4>3. snd_bit' = <<snd_st[1], 2 * Bits - 1 - Slot>>
        BY <1>6, <1>9, <4>1
      <4> QED
        BY <2>1, <3>1, <4>1, <4>2, <4>3 DEF BitsSent, BitsOf
    <3> QED
      BY <1>3, <3>2, <3>3
  <2> QED
    BY <1>2, <1>4, <1>8, <1>9, <2>1, <2>2, <2>4, <2>5 DEF WordsFollow
<1>10. CASE Output!next_sample(tick)
  <2>1. Slot = 2 * Bits - 1 /\ Slot' = 0 /\ Output!next_bit(tick) /\ snd_st' = out
    BY <1>3, <1>10 DEF OutputTick, Output!Serial
  <2>2. Ago'[4] = Ago[3]
    <3>1. Ago'[3 + 1] = Ago[3]
      BY <1>1, <1>10, PeriodsAgo
    <3> QED
      BY <3>1
  <2>3. <<snd_st, out>> \in Follow[Ago[3]]
    BY DEF OutputIInv, StagesFollow
  <2>4. ~(Slot < Bits) /\ Slot # 0 /\ 2 * Bits - 1 - Slot = 0
    BY <1>3, <2>1
  <2>5. snd_bit' = <<snd_st[1], 0>> /\ heard'[0] = BitsOf(snd_st[0], Bits)
    BY <1>6, <2>1, <2>4
  <2>6. word' = BitsOf(snd_st[1], Bits - 1)
    <3>1. CASE Bits = 1
      <4>1. Slot = Bits /\ Bits - 1 = 0
        BY <1>3, <2>1, <3>1
      <4> QED
        BY <1>6, <1>7, <2>1, <4>1
    <3>2. CASE Bits # 1
      <4>1. Slot # Bits /\ Slot - Bits = Bits - 1
        BY <1>3, <2>1, <3>2
      <4> QED
        BY <1>6, <2>1, <2>4, <4>1
    <3> QED
      BY <3>1, <3>2
  <2>7. PICK pair : pair = snd_st
    OBVIOUS
  <2>8. BitsSent(pair)'
    <3>1. ~(Slot' \in 1 .. Bits) /\ ~(Slot' > Bits)
      BY <1>3, <2>1
    <3>2. snd_bit' = <<pair[1], 0>> /\ word' = BitsOf(pair[1], Bits - 1)
      BY <2>5, <2>6, <2>7
    <3> QED
      BY <3>1, <3>2 DEF BitsSent, BitsOf
  <2>9. PairHeard(pair)'
    <3>1. Slot' <= Bits /\ ~(Slot' >= 1)
      BY <1>3, <2>1
    <3>2. heard'[0] = BitsOf(pair[0], Bits) /\ heard' = [side \in Output!Sides |-> heard'[side]]
      BY <1>6, <2>1, <2>5, <2>7
    <3> QED
      BY <3>1, <3>2 DEF PairHeard, BitsOf, Output!Sides
  <2>10. <<pair, snd_st'>> \in Follow'[Ago'[4]]
    BY <1>2, <2>1, <2>2, <2>3, <2>7
  <2>11. WordsFollow'
    BY <2>8, <2>9, <2>10 DEF WordsFollow
  <2> QED
    BY <1>8, <2>1, <2>11
<1> QED
  BY <1>5, <1>9, <1>10

LEMMA InitOutput == Output!Init => OutputIInv
<1> SUFFICES ASSUME Output!Init PROVE OutputIInv
  OBVIOUS
<1>1. /\ Chans \in Nat \ {0} /\ Bits \in Nat \ {0} /\ PerBit \in Nat \ {0} /\ MinTick \in Nat \ {0}
      /\ Output!Phases \in Nat \ {0} /\ Output!Tags = 8 /\ Output!Sides = {0, 1}
  BY OutputSizes
<1>2. /\ out_phase = 0 /\ out_since = 1 /\ mix_req = FALSE /\ mix_next = FALSE /\ mix_side = 0
      /\ state = 0 /\ acc = << >> /\ ack = FALSE /\ sfx = Silent /\ sfx_v = Silent
      /\ sum = Silent /\ out = Silent /\ snd_st = Silent /\ snd_bit = << << >>, 0 >>
      /\ frame = 0 /\ chan_steps = [chan \in Slow |-> 0] /\ word = << >> /\ heard = Output!Both(Output!WordOf(<< >>))
  BY DEF Output!Init, Silent, Output!Silence
<1>3. Output!TypeOK
  <2>1. /\ out_phase \in 0 .. Output!Phases - 1 /\ out_since \in 1 .. MinTick + 1
        /\ mix_side \in Output!Sides /\ state \in 0 .. 4 * Chans + 1
        /\ frame \in 0 .. Output!Tags - 1
    BY <1>1, <1>2
  <2>4. chan_steps \in [Slow -> 0 .. MaxSteps]
    BY <1>2, SlowChannels
  <2>2. {mix_req, mix_next, ack} \subseteq BOOLEAN
    BY <1>2
  <2>3. Len(acc) <= Chans /\ Len(word) < Bits
    BY <1>1, <1>2
  <2> QED
    BY <2>1, <2>2, <2>3, <2>4 DEF Output!TypeOK
<1>4. ChannelsAdded
  <2>1. state # 4 * Chans + 1 /\ state % 4 = 0 /\ state \div 4 = 0
    BY <1>1, <1>2
  <2>2. acc \in Seq(Terms) /\ Len(acc) = 0
    BY <1>2
  <2> QED
    BY <1>2, <2>1, <2>2 DEF ChannelsAdded
<1>5. <<Silent, Silent>> \in Follow[frame] /\ \A n \in 0 .. 5 : <<Silent, Silent>> \in Follow[Ago[n]]
  <2>1. frame \in 0 .. Output!Tags - 1 /\ \A n \in 0 .. 5 : Ago[n] \in 0 .. Output!Tags - 1
    BY <1>1, <1>2, PeriodsAgo
  <2> QED
    BY <2>1, FollowIs
<1>6. SidesMixed /\ InTime /\ StagesFollow
  <2>1. DOMAIN sfx = Output!Sides
    BY <1>2 DEF Silent, Output!Both
  <2>2. \A chan \in Slow : Floor[chan] \in 0 .. chan_steps[chan]
    BY <1>2 DEF Floor
  <2> QED
    BY <1>2, <1>5, <2>1, <2>2 DEF SidesMixed, InTime, StagesFollow
<1>7. Slot = 0
  <2>1. 0 \in 0 .. Output!Phases - 1 /\ ~(0 >= PerBit)
    BY <1>1
  <2>2. 0 \div PerBit \in 0 .. 2 * Bits - 1 /\ ~(0 \div PerBit >= 1)
    BY <2>1, Places
  <2> QED
    BY <1>1, <1>2, <2>2 DEF Slot
<1>8. Silent[0] = << >> /\ Silent[1] = << >> /\ BitsOf(<< >>, Bits) = Output!WordOf(<< >>)
  BY <1>1 DEF Silent, Output!Both, Output!Silence, BitsOf, Output!WordOf
<1>9. BitsSent(Silent)
  <2>1. ~(Slot \in 1 .. Bits) /\ ~(Slot > Bits)
    BY <1>1, <1>7
  <2>2. heard[1] = BitsOf(Silent[1], Bits)
    BY <1>1, <1>2, <1>8 DEF Output!Both
  <2> QED
    BY <1>2, <1>8, <2>1, <2>2 DEF BitsSent
<1>10. PairHeard(Silent)
  BY <1>1, <1>2, <1>7, <1>8 DEF PairHeard, Output!Both
<1>11. WordsFollow
  BY <1>2, <1>5, <1>9, <1>10 DEF WordsFollow
<1> QED
  BY <1>3, <1>4, <1>6, <1>11 DEF OutputIInv

LEMMA NextOutput == OutputIInv /\ [Output!Clock]_outputVars => OutputIInv'
<1> SUFFICES ASSUME OutputIInv, [Output!Clock]_outputVars PROVE OutputIInv'
  OBVIOUS
<1>1. CASE UNCHANGED outputVars
  <2>1. /\ Slot' = Slot /\ Mixed' = Mixed /\ Ago' = Ago
        /\ Silent' = Silent /\ Sums' = Sums /\ Follow' = Follow
    BY <1>1, SumsFixed DEF outputVars, Slot, Mixed, Ago, Output!Tags
  <2>2. Floor' = Floor /\ Span' = Span /\ Terms' = Terms
    BY <1>1, <2>1 DEF outputVars, Floor, Span, Terms, Output!Sides
  <2>3. Output!TypeOK' /\ ChannelsAdded' /\ InTime'
    BY <1>1, <2>1, <2>2 DEF outputVars, OutputIInv, Output!TypeOK, ChannelsAdded, InTime
  <2>4. SidesMixed' /\ StagesFollow'
    BY <1>1, <2>1, <2>2 DEF outputVars, OutputIInv, SidesMixed, StagesFollow, Output!NotBefore,
                            Output!Sides
  <2>5. WordsFollow'
    <3>1. PICK last : <<last, snd_st>> \in Follow[Ago[4]] /\ BitsSent(last) /\ PairHeard(last)
      BY DEF OutputIInv, WordsFollow
    <3>2. BitsSent(last)' /\ PairHeard(last)'
      BY <1>1, <2>1, <3>1 DEF outputVars, BitsSent, PairHeard, BitsOf, Output!Sides
    <3>3. snd_st' = snd_st
      BY <1>1 DEF outputVars
    <3> QED
      BY <2>1, <3>1, <3>2, <3>3 DEF WordsFollow
  <2> QED
    BY <2>3, <2>4, <2>5 DEF OutputIInv
<1>2. CASE Output!Clock
  <2>1. PICK tick \in BOOLEAN : OutputTick(tick)
    BY <1>2 DEF Output!Clock, OutputTick
  <2>2. Output!TypeOK'
    BY <2>1, SlotRuns, BankStep, MixingStep, WordStep DEF Output!TypeOK
  <2> QED
    BY <2>1, <2>2, MixingStep, SidesStep, StageStep, WordStep DEF OutputIInv
<1> QED
  BY <1>1, <1>2

\* A pair is that of the period before.

LEMMA SumIs ==
    ASSUME NEW side \in Output!Sides, NEW f \in 0 .. Output!Tags - 1, NEW s \in Sums[side][f]
    PROVE  Output!IsMix(s, side, f)
<1>1. /\ s \in [1 .. Chans -> Terms]
      /\ \A c \in 1 .. Chans : /\ s[c][1] = c - 1 /\ s[c][2] = side
                               /\ c - 1 \notin Slow => s[c][3] = f
  BY DEF Sums
<1>2. ASSUME NEW c \in 1 .. Chans PROVE s[c] = <<c - 1, side, s[c][3]>>
  <2>1. s[c] \in Int \X Output!Sides \X Nat
    BY <1>1 DEF Terms
  <2>2. s[c] = <<s[c][1], s[c][2], s[c][3]>>
    BY <2>1
  <2> QED
    BY <1>1, <2>2
<1>3. s = [c \in 1 .. Chans |-> <<c - 1, side, s[c][3]>>]
  BY <1>1, <1>2
<1> QED
  BY <1>1, <1>3 DEF Output!IsMix

\* What was heard tells which sum it was.
LEMMA SaidOnce ==
    ASSUME NEW side \in Output!Sides, NEW s, heard[side] = BitsOf(s, Bits)
    PROVE  Output!Sum(side) = s /\ heard[side] = Output!WordOf(Output!Sum(side))
<1>1. 1 \in 1 .. Bits
  BY OutputSizes
<1>2. heard[side][1] = <<s, Bits - 1>>
  BY <1>1 DEF BitsOf
<1>3. BitsOf(s, Bits) = Output!WordOf(s)
  BY DEF BitsOf, Output!WordOf
<1> QED
  BY <1>2, <1>3 DEF Output!Sum

\* A pair is that of the period before.
LEMMA PairKept == OutputIInv => Output!Paired
<1> SUFFICES ASSUME OutputIInv, Output!pairThere
             PROVE  \/ \A side \in Output!Sides : ~Output!Spoken(side)
                    \/ /\ \E f \in 0 .. Output!Tags - 1 :
                              \A side \in Output!Sides : Output!Heard(side, f)
                       /\ Output!NotBefore(Output!Sum(0), Output!Sum(1))
  BY DEF Output!Paired
<1>1. /\ Bits \in Nat \ {0} /\ PerBit \in Nat \ {0} /\ Output!Sides = {0, 1}
      /\ Output!Phases \div 2 = Bits * PerBit /\ Output!Tags = 8
      /\ out_phase \in 0 .. Output!Phases - 1 /\ frame \in 0 .. Output!Tags - 1
  BY OutputSizes DEF OutputIInv, Output!TypeOK
<1>2. Slot \in 1 .. Bits - 1
  <2>1. out_phase < Bits * PerBit /\ out_phase >= PerBit
    BY <1>1 DEF Output!pairThere, Output!lrck
  <2>2. /\ Slot \in 0 .. 2 * Bits - 1
        /\ out_phase < Bits * PerBit <=> Slot < Bits
        /\ out_phase >= PerBit <=> Slot >= 1
    BY <1>1, Places DEF Slot
  <2> QED
    BY <1>1, <2>1, <2>2
<1>3. PICK last : <<last, snd_st>> \in Follow[Ago[4]] /\ PairHeard(last)
  BY DEF OutputIInv, WordsFollow
<1>4. \A side \in {0, 1} : heard[side] = BitsOf(last[side], Bits)
  <2>1. Slot <= Bits /\ Slot >= 1
    BY <1>1, <1>2
  <2> QED
    BY <1>3, <2>1 DEF PairHeard
<1>5. \A side \in {0, 1} :
          Output!Sum(side) = last[side] /\ heard[side] = Output!WordOf(Output!Sum(side))
  BY <1>1, <1>4, SaidOnce
<1>6. CASE last = Silent
  <2>1. \A side \in {0, 1} : last[side] = Output!Silence
    BY <1>1, <1>6 DEF Silent, Output!Both
  <2>2. \A side \in {0, 1} : heard[side] = Output!WordOf(Output!Silence)
    BY <1>5, <2>1
  <2> QED
    BY <1>1, <2>2 DEF Output!Spoken
<1>7. CASE last # Silent
  <2>1. Ago[4] \in 0 .. 7
    BY <1>1, PeriodsAgo
  <2>2. PICK f \in 0 .. 7 : f = (Ago[4] + 8 - 1) % 8
    BY <2>1
  <2>3. last \in Pairs[f]
    BY <1>1, <1>3, <1>7, <2>1, <2>2, FollowIs
  <2>4. last[0] \in Sums[0][f] /\ last[1] \in Sums[1][f] /\ Output!NotBefore(last[0], last[1])
    BY <1>1, <2>3, PairIs
  <2>5. Output!IsMix(last[0], 0, f) /\ Output!IsMix(last[1], 1, f)
    BY <1>1, <2>4, SumIs
  <2>6. \A side \in {0, 1} : Output!Heard(side, f)
    <3>1. \A side \in {0, 1} : Output!IsMix(last[side], side, f)
      BY <2>5
    <3> QED
      BY <1>5, <3>1 DEF Output!Heard
  <2> QED
    BY <1>1, <1>5, <2>4, <2>6
<1> QED
  BY <1>6, <1>7

\* The left samples follow one another.
LEMMA LeftInOrder ==
    OutputIInv /\ [Output!Clock]_outputVars =>
        [Output!LeftComes /\ Output!Spoken(0) =>
             /\ \E f \in 0 .. Output!Tags - 1 :
                    Output!Heard(0, f) /\ Output!Heard(0, (f + 1) % Output!Tags)'
             /\ Output!NotBefore(Output!Sum(1), Output!Sum(0)')]_outputVars
<1> SUFFICES ASSUME OutputIInv, Output!Clock, Output!LeftComes, Output!Spoken(0)
             PROVE  /\ \E f \in 0 .. Output!Tags - 1 :
                           Output!Heard(0, f) /\ Output!Heard(0, (f + 1) % Output!Tags)'
                    /\ Output!NotBefore(Output!Sum(1), Output!Sum(0)')
  OBVIOUS
<1>1. PICK tick \in BOOLEAN : OutputTick(tick)
  BY DEF Output!Clock, OutputTick
<1>2. /\ Chans \in Nat \ {0} /\ Bits \in Nat \ {0} /\ PerBit \in Nat \ {0}
      /\ Bits * PerBit \in Nat \ {0}
      /\ Output!Phases \div 2 = Bits * PerBit /\ Output!Phases \in Nat \ {0}
      /\ Output!Tags = 8 /\ Output!Sides = {0, 1}
      /\ out_phase \in 0 .. Output!Phases - 1 /\ frame \in 0 .. Output!Tags - 1
  BY OutputSizes DEF OutputIInv, Output!TypeOK
<1>3. out_phase' # out_phase /\ out_phase' = Bits * PerBit + PerBit
  BY <1>2 DEF Output!LeftComes
<1>4. tick /\ out_phase + 1 = Bits * PerBit + PerBit
  <2>1. tick /\ out_phase' = (out_phase + 1) % Output!Phases
    BY <1>1, <1>3 DEF OutputTick, Output!Phase
  <2>2. (out_phase + 1) % Output!Phases = IF out_phase = Output!Phases - 1 THEN 0 ELSE out_phase + 1
    <3>1. out_phase + 1 \in 0 .. 3 * Output!Phases - 1
      BY <1>2
    <3> QED
      BY <1>2, <3>1, Remainder
  <2>3. out_phase' # 0
    BY <1>2, <1>3
  <2> QED
    BY <1>3, <2>1, <2>2, <2>3
<1>5. Slot = Bits /\ Output!next_bit(tick)
  BY <1>2, <1>4, Places DEF Slot, Output!next_bit
<1>6. PICK last : <<last, snd_st>> \in Follow[Ago[4]] /\ BitsSent(last) /\ PairHeard(last)
  BY DEF OutputIInv, WordsFollow
<1>7. /\ heard[0] = BitsOf(last[0], Bits) /\ heard[1] = BitsOf(last[1], Bits)
      /\ heard'[0] = BitsOf(snd_st[0], Bits)
  <2>1. heard'[0] = BitsOf(snd_st[0], Bits)
    BY <1>1, <1>2, <1>5, <1>6, BitStep
  <2>2. heard[0] = BitsOf(last[0], Bits) /\ heard[1] = BitsOf(last[1], Bits)
    BY <1>2, <1>5, <1>6 DEF PairHeard
  <2> QED
    BY <2>1, <2>2
<1>8. /\ Output!Sum(0) = last[0] /\ heard[0] = Output!WordOf(Output!Sum(0))
      /\ Output!Sum(1) = last[1]
  BY <1>2, <1>7, SaidOnce
<1>9. Output!Sum(0)' = snd_st[0] /\ heard'[0] = Output!WordOf(snd_st[0])
  <2>1. 1 \in 1 .. Bits
    BY <1>2
  <2>2. heard'[0][1] = <<snd_st[0], Bits - 1>>
    BY <1>7, <2>1 DEF BitsOf
  <2> QED
    BY <1>7, <2>2 DEF Output!Sum, BitsOf, Output!WordOf
<1>10. last # Silent
  <2>1. last = Silent => last[0] = Output!Silence
    BY <1>2 DEF Silent, Output!Both
  <2> QED
    BY <1>8, <2>1 DEF Output!Spoken
<1>11. Ago[4] \in 0 .. 7
  BY <1>2, PeriodsAgo
<1>12. PICK f \in 0 .. 7 : f = (Ago[4] + 8 - 1) % 8 /\ (f + 1) % 8 = Ago[4]
  BY <1>11
<1>13. last \in Pairs[f] /\ snd_st \in Pairs[Ago[4]] /\ Output!NotBefore(last[1], snd_st[0])
  BY <1>2, <1>6, <1>10, <1>11, <1>12, FollowIs
<1>14. Output!IsMix(last[0], 0, f) /\ Output!IsMix(snd_st[0], 0, Ago[4])
  <2>1. last[0] \in Sums[0][f] /\ snd_st[0] \in Sums[0][Ago[4]]
    BY <1>2, <1>11, <1>13, PairIs
  <2> QED
    BY <1>2, <1>11, <2>1, SumIs
<1>15. Output!Heard(0, f)
  BY <1>8, <1>14 DEF Output!Heard
<1>16. Output!Heard(0, (f + 1) % 8)'
  BY <1>9, <1>12, <1>14 DEF Output!Heard, Output!WordOf, Output!IsMix, Output!Sum
<1> QED
  BY <1>2, <1>8, <1>9, <1>13, <1>15, <1>16
-----------------------------------------------------------------------------
(***************************************************************************)
(* The parts side by side.                                                 *)
(***************************************************************************)
SoundIInv == IInv /\ ChannelIInv /\ MusicIInv /\ OutputIInv

LEMMA OneAtATime ==
    [SoundNext]_allVars =>
        /\ [Clock]_vars /\ [Channel!Clock]_channelVars
        /\ [Music!Next]_musicVars /\ [Output!Clock]_outputVars
<1> SUFFICES ASSUME [SoundNext]_allVars
             PROVE  /\ [Clock]_vars /\ [Channel!Clock]_channelVars
                    /\ [Music!Next]_musicVars /\ [Output!Clock]_outputVars
  OBVIOUS
<1>1. CASE DividerClock
  BY <1>1 DEF DividerClock
<1>2. CASE ChannelClock
  BY <1>2 DEF ChannelClock
<1>3. CASE MusicStep
  BY <1>3 DEF MusicStep
<1>4. CASE OutputClock
  BY <1>4 DEF OutputClock
<1>5. CASE UNCHANGED allVars
  BY <1>5 DEF allVars
<1> QED
  BY <1>1, <1>2, <1>3, <1>4, <1>5 DEF SoundNext

\* The invariant that the properties of the divider, of a channel, of the ring
\* and of the output follow from holds in every state.
THEOREM SoundInvariant == SoundSpec => []SoundIInv
<1>1. SoundInit => SoundIInv
  BY InitInvariant, InitChannel, InitMusic, InitOutput DEF SoundInit, SoundIInv
<1>2. SoundIInv /\ [SoundNext]_allVars => SoundIInv'
  BY OneAtATime, StepInvariant, NextChannel, NextMusic, NextOutput DEF SoundIInv
<1> QED
  BY <1>1, <1>2, PTL DEF SoundSpec

\* The channel of the effects (sfx_chan) hands over its samples in order,
\* none is written over, and its pitch leaves out the periods it should, in
\* whatever clock the firmware looks and writes and a period begins.
THEOREM EffectsKept == SoundSpec => EffectsInOrder
<1>1. SoundIInv => Channel!TypeOK /\ Channel!TakenInOrder /\ Channel!NeverOverwrites
  BY ChannelKept DEF SoundIInv
<1>2. SoundIInv /\ [SoundNext]_allVars =>
        [since' = 1 /\ steps # Channel!Unknown
            => (pitch_ctr = 1 <=> pitch > 0 /\ steps = pitch)]_channelVars
  BY OneAtATime, PitchStep DEF SoundIInv
<1>3. SoundSpec => [](Channel!TypeOK /\ Channel!TakenInOrder /\ Channel!NeverOverwrites)
  BY <1>1, SoundInvariant, PTL
<1>4. SoundSpec => Channel!SkipsOneOf
  BY <1>2, SoundInvariant, PTL DEF SoundSpec, Channel!SkipsOneOf, channelVars, Channel!vars
<1> QED
  BY <1>3, <1>4 DEF EffectsInOrder

\* The ring of the music (mdp_pcm_buff) begins no block that does not fit,
\* and what goes through it is a stream: samples come out in the order of
\* their bytes, none lost, repeated or torn, in whatever clock the drive
\* writes, looks, starts or stops.
THEOREM MusicKept == SoundSpec => MusicInOrder
<1>1. SoundIInv => RingFits
  BY RoomKept DEF SoundIInv
<1>2. SoundInit => Music!Stream!Init
  BY InitStream DEF SoundInit
<1>3. SoundIInv /\ [SoundNext]_allVars => [Music!Stream!Next]_<<Music!unread, pcm>>
  BY OneAtATime, StepStream DEF SoundIInv
<1>4. SoundSpec => []RingFits
  BY <1>1, SoundInvariant, PTL
<1>5. SoundSpec => Music!RefinesStream
  BY <1>2, <1>3, SoundInvariant, PTL DEF SoundSpec, Music!RefinesStream, Music!Stream!Spec
<1> QED
  BY <1>4, <1>5 DEF MusicInOrder

\* What the converter receives as left and right are the sums of all channels,
\* each once and panned for its own side (mix_bank, mix_mono, audio_mix_mono,
\* dac_i2s), period after period, whatever the number of clocks between two
\* ticks is: over the same samples of the channels of the full rate, and over
\* samples of the others that do not go back, whenever their clocks fall.
THEOREM PairsKept == SoundSpec => PairsInOrder
<1>1. SoundIInv => Output!TypeOK /\ Output!Paired
  BY PairKept DEF SoundIInv, OutputIInv
<1>2. SoundIInv /\ [SoundNext]_allVars =>
        [Output!LeftComes /\ Output!Spoken(0) =>
             /\ \E f \in 0 .. Output!Tags - 1 :
                    Output!Heard(0, f) /\ Output!Heard(0, (f + 1) % Output!Tags)'
             /\ Output!NotBefore(Output!Sum(1), Output!Sum(0)')]_(Output!vars)
  <2>1. UNCHANGED outputVars => UNCHANGED Output!vars
    BY DEF outputVars, Output!vars, Output!clockVars, Output!bankVars, Output!monoVars,
           Output!stageVars
  <2> QED
    BY <2>1, OneAtATime, LeftInOrder DEF SoundIInv
<1>3. SoundSpec => [](Output!TypeOK /\ Output!Paired)
  BY <1>1, SoundInvariant, PTL
<1>4. SoundSpec => Output!InOrder
  BY <1>2, SoundInvariant, PTL DEF SoundSpec, Output!InOrder
<1> QED
  BY <1>3, <1>4 DEF PairsInOrder
=============================================================================
