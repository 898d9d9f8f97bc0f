---------------------------- MODULE Frame_proofs ----------------------------
(***************************************************************************)
(* Proofs about the block cache (VramCache) and the frames that are built  *)
(* with it (Frame), for every number of slots, every budget, all objects,  *)
(* animations and pictures, and any number of frames.                      *)
(*                                                                         *)
(* The cache first, by itself.  Frame building uses it only in the ways    *)
(* VramCache allows, so what is proved of it holds while frames are built; *)
(* an object that was never refused a picture shows its own animation; and *)
(* the sprites of the table have their blocks in the video memory, from    *)
(* the moment they are drawn until the screen shows them.                  *)
(***************************************************************************)
EXTENDS Frame, FiniteSetTheorems, TLAPS

(***************************************************************************)
(* The block cache.                                                        *)
(***************************************************************************)
USE CacheAssumption

\* The slots the budget allows are slots of the cache.
LEMMA UsableSlots ==
    ASSUME TypeOK
    PROVE  Usable \subseteq Slot /\ \A s \in Usable : s < MaxBudget
BY DEF TypeOK, Usable, Slot

\* The budget is never more than the largest one.
LEMMA CappedType == \A n \in Nat : Capped(n) \in 0 .. MaxBudget
BY DEF Capped

\* Subtracting modulo 2^16 what is not more is plain subtraction.
LEMMA RemainingWords ==
    ASSUME NEW t \in 0 .. DmaMod - 1
    PROVE  /\ (DmaBudget + DmaMod - t) % DmaMod \in 0 .. DmaMod - 1
           /\ t <= DmaBudget => (DmaBudget + DmaMod - t) % DmaMod = DmaBudget - t
<1>1. DmaBudget + DmaMod - t \in Nat
  OBVIOUS
<1>2. (DmaBudget + DmaMod - t) % DmaMod \in 0 .. DmaMod - 1
  BY <1>1
<1>3. ASSUME t <= DmaBudget PROVE (DmaBudget + DmaMod - t) % DmaMod = DmaBudget - t
  BY <1>1, <1>3
<1> QED
  BY <1>2, <1>3

\* The age counts up modulo 2^16.
LEMMA NextAge ==
    ASSUME NEW a \in 0 .. AgeMod - 1
    PROVE  /\ (a + 1) % AgeMod \in 0 .. AgeMod - 1
           /\ (a + 1) % AgeMod <= a + 1
           /\ a + 1 < AgeMod => (a + 1) % AgeMod = a + 1
<1>1. CASE a + 1 < AgeMod
  BY <1>1
<1>2. CASE a + 1 = AgeMod
  <2>1. (a + 1) % AgeMod \in 0 .. AgeMod - 1
    OBVIOUS
  <2> QED
    BY <1>2, <2>1
<1> QED
  BY <1>1, <1>2

\* Initially nothing is cached, queued or owed.
LEMMA InitIInv == Init => IInv
<1> SUFFICES ASSUME Init PROVE IInv
  OBVIOUS
<1>1. TypeOK
  <2>1. 0 \in 0 .. AgeMod - 1 /\ 0 \in 0 .. DmaMod - 1 /\ 0 \in 0 .. MaxBudget
    OBVIOUS
  <2> QED
    <3>1. /\ block_num \in [Slot -> Block \cup {NoBlock}] /\ usage \subseteq Slot
          /\ age \in [Slot -> 0 .. AgeMod - 1] /\ last_use \in [Slot -> Nat]
          /\ vram \in [Slot -> Block \cup {NoBlock}]
      BY <2>1 DEF Init
    <3>2. /\ dma_cmd \in Seq(Slot) /\ staged \in Seq(Block) /\ done \in 0 .. Len(dma_cmd)
      BY DEF Init
    <3> QED
      BY <2>1, <3>1, <3>2 DEF Init, TypeOK
<1>2. UniqueBlocks /\ BeyondBudgetEmpty /\ Coherent
  BY DEF Init, UniqueBlocks, BeyondBudgetEmpty, Coherent, Slot
<1>3. Commands /\ Port /\ Bandwidth
  BY DEF Init, Commands, Port, Bandwidth
<1>4. Ages
  BY DEF Init, Ages, Slot
<1> QED
  BY <1>1, <1>2, <1>3, <1>4 DEF IInv

\* Forgetting the slots from `first` on keeps what is said of the others.
LEMMA ResetIInv ==
    ASSUME IInv, NEW first \in 0 .. MaxBudget, ~rendering,
           max_slot' = first, ResetBlocks(first),
           UNCHANGED <<rendering, dmaVars, gameVars, frame>>
    PROVE  IInv'
<1> USE DEF IInv, dmaVars, gameVars, ResetBlocks
<1>1. TypeOK'
  BY DEF TypeOK
<1>2. UniqueBlocks'
  BY DEF UniqueBlocks, TypeOK
<1>3. BeyondBudgetEmpty'
  BY DEF BeyondBudgetEmpty, TypeOK
<1>4. Coherent'
  BY DEF Coherent, Pending, TypeOK
<1>5. Commands' /\ Port' /\ Bandwidth'
  BY DEF Commands, Port, Bandwidth, TypeOK
<1>6. Ages'
  BY DEF Ages, TypeOK, Slot
<1> QED
  BY <1>1, <1>2, <1>3, <1>4, <1>5, <1>6

\* Starting a frame frees the slots, it does not forget them.
LEMMA FrameStartIInv == IInv /\ FrameStart => IInv'
<1> SUFFICES ASSUME IInv, FrameStart PROVE IInv'
  OBVIOUS
<1> USE DEF IInv, FrameStart, dmaVars, gameVars
<1>1. TypeOK' /\ UniqueBlocks' /\ BeyondBudgetEmpty'
  BY DEF TypeOK, UniqueBlocks, BeyondBudgetEmpty
<1>2. Coherent'
  BY DEF Coherent, Pending
<1>3. Commands' /\ Port' /\ Bandwidth'
  BY DEF Commands, Port, Bandwidth
<1>4. Ages'
  BY DEF Ages, TypeOK
<1> QED
  BY <1>1, <1>2, <1>3, <1>4

\* The port may be moved when no command is waiting for it.
LEMMA MovePortIInv == ASSUME IInv, NEW p \in Nat, MovePort(p) PROVE IInv'
<1> USE DEF IInv, MovePort, dmaVars, slotVars
<1>1. TypeOK' /\ UniqueBlocks' /\ BeyondBudgetEmpty'
  BY DEF TypeOK, UniqueBlocks, BeyondBudgetEmpty
<1>2. Coherent'
  BY DEF Coherent, Pending
<1>3. Commands' /\ Port' /\ Bandwidth' /\ Ages'
  BY DEF Commands, Port, Bandwidth, Ages
<1> QED
  BY <1>1, <1>2, <1>3

\* A new frame starts with an empty queue; what was queued is in place.
LEMMA FrameEndBeginIInv ==
    ASSUME IInv, NEW total \in DmaTotals, FrameEndBegin(total)
    PROVE  IInv'
<1> USE DEF IInv, FrameEndBegin, slotVars
<1>0. total \in 0 .. DmaMod - 1
  OBVIOUS
<1>1. TypeOK'
  BY <1>0, RemainingWords DEF TypeOK
<1>2. UniqueBlocks' /\ BeyondBudgetEmpty'
  BY DEF UniqueBlocks, BeyondBudgetEmpty
<1>3. Coherent'
  BY DEF Coherent, Pending, TypeOK
<1>4. Commands' /\ Port'
  BY DEF Commands, Port
<1>5. Ages'
  <2> SUFFICES ASSUME NEW s \in Slot
               PROVE last_use[s] <= frame + 1
    BY DEF Ages
  <2> QED
    BY DEF Ages, TypeOK
<1>6. Bandwidth'
  <2>1. Len(staged') * BlockCost = 0
    OBVIOUS
  <2>2. total <= DmaBudget => (DmaBudget + DmaMod - total) % DmaMod = DmaBudget - total
    BY <1>0, RemainingWords
  <2>3. dma_total' = total /\ dma_remaining' = (DmaBudget + DmaMod - total) % DmaMod
    OBVIOUS
  <2> QED
    BY <1>0, <2>1, <2>2, <2>3 DEF Bandwidth
<1> QED
  BY <1>1, <1>2, <1>3, <1>4, <1>5, <1>6

\* Using a block that is there changes only the age of its slot.
LEMMA LoadHitIInv == ASSUME IInv, NEW b \in Block, LoadHit(b) PROVE IInv'
<1>1. PICK s \in Slot :
        /\ usage' = usage \cup {s}
        /\ age' = [age EXCEPT ![s] = 0]
        /\ last_use' = [last_use EXCEPT ![s] = frame + 1]
  BY UsableSlots DEF LoadHit, SlotsOf, IInv
<1> USE <1>1 DEF IInv, LoadHit, dmaVars, gameVars
<1>2. TypeOK'
  BY DEF TypeOK
<1>3. UniqueBlocks' /\ BeyondBudgetEmpty'
  BY DEF UniqueBlocks, BeyondBudgetEmpty
<1>4. Coherent'
  BY DEF Coherent, Pending
<1>5. Commands' /\ Port' /\ Bandwidth'
  BY DEF Commands, Port, Bandwidth
<1>6. Ages'
  BY DEF Ages, TypeOK
<1> QED
  BY <1>2, <1>3, <1>4, <1>5, <1>6

\* Loading a block gives an unused slot to it and queues its transfer.
LEMMA LoadMissIInv == ASSUME IInv, NEW b \in Block, LoadMiss(b) PROVE IInv'
<1> USE DEF IInv
<1>1. PICK v \in Usable :
        /\ IsVictim(v)
        /\ block_num' = [block_num EXCEPT ![v] = b]
        /\ usage' = usage \cup {v}
        /\ age' = [age EXCEPT ![v] = 0]
        /\ last_use' = [last_use EXCEPT ![v] = frame + 1]
        /\ dma_cmd' = Append(dma_cmd, v)
  BY DEF LoadMiss
<1>2. /\ rendering /\ ~IsCached(b) /\ dma_remaining >= BlockCost
      /\ staged' = Append(staged, b)
      /\ dma_remaining' = dma_remaining - BlockCost
      /\ UNCHANGED <<max_slot, rendering, dma_total, done, sdram_ptr, vram, frame>>
  BY DEF LoadMiss, Affordable, gameVars
<1>3. v \in Slot /\ v < MaxBudget /\ v < max_slot /\ v \notin usage
  BY <1>1, UsableSlots DEF IsVictim, Evictable, Usable, TypeOK
<1>4. TypeOK'
  <2>1. /\ block_num' \in [Slot -> Block \cup {NoBlock}]
        /\ usage' \subseteq Slot
        /\ age' \in [Slot -> 0 .. AgeMod - 1]
        /\ last_use' \in [Slot -> Nat]
    BY <1>1, <1>2, <1>3 DEF TypeOK
  <2>2. dma_cmd' \in Seq(Slot) /\ staged' \in Seq(Block) /\ done' \in 0 .. Len(dma_cmd')
    BY <1>1, <1>2, <1>3 DEF TypeOK
  <2>3. dma_remaining' \in 0 .. DmaMod - 1
    BY <1>2 DEF TypeOK
  <2> QED
    BY <1>2, <2>1, <2>2, <2>3 DEF TypeOK
<1>5. \A s \in Slot : block_num[s] # b
  <2>1. ASSUME NEW s \in Slot, s < max_slot PROVE block_num[s] # b
    <3>1. s \in Usable
      BY <2>1 DEF Usable, Slot, TypeOK
    <3> QED
      BY <1>2, <3>1 DEF IsCached, SlotsOf
  <2>2. ASSUME NEW s \in Slot, s >= max_slot PROVE block_num[s] # b
    BY <2>2 DEF BeyondBudgetEmpty
  <2> QED
    BY <2>1, <2>2 DEF TypeOK, Slot
<1>6. UniqueBlocks'
  BY <1>1, <1>3, <1>5 DEF UniqueBlocks, TypeOK
<1>7. BeyondBudgetEmpty'
  BY <1>1, <1>2, <1>3 DEF BeyondBudgetEmpty, TypeOK, Slot
<1>8. Len(staged) = Len(dma_cmd) /\ done = 0
  BY <1>2 DEF Commands, Port
<1>9. /\ Len(dma_cmd') = Len(dma_cmd) + 1
      /\ Len(staged') = Len(dma_cmd) + 1
      /\ dma_cmd'[Len(dma_cmd) + 1] = v
      /\ staged'[Len(dma_cmd) + 1] = b
      /\ \A k \in 1 .. Len(dma_cmd) : dma_cmd'[k] = dma_cmd[k] /\ staged'[k] = staged[k]
  <2>1. dma_cmd \in Seq(Slot) /\ staged \in Seq(Block)
    BY DEF TypeOK
  <2> QED
    BY <1>1, <1>2, <1>3, <1>8, <2>1
<1>10. Coherent'
  <2> SUFFICES ASSUME NEW s \in Slot, block_num'[s] # NoBlock
               PROVE \/ \E k \in 1 .. Len(dma_cmd') :
                            Pending(k)' /\ dma_cmd'[k] = s /\ staged'[k] = block_num'[s]
                     \/ /\ vram'[s] = block_num'[s]
                        /\ \A k \in 1 .. Len(dma_cmd') : Pending(k)' => dma_cmd'[k] # s
    BY DEF Coherent
  <2>1. Len(dma_cmd) \in Nat
    BY DEF TypeOK
  <2>2. \A k \in 1 .. Len(dma_cmd') : Pending(k)'
    BY <1>2, <1>8, <1>9, <2>1 DEF Pending
  <2>3. CASE s = v
    <3>1. Len(dma_cmd) + 1 \in 1 .. Len(dma_cmd') /\ block_num'[s] = b
      BY <1>1, <1>3, <1>9, <2>1, <2>3 DEF TypeOK
    <3> QED
      BY <1>9, <2>2, <2>3, <3>1
  <2>4. CASE s # v
    <3>1. block_num'[s] = block_num[s] /\ vram' = vram
      BY <1>1, <1>2, <2>4 DEF TypeOK
    <3>2. CASE \E k \in 1 .. Len(dma_cmd) : dma_cmd[k] = s /\ staged[k] = block_num[s]
      BY <1>9, <2>1, <2>2, <3>1, <3>2
    <3>3. CASE /\ vram[s] = block_num[s]
               /\ \A k \in 1 .. Len(dma_cmd) : dma_cmd[k] # s
      BY <1>9, <2>1, <2>4, <3>1, <3>3
    <3>4. \A k \in 1 .. Len(dma_cmd) : Pending(k)
      BY <1>8, <2>1 DEF Pending
    <3> QED
      BY <3>1, <3>2, <3>3, <3>4 DEF Coherent
  <2> QED
    BY <2>3, <2>4
<1>11. Commands'
  <2>1. \A k \in 1 .. Len(dma_cmd) : dma_cmd[k] # v
    BY <1>2, <1>3 DEF Commands
  <2>2. Len(dma_cmd) \in Nat
    BY DEF TypeOK
  <2>3. \A k \in 1 .. Len(dma_cmd') : k \in 1 .. Len(dma_cmd) \/ k = Len(dma_cmd) + 1
    BY <1>9, <2>2
  <2> QED
    BY <1>1, <1>2, <1>3, <1>9, <2>1, <2>2, <2>3 DEF Commands
<1>12. Port'
  BY <1>2 DEF Port
<1>13. Ages'
  BY <1>1, <1>2, <1>3 DEF Ages, TypeOK
<1>14. Bandwidth'
  <2>1. Len(staged') * BlockCost = Len(staged) * BlockCost + BlockCost
    <3>1. Len(staged) \in Nat /\ Len(staged') = Len(staged) + 1
      BY <1>8, <1>9 DEF TypeOK
    <3>2. \A n, c \in Nat : (n + 1) * c = n * c + c
      OBVIOUS
    <3> QED
      BY <3>1, <3>2
  <2>2. Len(staged) * BlockCost \in Nat
    BY DEF TypeOK
  <2> QED
    <3>1. rendering' = rendering /\ dma_total' = dma_total
      BY <1>2
    <3>2. dma_total <= DmaBudget =>
            dma_remaining + dma_total + Len(staged) * BlockCost = DmaBudget
      BY <1>2 DEF Bandwidth
    <3>3. dma_total <= DmaBudget =>
            dma_remaining' + dma_total' + Len(staged') * BlockCost = DmaBudget
      <4> DEFINE x == Len(staged) * BlockCost
                 y == Len(staged') * BlockCost
      <4>1. /\ dma_remaining \in Nat /\ dma_total \in Nat /\ x \in Nat
            /\ y = x + BlockCost /\ dma_remaining' = dma_remaining - BlockCost
            /\ dma_total <= DmaBudget => dma_remaining + dma_total + x = DmaBudget
        BY <1>2, <2>1, <2>2, <3>2 DEF TypeOK
      <4> HIDE DEF x, y
      <4>2. dma_total <= DmaBudget => dma_remaining' + dma_total' + y = DmaBudget
        BY <3>1, <4>1
      <4> QED
        BY <4>2 DEF y
    <3> QED
      BY <3>1, <3>3 DEF Bandwidth
<1> QED
  BY <1>4, <1>6, <1>7, <1>10, <1>11, <1>12, <1>13, <1>14

\* At the end of the frame the unused slots age and the port is rewound.
LEMMA FrameEndFinishIInv == IInv /\ FrameEndFinish => IInv'
<1> SUFFICES ASSUME IInv, FrameEndFinish PROVE IInv'
  OBVIOUS
<1> USE DEF IInv, FrameEndFinish, dmaVars
<1>1. TypeOK'
  <2>1. age' \in [Slot -> 0 .. AgeMod - 1]
    BY NextAge DEF TypeOK
  <2>2. frame' \in Nat /\ sdram_ptr' \in Nat /\ rendering' \in BOOLEAN
    <3>1. frame' \in Nat
      BY DEF TypeOK
    <3>2. sdram_ptr' \in Nat
      OBVIOUS
    <3>3. rendering' \in BOOLEAN
      OBVIOUS
    <3> QED
      BY <3>1, <3>2, <3>3
  <2>3. last_use' \in [Slot -> Nat]
    BY DEF TypeOK
  <2> QED
    BY <2>1, <2>2, <2>3 DEF TypeOK
<1>2. UniqueBlocks' /\ BeyondBudgetEmpty'
  BY DEF UniqueBlocks, BeyondBudgetEmpty
<1>3. Coherent'
  BY DEF Coherent, Pending
<1>4. Commands' /\ Port' /\ Bandwidth'
  BY DEF Commands, Port, Bandwidth
<1>5. Ages'
  <2>1. frame' = frame + 1 /\ ~rendering' /\ usage' = usage
    OBVIOUS
  <2> SUFFICES ASSUME NEW s \in Slot
      PROVE /\ last_use'[s] <= frame'
            /\ s \in usage => last_use'[s] >= frame'
            /\ last_use'[s] >= frame' => age'[s] = 0
            /\ age'[s] <= frame' - last_use'[s]
            /\ frame' - last_use'[s] \in 0 .. AgeMod - 1 => age'[s] = frame' - last_use'[s]
    BY <2>1 DEF Ages, TypeOK
  <2>2. CASE s \in usage
    BY <2>1, <2>2 DEF Ages, TypeOK
  <2>3. CASE s \notin usage
    <3>1. last_use'[s] = last_use[s] /\ age'[s] = (age[s] + 1) % AgeMod
      BY <2>3
    <3>2. /\ age'[s] <= age[s] + 1 /\ age'[s] \in Nat
          /\ age[s] + 1 < AgeMod => age'[s] = age[s] + 1
      BY <3>1, NextAge DEF TypeOK
    <3> QED
      <4>1. /\ last_use[s] \in Nat /\ age[s] \in 0 .. AgeMod - 1 /\ frame \in Nat
            /\ last_use[s] >= frame => age[s] = 0
            /\ last_use[s] <= frame => age[s] <= frame - last_use[s]
            /\ frame - last_use[s] \in 0 .. AgeMod - 1 => age[s] = frame - last_use[s]
            /\ last_use[s] > frame => s \in usage
        BY DEF Ages, TypeOK
      <4> QED
        BY <2>1, <2>3, <3>1, <3>2, <4>1
  <2> QED
    BY <2>2, <2>3
<1> QED
  BY <1>1, <1>2, <1>3, <1>4, <1>5

\* A command of the queue brings the block its slot is waiting for.
LEMMA GameDmaIInv == IInv /\ GameDma => IInv'
<1> SUFFICES ASSUME IInv, GameDma PROVE IInv'
  OBVIOUS
<1> USE DEF IInv
<1>0. PICK n : n = done + 1
  OBVIOUS
<1>1. /\ ~rendering /\ n \in 1 .. Len(dma_cmd) /\ n \in DOMAIN staged
      /\ dma_cmd[n] \in Slot /\ staged[n] \in Block
      /\ done' = n /\ sdram_ptr' = n
      /\ vram' = [vram EXCEPT ![dma_cmd[n]] = staged[n]]
  <2>1. ~rendering /\ done < Len(dma_cmd) /\ Len(staged) = Len(dma_cmd) /\ sdram_ptr = done
    BY DEF GameDma, Commands, Port
  <2>2. done + 1 \in 1 .. Len(dma_cmd) /\ done + 1 \in DOMAIN staged
    BY <2>1 DEF TypeOK
  <2>3. dma_cmd[done + 1] \in Slot /\ staged[done + 1] \in Block
    BY <2>1, <2>2 DEF TypeOK
  <2> QED
    BY <1>0, <2>1, <2>2, <2>3 DEF GameDma
<1>2. UNCHANGED <<block_num, usage, age, max_slot, rendering, dma_total,
                  dma_remaining, dma_cmd, staged, frame, last_use>>
  BY DEF GameDma, slotVars, dmaVars
<1>3. TypeOK'
  BY <1>1, <1>2 DEF TypeOK
<1>4. UniqueBlocks' /\ BeyondBudgetEmpty' /\ Bandwidth' /\ Ages'
  BY <1>2 DEF UniqueBlocks, BeyondBudgetEmpty, Bandwidth, Ages
<1>5. Commands' /\ Port'
  BY <1>1, <1>2 DEF Commands, Port
<1>6. Coherent'
  <2> SUFFICES ASSUME NEW s \in Slot, block_num[s] # NoBlock
               PROVE \/ \E k \in 1 .. Len(dma_cmd) :
                            Pending(k)' /\ dma_cmd[k] = s /\ staged[k] = block_num[s]
                     \/ /\ vram'[s] = block_num[s]
                        /\ \A k \in 1 .. Len(dma_cmd) : Pending(k)' => dma_cmd[k] # s
    BY <1>2 DEF Coherent
  <2>1. \A k \in 1 .. Len(dma_cmd) : Pending(k) <=> (Pending(k)' \/ k = n)
    <3>1. done \in Nat /\ n = done + 1 /\ done' = n /\ Len(dma_cmd) \in Nat /\ dma_cmd' = dma_cmd
      BY <1>0, <1>1, <1>2 DEF TypeOK
    <3> QED
      BY <3>1 DEF Pending
  <2>2. CASE s = dma_cmd[n]
    <3>1. \A k \in 1 .. Len(dma_cmd) : dma_cmd[k] = s => k = n
      BY <1>1, <2>2 DEF Commands
    <3>2. Pending(n)
      BY <1>1, <2>1
    <3>3. staged[n] = block_num[s]
      BY <1>1, <2>2, <3>1, <3>2 DEF Coherent
    <3>4. ~Pending(n)'
      BY <1>1, <1>2 DEF Pending, TypeOK
    <3> QED
      BY <1>1, <2>2, <3>1, <3>3, <3>4 DEF TypeOK
  <2>3. CASE s # dma_cmd[n]
    <3>1. vram'[s] = vram[s]
      BY <1>1, <2>3 DEF TypeOK
    <3> QED
      BY <2>1, <2>3, <3>1 DEF Coherent
  <2> QED
    BY <2>2, <2>3
<1> QED
  BY <1>3, <1>4, <1>5, <1>6

\* Nothing changes.
LEMMA StutterIInv == IInv /\ UNCHANGED cacheVars => IInv'
<1> SUFFICES ASSUME IInv, UNCHANGED cacheVars PROVE IInv'
  OBVIOUS
<1> USE DEF IInv, cacheVars
<1>1. TypeOK' /\ UniqueBlocks' /\ BeyondBudgetEmpty'
  BY DEF TypeOK, UniqueBlocks, BeyondBudgetEmpty
<1>2. Coherent'
  BY DEF Coherent, Pending
<1>3. Commands' /\ Port' /\ Ages' /\ Bandwidth'
  BY DEF Commands, Port, Ages, Bandwidth
<1> QED
  BY <1>1, <1>2, <1>3

\* Every step preserves the inductive invariant.
LEMMA NextIInv == IInv /\ [Next]_cacheVars => IInv'
<1> SUFFICES ASSUME IInv, [Next]_cacheVars PROVE IInv'
  OBVIOUS
<1>1. CASE UNCHANGED cacheVars
  BY <1>1, StutterIInv
<1>2. ASSUME NEW n \in 0 .. NSlots, SetBudget(n) PROVE IInv'
  BY <1>2, ResetIInv, CappedType DEF SetBudget
<1>3. CASE ObjReset
  BY <1>3, ResetIInv DEF ObjReset
<1>4. CASE FrameStart
  BY <1>4, FrameStartIInv
<1>5. ASSUME NEW p \in 0 .. MaxBudget, MovePort(p) PROVE IInv'
  BY <1>5, MovePortIInv
<1>6. ASSUME NEW t \in DmaTotals, FrameEndBegin(t) PROVE IInv'
  BY <1>6, FrameEndBeginIInv
<1>7. ASSUME NEW b \in Block, LoadHit(b) \/ LoadMiss(b) \/ LoadRefused(b) PROVE IInv'
  BY <1>7, LoadHitIInv, LoadMissIInv, StutterIInv DEF LoadRefused
<1>8. CASE FrameEndFinish
  BY <1>8, FrameEndFinishIInv
<1>9. CASE GameDma
  BY <1>9, GameDmaIInv
<1> QED
  BY <1>1, <1>2, <1>3, <1>4, <1>5, <1>6, <1>7, <1>8, <1>9 DEF Next

\* The inductive invariant is an invariant of the cache.
THEOREM Invariance == Spec => []IInv
<1> QED
  BY InitIInv, NextIInv, PTL DEF Spec

\* Type correctness of the cache.
THEOREM TypeCorrect == Spec => []TypeOK
<1>1. IInv => TypeOK
  BY DEF IInv
<1> QED
  BY <1>1, Invariance, PTL

\* A block is in at most one slot (ppm_vram_load_block).
THEOREM NoDuplicates == Spec => []UniqueBlocks
<1>1. IInv => UniqueBlocks
  BY DEF IInv
<1> QED
  BY <1>1, Invariance, PTL

\* The slots above the budget hold nothing (ppm_vram_set_budget).
THEOREM NothingBeyondBudget == Spec => []BeyondBudgetEmpty
<1>1. IInv => BeyondBudgetEmpty
  BY DEF IInv
<1> QED
  BY <1>1, Invariance, PTL

\* What the bookkeeping says of the video memory is true, or will be once
\* the queue has been run.
THEOREM Coherence == Spec => []Coherent
<1>1. IInv => Coherent
  BY DEF IInv
<1> QED
  BY <1>1, Invariance, PTL

\* The staging area and the command list of a frame stay within the largest
\* budget, whatever blocks the sprites of the frame ask for.
THEOREM StagingBound == Spec => []StagingFits
<1>1. IInv => StagingFits
  <2> SUFFICES ASSUME IInv, Len(staged) > MaxBudget PROVE FALSE
    BY DEF IInv, StagingFits, Commands, TypeOK
  <2> DEFINE S == 1 .. Len(dma_cmd)
             T == 0 .. MaxBudget - 1
  <2>1. Len(dma_cmd) \in Nat /\ Len(dma_cmd) = Len(staged)
    BY DEF IInv, TypeOK, Commands
  <2>2. IsFiniteSet(S) /\ Cardinality(S) = Len(dma_cmd)
    <3>1. IsFiniteSet(S) /\ Cardinality(S) = IF 1 > Len(dma_cmd) THEN 0 ELSE Len(dma_cmd) - 1 + 1
      BY <2>1, FS_Interval
    <3> QED
      BY <2>1, <3>1
  <2>3. IsFiniteSet(T) /\ Cardinality(T) = MaxBudget
    <3>1. 0 \in Int /\ MaxBudget - 1 \in Int
      OBVIOUS
    <3>2. IsFiniteSet(T)
          /\ Cardinality(T) = IF 0 > MaxBudget - 1 THEN 0 ELSE (MaxBudget - 1) - 0 + 1
      BY <3>1, FS_Interval
    <3> QED
      BY <3>2
  <2>4. dma_cmd \in [S -> T]
    <3>1. dma_cmd \in [S -> Slot]
      BY DEF IInv, TypeOK
    <3>2. \A k \in S : dma_cmd[k] \in T
      BY <3>1 DEF IInv, Commands, Slot
    <3> QED
      BY <3>1, <3>2
  <2>5. \E j, k \in S : j # k /\ dma_cmd[j] = dma_cmd[k]
    <3>1. Cardinality(T) < Cardinality(S)
      BY <2>1, <2>2, <2>3
    <3> HIDE DEF S, T
    <3> QED
      BY <2>2, <2>3, <2>4, <3>1, FS_PigeonHole
  <2> QED
    BY <2>5 DEF IInv, Commands
<1> QED
  BY <1>1, Invariance, PTL

\* A frame never queues more words than the game left it.
THEOREM BandwidthBound == Spec => []WithinDmaBudget
<1>1. IInv => WithinDmaBudget
  <2> SUFFICES ASSUME IInv, dma_total <= DmaBudget
               PROVE dma_total + Len(staged) * BlockCost <= DmaBudget
    BY DEF WithinDmaBudget
  <2>1. CASE dma_cmd = << >>
    <3>1. Len(staged) * BlockCost = 0
      BY <2>1 DEF IInv, Commands
    <3> QED
      BY <3>1 DEF IInv, TypeOK
  <2>2. CASE dma_cmd # << >>
    <3>1. Len(staged) * BlockCost \in Nat
      BY DEF IInv, TypeOK
    <3> QED
      BY <2>2, <3>1 DEF IInv, TypeOK, Bandwidth
  <2> QED
    BY <2>1, <2>2
<1> QED
  BY <1>1, Invariance, PTL

\* Only LoadMiss changes the block of a slot while a frame is built.
LEMMA BlocksChange ==
    ASSUME IInv, [Next]_cacheVars, rendering, NEW v \in Slot, block_num'[v] # block_num[v]
    PROVE  IsVictim(v)
<1>1. ~(\E n \in 0 .. NSlots : SetBudget(n)) /\ ~ObjReset /\ ~FrameStart
      /\ ~(\E p \in 0 .. MaxBudget : MovePort(p))
      /\ ~(\E t \in DmaTotals : FrameEndBegin(t)) /\ ~GameDma
  BY DEF SetBudget, ObjReset, FrameStart, MovePort, FrameEndBegin, GameDma
<1>2. ~UNCHANGED cacheVars /\ ~FrameEndFinish
      /\ ~(\E b \in Block : LoadHit(b) \/ LoadRefused(b))
  BY DEF cacheVars, FrameEndFinish, LoadHit, LoadRefused
<1>3. PICK b \in Block : LoadMiss(b)
  BY <1>1, <1>2 DEF Next
<1>4. PICK w \in Usable : IsVictim(w) /\ block_num' = [block_num EXCEPT ![w] = b]
  BY <1>3 DEF LoadMiss
<1> QED
  BY <1>4 DEF IInv, TypeOK

\* The slot given up is one that has been idle longest (the search for the
\* oldest slot in ppm_vram_load_block), unless one idles for 2^16 frames.
THEOREM OldestEvicted == Spec => EvictsOldest
<1>1. ASSUME IInv, [Next]_cacheVars, NEW v \in Slot, rendering, block_num'[v] # block_num[v],
             NEW s \in Usable, frame - last_use[s] < AgeMod
      PROVE  last_use[v] <= last_use[s]
  <2>1. IsVictim(v) /\ s \in Slot
    BY <1>1, BlocksChange, UsableSlots DEF IInv
  <2>2. /\ last_use[v] \in Nat /\ last_use[s] \in Nat /\ frame \in Nat
        /\ age[v] \in Nat /\ age[s] \in Nat
    BY <1>1, <2>1 DEF IInv, TypeOK
  <2>3. age[v] > 0 /\ v \notin usage
    BY <2>1 DEF IsVictim, Evictable
  <2>4. last_use[v] < frame /\ age[v] <= frame - last_use[v]
    BY <1>1, <2>2, <2>3 DEF IInv, Ages
  <2>5. CASE last_use[s] >= frame
    BY <2>2, <2>4, <2>5
  <2>6. CASE last_use[s] < frame
    <3>1. frame - last_use[s] \in 1 .. AgeMod - 1
      BY <1>1, <2>2, <2>6
    <3>2. age[s] = frame - last_use[s] /\ s \notin usage
      BY <1>1, <2>1, <2>2, <2>6, <3>1 DEF IInv, Ages
    <3>3. age[s] <= age[v]
      BY <1>1, <2>1, <2>2, <3>1, <3>2 DEF IsVictim, Evictable
    <3> QED
      BY <2>2, <2>4, <3>2, <3>3
  <2> QED
    BY <2>2, <2>5, <2>6
<1>2. IInv /\ [Next]_cacheVars =>
        [\A v \in Slot : rendering /\ block_num'[v] # block_num[v] =>
            \A s \in Usable : frame - last_use[s] < AgeMod => last_use[v] <= last_use[s]]_cacheVars
  BY <1>1
<1> QED
  BY <1>2, Invariance, PTL DEF Spec, EvictsOldest

\* A slot used in this frame or the one before keeps its block while the
\* frame is built.
THEOREM SpritesKeepTheirSlots == Spec => UsedSlotsKept
<1>1. ASSUME IInv, [Next]_cacheVars, rendering, NEW s \in Usable, last_use[s] >= frame
      PROVE  block_num'[s] = block_num[s]
  <2>1. s \in Slot
    BY <1>1, UsableSlots DEF IInv
  <2>2. age[s] = 0
    BY <1>1, <2>1 DEF IInv, Ages
  <2> QED
    BY <1>1, <2>1, <2>2, BlocksChange DEF IsVictim, Evictable
<1>2. IInv /\ [Next]_cacheVars =>
        [rendering => \A s \in Usable :
            last_use[s] >= frame => block_num'[s] = block_num[s]]_cacheVars
  BY <1>1
<1> QED
  BY <1>2, Invariance, PTL DEF Spec, UsedSlotsKept
-----------------------------------------------------------------------------
(***************************************************************************)
(* Frames.                                                                 *)
(***************************************************************************)
HIDE CacheAssumption

\* What an object shows is typed, and only an object that was refused a
\* picture may be out of its animation.
AInv == ObjectsOK /\ AnimationUnlessStarved

\* The picture that follows another is in the same animation.
LEMMA SameAnimation ==
    ASSUME NEW p \in Offset
    PROVE  /\ NextPicture(p) \in Offset \cup {0}
           /\ NextPicture(p) # 0 => AnimOf[NextPicture(p)] = AnimOf[p]
BY FrameAssumption DEF NextPicture

\* The invariant holds initially.
LEMMA InitAInv == FrameInit => AInv
<1> SUFFICES ASSUME FrameInit PROVE AInv
    OBVIOUS
<1>1. ObjectsOK
    BY FrameAssumption DEF FrameInit, ObjectsOK, Idle
<1>2. AnimationUnlessStarved
    BY DEF FrameInit, AnimationUnlessStarved, InAnimation
<1> QED
    BY <1>1, <1>2 DEF AInv

\* Setting an animation puts the object on its first picture.
LEMMA SetAInv ==
    ASSUME AInv, NEW o \in Obj, RenderSet(o)
    PROVE  AInv'
<1> DEFINE a == intf[o].anim
<1>1. a \in ValidAnim /\ First[a] \in Offset /\ AnimOf[First[a]] = a /\ Number[a] \in Nat
    BY FrameAssumption DEF AInv, ObjectsOK, RenderSet
<1>2. handle' = [handle EXCEPT ![o] = [offset |-> First[a], number |-> Number[a]]]
    BY DEF RenderSet
<1>3. cur' = [obj |-> o, offset |-> First[a],
              previous |-> IF intf[o].fresh THEN 0 ELSE handle[o].offset,
              sprite |-> 1, available |-> TRUE]
    BY DEF RenderSet, Start
<1>4. ObjectsOK'
    <2>1. intf' \in [Obj -> [anim : Anim, next : Anim \cup {NoAnim},
                             fresh : BOOLEAN, in_step : BOOLEAN]]
        <3>1. intf' = [intf EXCEPT ![o] = [intf[o] EXCEPT !.in_step = TRUE]]
            BY DEF RenderSet
        <3>2. [intf[o] EXCEPT !.in_step = TRUE] \in
                  [anim : Anim, next : Anim \cup {NoAnim}, fresh : BOOLEAN, in_step : BOOLEAN]
            <4>1. intf[o] \in [anim : Anim, next : Anim \cup {NoAnim},
                               fresh : BOOLEAN, in_step : BOOLEAN]
                BY DEF AInv, ObjectsOK
            <4> QED
                BY <4>1
        <3> QED
            BY <3>1, <3>2 DEF AInv, ObjectsOK
    <2>2. handle' \in [Obj -> [offset : Offset \cup {0}, number : Nat]]
        BY <1>1, <1>2 DEF AInv, ObjectsOK
    <2>3. cur' \in [obj : Obj, offset : Offset, previous : Offset \cup {0},
                    sprite : Nat \ {0}, available : BOOLEAN]
        BY <1>1, <1>3 DEF AInv, ObjectsOK
    <2> QED
        BY <2>1, <2>2, <2>3 DEF ObjectsOK, Idle
<1>5. AnimationUnlessStarved'
    <2> SUFFICES ASSUME NEW q \in Obj, q \notin starved' PROVE InAnimation(q)'
        BY DEF AnimationUnlessStarved
    <2>1. CASE q = o
        BY <1>1, <1>2, <2>1 DEF InAnimation, AInv, ObjectsOK
    <2>2. CASE q # o
        <3>1. q \notin starved
            BY <2>2 DEF RenderSet
        <3>2. handle'[q] = handle[q]
            BY <1>2, <2>2 DEF AInv, ObjectsOK
        <3> QED
            BY <3>1, <3>2 DEF AInv, AnimationUnlessStarved, InAnimation
    <2> QED
        BY <2>1, <2>2
<1> QED
    BY <1>4, <1>5 DEF AInv

\* Advancing stays within the animation.
LEMMA AdvanceAInv ==
    ASSUME AInv, NEW o \in Obj, RenderAdvance(o)
    PROVE  AInv'
<1> DEFINE p == handle[o].offset
           n == NextPicture(p)
<1>1. p \in Offset /\ n \in Offset \cup {0} /\ (n # 0 => AnimOf[n] = AnimOf[p])
    <2>1. p \in Offset
        BY DEF AInv, ObjectsOK, RenderAdvance
    <2> QED
        BY <2>1, SameAnimation
<1>2. handle' = [handle EXCEPT ![o].offset = n] /\ intf' = intf /\ starved' = starved
    BY DEF RenderAdvance
<1>5. handle' \in [Obj -> [offset : Offset \cup {0}, number : Nat]]
    <2>1. handle' = [handle EXCEPT ![o] = [handle[o] EXCEPT !.offset = n]]
        BY <1>2
    <2>2. [handle[o] EXCEPT !.offset = n] \in [offset : Offset \cup {0}, number : Nat]
        <3>1. handle[o] \in [offset : Offset \cup {0}, number : Nat]
            BY DEF AInv, ObjectsOK
        <3> QED
            BY <1>1, <3>1
    <2> QED
        BY <2>1, <2>2 DEF AInv, ObjectsOK
<1>3. CASE n = 0
    <2>1. cur' = cur
        BY <1>3 DEF RenderAdvance, Skip
    <2>2. ObjectsOK'
        BY <1>2, <1>5, <2>1 DEF AInv, ObjectsOK
    <2>3. AnimationUnlessStarved'
        BY <1>2, <1>3 DEF AInv, ObjectsOK, AnimationUnlessStarved, InAnimation
    <2> QED
        BY <2>2, <2>3 DEF AInv
<1>4. CASE n # 0
    <2>1. cur' = [obj |-> o, offset |-> n, previous |-> p, sprite |-> 1, available |-> TRUE]
        BY <1>4 DEF RenderAdvance, Start
    <2>2. cur' \in [obj : Obj, offset : Offset, previous : Offset \cup {0},
                    sprite : Nat \ {0}, available : BOOLEAN]
        BY <1>1, <1>4, <2>1
    <2>3. ObjectsOK'
        BY <1>2, <1>5, <2>2 DEF AInv, ObjectsOK
    <2>4. AnimationUnlessStarved'
        <3> SUFFICES ASSUME NEW q \in Obj \ starved PROVE InAnimation(q)'
            BY <1>2 DEF AnimationUnlessStarved
        <3>1. InAnimation(q)
            BY DEF AInv, AnimationUnlessStarved
        <3>2. CASE q = o
            <4>1. p # 0 /\ handle'[q].offset = n /\ handle'[q].number = handle[q].number
                BY <1>1, <1>2, <3>2, FrameAssumption DEF AInv, ObjectsOK
            <4> QED
                BY <1>1, <1>4, <3>1, <3>2, <4>1 DEF InAnimation
        <3>3. CASE q # o
            BY <1>2, <3>1, <3>3 DEF InAnimation, AInv, ObjectsOK
        <3> QED
            BY <3>2, <3>3
    <2> QED
        BY <2>3, <2>4 DEF AInv
<1> QED
    BY <1>3, <1>4

\* A step that leaves the handles alone, and starves nobody less.
LEMMA KeepAInv ==
    ASSUME AInv, ObjectsOK', handle' = handle, starved \subseteq starved'
    PROVE  AInv'
BY DEF AInv, AnimationUnlessStarved, InAnimation

\* A budget above the number of slots is capped like the number of slots.
LEMMA AnyBudget ==
    ASSUME NEW n \in Nat, SetBudget(n)
    PROVE  \E k \in 0 .. NSlots : SetBudget(k)
<1>1. CASE n <= NSlots
    <2>1. n \in 0 .. NSlots
        BY <1>1, CacheAssumption
    <2> QED
        BY <2>1
<1>2. CASE n > NSlots
    <2>1. Capped(n) = Capped(NSlots) /\ NSlots \in 0 .. NSlots
        BY <1>2, CacheAssumption DEF Capped
    <2>2. SetBudget(NSlots)
        BY <2>1 DEF SetBudget
    <2> QED
        BY <2>1, <2>2
<1> QED
    BY <1>1, <1>2, CacheAssumption

\* Each step of the game is a step of the cache or leaves it alone.
LEMMA GameSteps ==
    ASSUME Game
    PROVE  Next \/ UNCHANGED cacheVars
<1>1. CASE \E o \in Obj, a \in Anim : 
             AssignObject(o, a) \/ SwitchAnimation(o, a) \/ QueueAnimation(o, a)
    BY <1>1 DEF AssignObject, SwitchAnimation, QueueAnimation, Describe
<1>2. CASE \E o \in Obj : TouchCounter(o) \/ CmdObjAdd(o)
    BY <1>2 DEF TouchCounter, Describe, CmdObjAdd
<1>3. CASE \E n \in Budgets : CmdBudget(n)
    <2>1. PICK n \in Budgets : CmdBudget(n)
        BY <1>3
    <2>2. n \in Nat /\ SetBudget(n)
        BY <2>1, FrameAssumption DEF CmdBudget
    <2> QED
        BY <2>2, AnyBudget DEF Next
<1>4. CASE CmdObjReset
    BY <1>4 DEF CmdObjReset, Next
<1>5. CASE CmdFrameStart
    BY <1>5 DEF CmdFrameStart, Next
<1>6. CASE \E t \in DmaTotals : CmdFrameEnd(t)
    BY <1>6 DEF CmdFrameEnd, Next
<1>7. CASE RunCommand
    BY <1>7 DEF RunCommand, Next
<1>8. CASE Show
    BY <1>8 DEF Show
<1>9. CASE LastFrame
    BY <1>9 DEF LastFrame, vars
<1> QED
    BY <1>1, <1>2, <1>3, <1>4, <1>5, <1>6, <1>7, <1>8, <1>9 DEF Game

\* So is each step of the firmware.
LEMMA FirmwareSteps ==
    ASSUME ObjectsOK, Firmware
    PROVE  Next \/ UNCHANGED cacheVars
<1>1. CASE \E o \in Obj : RenderInvalid(o) \/ RenderEnded(o)
    BY <1>1 DEF RenderInvalid, RenderEnded, Skip
<1>2. CASE \E o \in Obj : RenderSet(o) \/ RenderSwitch(o)
    BY <1>2 DEF RenderSet, RenderSwitch, Start
<1>3. CASE \E o \in Obj : RenderAdvance(o)
    BY <1>3 DEF RenderAdvance, Skip, Start
<1>4. CASE LoadSprite
    <2>1. CASE WantedBlock = NoBlock /\ NextSprite(cur.available) /\ UNCHANGED cacheVars
        BY <2>1
    <2>2. CASE \E b \in {WantedBlock} \ {NoBlock} :
                  \/ LoadHit(b) /\ NextSprite(cur.available)
                  \/ LoadMiss(b) /\ NextSprite(cur.available)
                  \/ LoadRefused(b) /\ NextSprite(FALSE)
        <3>1. WantedBlock \in Block
            <4>1. cur.offset \in Offset /\ cur.sprite \in 1 .. Len(Sprites[cur.offset])
                BY <1>4 DEF LoadSprite, Loading, ObjectsOK, Idle
            <4>2. Sprites[cur.offset] \in Seq(Block \cup {NoBlock})
                BY <4>1, FrameAssumption
            <4>3. WantedBlock \in Block \cup {NoBlock}
                BY <4>1, <4>2 DEF WantedBlock
            <4> QED
                BY <2>2, <4>3
        <3> QED
            BY <2>2, <3>1 DEF Next
    <2> QED
        BY <1>4, <2>1, <2>2 DEF LoadSprite
<1>5. CASE EmitPicture \/ EmitPrevious
    BY <1>5 DEF EmitPicture, EmitPrevious, Emit
<1>6. CASE GiveUp
    BY <1>6 DEF GiveUp
<1>7. CASE EndFrame
    BY <1>7 DEF EndFrame, Next
<1> QED
    BY <1>1, <1>2, <1>3, <1>4, <1>5, <1>6, <1>7 DEF Firmware

\* The invariant is preserved by the steps that leave the handles alone.
LEMMA QuietAInv ==
    ASSUME AInv, handle' = handle, cur' = cur, starved' = starved,
           intf' \in [Obj -> [anim : Anim, next : Anim \cup {NoAnim},
                              fresh : BOOLEAN, in_step : BOOLEAN]]
    PROVE  AInv'
BY KeepAInv DEF AInv, ObjectsOK

\* An entry of the object table the game may write.
LEMMA DescribeAInv ==
    ASSUME AInv, NEW o \in Obj,
           NEW e \in [anim : Anim, next : Anim \cup {NoAnim}, fresh : BOOLEAN, in_step : BOOLEAN],
           Describe(o, e)
    PROVE  AInv'
<1>1. /\ intf' = [intf EXCEPT ![o] = e]
      /\ handle' = handle /\ cur' = cur /\ starved' = starved
    BY DEF Describe
<1>2. intf' \in [Obj -> [anim : Anim, next : Anim \cup {NoAnim},
                         fresh : BOOLEAN, in_step : BOOLEAN]]
    BY <1>1 DEF AInv, ObjectsOK
<1> QED
    BY <1>1, <1>2, QuietAInv

\* The game never changes what an object shows.
LEMMA GameAInv ==
    ASSUME AInv, Game
    PROVE  AInv'
<1> DEFINE IntfSet == [anim : Anim, next : Anim \cup {NoAnim}, fresh : BOOLEAN, in_step : BOOLEAN]
<1>1. ASSUME NEW o \in Obj, NEW a \in Anim,
             AssignObject(o, a) \/ SwitchAnimation(o, a) \/ QueueAnimation(o, a)
      PROVE  AInv'
    <2>1. intf[o] \in IntfSet
        BY DEF AInv, ObjectsOK
    <2>2. /\ [anim |-> a, next |-> NoAnim, fresh |-> TRUE, in_step |-> TRUE] \in IntfSet
          /\ [intf[o] EXCEPT !.anim = a] \in IntfSet
          /\ [intf[o] EXCEPT !.next = a] \in IntfSet
        BY <2>1
    <2> QED
        BY <1>1, <2>2, DescribeAInv DEF AssignObject, SwitchAnimation, QueueAnimation
<1>2. ASSUME NEW o \in Obj, TouchCounter(o) PROVE AInv'
    <2>1. intf[o] \in IntfSet
        BY DEF AInv, ObjectsOK
    <2>2. [intf[o] EXCEPT !.in_step = FALSE] \in IntfSet
        BY <2>1
    <2> QED
        BY <1>2, <2>2, DescribeAInv DEF TouchCounter
<1>3. ASSUME NEW o \in Obj, CmdObjAdd(o) PROVE AInv'
    BY <1>3, QuietAInv DEF CmdObjAdd, animVars, AInv, ObjectsOK
<1>4. CASE \E n \in Budgets : CmdBudget(n)
    BY <1>4, QuietAInv DEF CmdBudget, animVars, AInv, ObjectsOK
<1>5. CASE CmdObjReset
    <2>1. PICK same \in [Obj -> BOOLEAN] :
              intf' = [o \in Obj |-> [anim |-> Anim0, next |-> Anim0, fresh |-> FALSE,
                                      in_step |-> same[o]]]
        BY <1>5 DEF CmdObjReset
    <2>2. intf' \in [Obj -> IntfSet]
        BY <2>1, FrameAssumption
    <2> QED
        BY <1>5, <2>2, QuietAInv DEF CmdObjReset
<1>6. CASE CmdFrameStart
    BY <1>6, QuietAInv DEF CmdFrameStart, animVars, AInv, ObjectsOK
<1>7. CASE \E t \in DmaTotals : CmdFrameEnd(t)
    BY <1>7, QuietAInv DEF CmdFrameEnd, animVars, AInv, ObjectsOK
<1>8. CASE RunCommand \/ Show \/ LastFrame
    BY <1>8, QuietAInv DEF RunCommand, Show, LastFrame, vars, animVars, AInv, ObjectsOK
<1> QED
    BY <1>1, <1>2, <1>3, <1>4, <1>5, <1>6, <1>7, <1>8 DEF Game

\* The firmware takes an object out of its animation only when it starves it.
LEMMA FirmwareAInv ==
    ASSUME AInv, Firmware
    PROVE  AInv'
<1> DEFINE IntfSet == [anim : Anim, next : Anim \cup {NoAnim}, fresh : BOOLEAN, in_step : BOOLEAN]
<1>0. intf \in [Obj -> IntfSet]
    BY DEF AInv, ObjectsOK
<1>1. ASSUME NEW o \in Obj, RenderInvalid(o) \/ RenderEnded(o) PROVE AInv'
    BY <1>1, <1>0, QuietAInv DEF RenderInvalid, RenderEnded, Skip, animVars
<1>2. ASSUME NEW o \in Obj, RenderSet(o) \/ RenderAdvance(o) PROVE AInv'
    BY <1>2, SetAInv, AdvanceAInv
<1>3. ASSUME NEW o \in Obj, RenderSwitch(o) PROVE AInv'
    <2>1. intf' = [intf EXCEPT ![o] = [intf[o] EXCEPT !.anim = intf[o].next, !.next = NoAnim]]
        BY <1>3, <1>0 DEF RenderSwitch
    <2>2. intf[o] \in IntfSet /\ intf[o].next \in Anim
        BY <1>3, <1>0 DEF RenderSwitch
    <2>3. [intf[o] EXCEPT !.anim = intf[o].next, !.next = NoAnim] \in IntfSet
        BY <2>2
    <2> QED
        BY <1>0, <1>3, <2>1, <2>3, QuietAInv DEF RenderSwitch
<1>4. CASE LoadSprite
    <2>1. PICK ok \in BOOLEAN : NextSprite(ok)
        <3>1. cur.available \in BOOLEAN
            BY <1>4 DEF LoadSprite, Loading, AInv, ObjectsOK, Idle
        <3> QED
            BY <1>4, <3>1 DEF LoadSprite
    <2>2. cur \in [obj : Obj, offset : Offset, previous : Offset \cup {0},
                   sprite : Nat \ {0}, available : BOOLEAN]
        BY <1>4 DEF LoadSprite, Loading, AInv, ObjectsOK
    <2>3. cur' = [cur EXCEPT !.sprite = cur.sprite + 1, !.available = ok]
        BY <2>1 DEF NextSprite
    <2>4. cur' \in [obj : Obj, offset : Offset, previous : Offset \cup {0},
                    sprite : Nat \ {0}, available : BOOLEAN]
        <3>1. cur.sprite + 1 \in Nat \ {0}
            BY <2>2
        <3>2. cur' = [obj |-> cur.obj, offset |-> cur.offset, previous |-> cur.previous,
                      sprite |-> cur.sprite + 1, available |-> ok]
            BY <2>2, <2>3
        <3> QED
            BY <2>1, <2>2, <3>1, <3>2
    <2>5. intf' = intf /\ handle' = handle /\ starved' = starved
        BY <2>1 DEF NextSprite, animVars
    <2> QED
        BY <1>0, <2>4, <2>5, KeepAInv DEF AInv, ObjectsOK
<1>5. CASE EmitPicture
    <2>1. cur.obj \in Obj /\ cur' = Idle /\ handle' = handle /\ starved' = starved
        BY <1>5 DEF EmitPicture, Emit, Loaded, AInv, ObjectsOK
    <2>2. intf' = [intf EXCEPT ![cur.obj] = [intf[cur.obj] EXCEPT !.fresh = FALSE]]
        BY <1>5 DEF EmitPicture
    <2>3. [intf[cur.obj] EXCEPT !.fresh = FALSE] \in IntfSet
        <3>1. intf[cur.obj] \in IntfSet
            BY <1>0, <2>1
        <3> QED
            BY <3>1
    <2>4. intf' \in [Obj -> IntfSet]
        BY <1>0, <2>1, <2>2, <2>3
    <2> QED
        BY <2>1, <2>4, KeepAInv DEF AInv, ObjectsOK
<1>6. CASE EmitPrevious
    <2> DEFINE o == cur.obj
    <2>1. o \in Obj /\ cur.previous \in Offset /\ cur' = Idle /\ starved' = starved \cup {o}
        BY <1>6 DEF EmitPrevious, Emit, Loaded, AInv, ObjectsOK
    <2>2. /\ intf' = [intf EXCEPT ![o] = [intf[o] EXCEPT !.in_step = TRUE, !.fresh = FALSE]]
          /\ handle' = [handle EXCEPT ![o] = [handle[o] EXCEPT !.offset = cur.previous]]
        BY <1>0, <1>6, <2>1 DEF EmitPrevious
    <2>3. [intf[o] EXCEPT !.in_step = TRUE, !.fresh = FALSE] \in IntfSet
        <3>1. intf[o] \in IntfSet
            BY <1>0, <2>1
        <3> QED
            BY <3>1
    <2>4. [handle[o] EXCEPT !.offset = cur.previous] \in [offset : Offset \cup {0}, number : Nat]
        <3>1. handle[o] \in [offset : Offset \cup {0}, number : Nat]
            BY <2>1 DEF AInv, ObjectsOK
        <3> QED
            BY <2>1, <3>1
    <2>5. ObjectsOK'
        BY <1>0, <2>1, <2>2, <2>3, <2>4 DEF AInv, ObjectsOK
    <2>6. AnimationUnlessStarved'
        <3> SUFFICES ASSUME NEW q \in Obj \ starved' PROVE InAnimation(q)'
            BY DEF AnimationUnlessStarved
        <3>1. q # o /\ q \notin starved
            BY <2>1
        <3>2. handle'[q] = handle[q]
            BY <2>2, <3>1 DEF AInv, ObjectsOK
        <3> QED
            BY <3>1, <3>2 DEF AInv, AnimationUnlessStarved, InAnimation
    <2> QED
        BY <2>5, <2>6 DEF AInv
<1>7. CASE GiveUp
    <2>1. cur' = Idle /\ starved \subseteq starved' /\ handle' = handle /\ intf' = intf
        BY <1>7 DEF GiveUp, animVars
    <2> QED
        BY <1>0, <2>1, KeepAInv DEF AInv, ObjectsOK
<1>8. CASE EndFrame
    BY <1>0, <1>8, QuietAInv DEF EndFrame, animVars
<1> QED
    BY <1>1, <1>2, <1>3, <1>4, <1>5, <1>6, <1>7, <1>8 DEF Firmware

\* The invariant is inductive.
LEMMA NextAInv == AInv /\ [FrameNext]_vars => AInv'
<1> SUFFICES ASSUME AInv, [FrameNext]_vars PROVE AInv'
    OBVIOUS
<1>1. CASE UNCHANGED vars
    BY <1>1, QuietAInv DEF vars, AInv, ObjectsOK
<1> QED
    BY <1>1, GameAInv, FirmwareAInv DEF FrameNext

\* An object that was never refused a picture since it was assigned shows a
\* picture of the animation it is in, whatever else the frames drew.
THEOREM AnimationFollowed == FrameSpec => []AnimationUnlessStarved
<1>1. AInv => AnimationUnlessStarved
    BY DEF AInv
<1> QED
    BY <1>1, InitAInv, NextAInv, PTL DEF FrameSpec

\* Every frame is a behaviour of VramCache, which all it is proved to do
\* carries over to.
LEMMA FrameUsesCache == FrameSpec => Spec
<1>1. FrameInit => Init
    BY DEF FrameInit
<1>2. AInv /\ [FrameNext]_vars => [Next]_cacheVars
    <2> SUFFICES ASSUME AInv, [FrameNext]_vars PROVE Next \/ UNCHANGED cacheVars
        OBVIOUS
    <2>1. CASE UNCHANGED vars
        BY <2>1 DEF vars
    <2> QED
        BY <2>1, GameSteps, FirmwareSteps DEF AInv, FrameNext
<1>3. FrameInit => AInv
    BY InitAInv
<1>4. AInv /\ [FrameNext]_vars => AInv'
    BY NextAInv
<1> QED
    BY <1>1, <1>2, <1>3, <1>4, PTL DEF FrameSpec, Spec

\* While frames are built, the bookkeeping stays true to the video memory.
THEOREM FramesCoherent == FrameSpec => []Coherent
BY FrameUsesCache, Coherence, PTL
-----------------------------------------------------------------------------
(***************************************************************************)
(* What the sprites name and the video memory holds.                       *)
(***************************************************************************)
FInv == IInv /\ AInv /\ TInv

\* While a frame is rendered, a slot of this frame or of the last one keeps
\* its block and its standing, whatever the cache does.
LEMMA CacheKeeps ==
    ASSUME IInv, IInv', [Next]_cacheVars, rendering, rendering'
    PROVE  /\ frame' = frame /\ max_slot' = max_slot /\ usage \subseteq usage'
           /\ done' = done /\ vram' = vram
           /\ \A s \in Usable : last_use[s] >= frame =>
                block_num'[s] = block_num[s] /\ last_use'[s] >= frame
<1>1. CASE UNCHANGED cacheVars
    BY <1>1 DEF cacheVars, Usable
<1>2. CASE Next
    <2>1. PICK b \in Block : LoadHit(b) \/ LoadMiss(b) \/ LoadRefused(b)
        BY <1>2 DEF Next, SetBudget, ObjReset, FrameStart, MovePort, FrameEndBegin,
                    FrameEndFinish, GameDma
    <2>2. /\ frame' = frame /\ max_slot' = max_slot /\ usage \subseteq usage'
          /\ done' = done /\ vram' = vram
        BY <2>1 DEF LoadHit, LoadMiss, LoadRefused, cacheVars, gameVars
    <2>3. ASSUME NEW s \in Usable, last_use[s] >= frame
          PROVE  block_num'[s] = block_num[s] /\ last_use'[s] >= frame
        <3>1. s \in Slot /\ frame \in Nat /\ last_use \in [Slot -> Nat]
            BY UsableSlots DEF IInv, TypeOK
        <3>2. age[s] = 0
            BY <2>3, <3>1 DEF IInv, Ages
        <3>3. block_num'[s] = block_num[s]
            BY <1>2, <3>1, <3>2, BlocksChange DEF IsVictim, Evictable
        <3>4. last_use'[s] >= frame
            BY <2>1, <2>3, <3>1 DEF LoadHit, LoadMiss, LoadRefused, cacheVars
        <3> QED
            BY <3>3, <3>4
    <2> QED
        BY <2>2, <2>3
<1> QED
    BY <1>1, <1>2

\* So the blocks held, and those in use, stay so.
LEMMA HeldKept ==
    ASSUME IInv, IInv', [Next]_cacheVars, rendering, rendering', NEW b
    PROVE  (Held(b) => Held(b)') /\ (InUse(b) => InUse(b)')
<1>1. Usable' = Usable
    BY CacheKeeps DEF Usable
<1>2. Held(b) => Held(b)'
    BY <1>1, CacheKeeps DEF Held
<1>3. ASSUME InUse(b) PROVE InUse(b)'
    <2>1. PICK s \in Usable : block_num[s] = b /\ s \in usage
        BY <1>3 DEF InUse
    <2>2. last_use[s] >= frame
        BY <2>1, UsableSlots DEF IInv, Ages
    <2> QED
        BY <1>1, <2>1, <2>2, CacheKeeps DEF InUse
<1> QED
    BY <1>2, <1>3

\* A block in use is held, and ppm_vram_find_block names the slot of a block
\* that is held.
LEMMA SlotOfHeld ==
    ASSUME IInv, NEW b \in Block
    PROVE  /\ InUse(b) => Held(b)
           /\ SlotFound(b) \in Slot \cup {NoSlot}
           /\ Held(b) => /\ SlotFound(b) \in Usable /\ SlotFound(b) # NoSlot
                         /\ block_num[SlotFound(b)] = b /\ last_use[SlotFound(b)] >= frame
<1>0. Usable \subseteq Slot /\ NoSlot \notin Slot
    BY UsableSlots, CacheAssumption DEF IInv, NoSlot, Slot
<1>1. InUse(b) => Held(b)
    BY <1>0 DEF InUse, Held, IInv, Ages
<1>2. ASSUME NEW s \in SlotsOf(b) PROVE SlotFound(b) = s /\ s \in Usable /\ block_num[s] = b
    <2>1. b # NoBlock
        BY CacheAssumption
    <2>2. SlotsOf(b) = {s}
        BY <1>0, <1>2, <2>1 DEF SlotsOf, IInv, UniqueBlocks
    <2>3. s \in Usable /\ block_num[s] = b /\ s <= s
        BY <1>0, <1>2 DEF SlotsOf, Slot
    <2> QED
        BY <2>2, <2>3 DEF SlotFound, IsCached
<1>3. SlotFound(b) \in Slot \cup {NoSlot}
    BY <1>0, <1>2 DEF SlotFound, IsCached
<1>4. ASSUME Held(b)
      PROVE  /\ SlotFound(b) \in Usable /\ SlotFound(b) # NoSlot
             /\ block_num[SlotFound(b)] = b /\ last_use[SlotFound(b)] >= frame
    BY <1>0, <1>2, <1>4 DEF Held, SlotsOf
<1> QED
    BY <1>1, <1>3, <1>4
\* The sprites appended to the table are entries of it, each for a block of
\* the picture, and they continue the links.
LEMMA EntriesOf ==
    ASSUME IInv, sat \in Seq(Entry), NEW p \in Offset, NEW v \in Visible(p),
           NEW kind \in {"new", "fallback", "late"}
    PROVE  /\ Entries(p, v, kind) \in Seq(Entry)
           /\ \A n \in 1 .. Len(Entries(p, v, kind)) :
                /\ v[n] \in Drawable(p)
                /\ Entries(p, v, kind)[n] =
                    [block |-> Sprites[p][v[n]], slot |-> SlotFound(Sprites[p][v[n]]),
                     kind |-> kind, link |-> Len(sat) + n]
<1>1. PICK k \in Nat : v \in [1 .. k -> Drawable(p)]
    <2>1. Len(Sprites[p]) \in Nat
        BY FrameAssumption
    <2> QED
        BY <2>1 DEF Visible
<1> DEFINE e(n) == [block |-> Sprites[p][v[n]], slot |-> SlotFound(Sprites[p][v[n]]),
                    kind |-> kind, link |-> Len(sat) + n]
<1>2. Entries(p, v, kind) = [n \in 1 .. k |-> e(n)]
    BY <1>1 DEF Entries
<1>3. ASSUME NEW n \in 1 .. k PROVE v[n] \in Drawable(p) /\ e(n) \in Entry
    <2>1. v[n] \in Drawable(p)
        BY <1>1
    <2>2. Sprites[p][v[n]] \in Block
        <3>1. Sprites[p] \in Seq(Block \cup {NoBlock})
            BY FrameAssumption
        <3> QED
            BY <2>1, <3>1 DEF Drawable
    <2>3. SlotFound(Sprites[p][v[n]]) \in Slot \cup {NoSlot} /\ Len(sat) + n \in Nat
        BY <2>2, SlotOfHeld
    <2> QED
        BY <2>1, <2>2, <2>3 DEF Entry
<1> HIDE DEF e
<1>4. Entries(p, v, kind) \in Seq(Entry) /\ Len(Entries(p, v, kind)) = k
    BY <1>2, <1>3
<1>5. \A n \in 1 .. k : v[n] \in Drawable(p) /\ Entries(p, v, kind)[n] = e(n)
    BY <1>2, <1>3
<1> QED
    BY <1>4, <1>5 DEF e

\* Appending the sprites of a picture keeps the table right, if the blocks
\* of the picture are held whenever the kind of its sprites promises it.
LEMMA EmitTable ==
    ASSUME FInv, rendering, NEW p \in Offset, NEW kind \in {"new", "fallback", "late"},
           Emit(p, kind),
           kind # "late" => \A i \in Drawable(p) : Held(Sprites[p][i])
    PROVE  sat' \in Seq(Entry) /\ TableHeld' /\ OpenChain'
<1>1. /\ sat \in Seq(Entry) /\ TableHeld /\ OpenChain /\ IInv /\ game = "waits"
    BY DEF FInv, TInv, FrameInv, FrameTypeOK, Phases
<1>v. PICK v \in Visible(p) : sat' = sat \o Entries(p, v, kind)
    BY DEF Emit
<1>2. PICK t : t = Entries(p, v, kind) /\ sat' = sat \o t
    BY <1>v
<1>3. /\ t \in Seq(Entry)
      /\ \A n \in 1 .. Len(t) :
            /\ v[n] \in Drawable(p)
            /\ t[n].block = Sprites[p][v[n]] /\ t[n].slot = SlotFound(Sprites[p][v[n]])
            /\ t[n].kind = kind
            /\ t[n].link = Len(sat) + n
    <2>1. v \in Visible(p) /\ t = Entries(p, v, kind)
        BY <1>v, <1>2
    <2>2. /\ t \in Seq(Entry)
          /\ \A n \in 1 .. Len(t) :
                /\ v[n] \in Drawable(p)
                /\ t[n] = [block |-> Sprites[p][v[n]], slot |-> SlotFound(Sprites[p][v[n]]),
                           kind |-> kind, link |-> Len(sat) + n]
        BY <1>1, <2>1, EntriesOf
    <2>3. ASSUME NEW n \in 1 .. Len(t)
          PROVE  /\ v[n] \in Drawable(p)
                 /\ t[n].block = Sprites[p][v[n]] /\ t[n].slot = SlotFound(Sprites[p][v[n]])
                 /\ t[n].kind = kind
                 /\ t[n].link = Len(sat) + n
        <3>1. t[n] = [block |-> Sprites[p][v[n]], slot |-> SlotFound(Sprites[p][v[n]]),
                      kind |-> kind, link |-> Len(sat) + n]
            BY <2>2
        <3> QED
            BY <2>2, <3>1
    <2> QED
        BY <2>2, <2>3
<1>4. /\ sat' \in Seq(Entry) /\ Len(sat') = Len(sat) + Len(t)
      /\ \A i \in 1 .. Len(sat) : sat'[i] = sat[i]
      /\ \A i \in 1 .. Len(sat') : i \notin 1 .. Len(sat) =>
            i - Len(sat) \in 1 .. Len(t) /\ sat'[i] = t[i - Len(sat)]
    BY <1>1, <1>2, <1>3
<1>5. /\ game' = game /\ rendering' = rendering /\ frame' = frame /\ last_use' = last_use
      /\ block_num' = block_num /\ Usable' = Usable
    BY DEF Emit, cacheVars, Usable
<1>6. OpenChain'
    <2> SUFFICES ASSUME NEW i \in 1 .. Len(sat') PROVE sat'[i].link = i
        BY <1>4 DEF OpenChain
    <2>1. CASE i \in 1 .. Len(sat)
        BY <1>1, <1>4, <2>1 DEF OpenChain
    <2>2. CASE i \notin 1 .. Len(sat)
        <3>1. PICK n \in 1 .. Len(t) : n = i - Len(sat) /\ sat'[i] = t[n]
            BY <1>4, <2>2
        <3>2. Len(sat) \in Nat /\ i \in Nat /\ i = Len(sat) + n
            BY <1>1, <1>4, <3>1
        <3> QED
            BY <1>3, <3>1, <3>2
    <2> QED
        BY <2>1, <2>2
<1>7. TableHeld'
    <2> SUFFICES ASSUME NEW i \in 1 .. Len(sat'), sat'[i].kind \in {"new", "fallback"}
                 PROVE  /\ sat'[i].block # NoBlock
                        /\ sat'[i].slot # NoSlot /\ block_num[sat'[i].slot] = sat'[i].block
                        /\ sat'[i].slot \in Usable /\ last_use[sat'[i].slot] >= frame
        BY <1>4, <1>5 DEF TableHeld, HasItsBlock
    <2>1. CASE i \in 1 .. Len(sat)
        BY <1>1, <1>4, <2>1 DEF TableHeld, HasItsBlock
    <2>2. CASE i \notin 1 .. Len(sat)
        <3>1. PICK n \in 1 .. Len(t) : sat'[i] = t[n]
            BY <1>4, <2>2
        <3>2. PICK j \in Drawable(p) : /\ t[n].block = Sprites[p][j]
                                       /\ t[n].slot = SlotFound(Sprites[p][j])
            BY <1>3
        <3>3. Held(Sprites[p][j])
            BY <1>3, <3>1
        <3>4. Sprites[p][j] \in Block
            <4>1. Sprites[p] \in Seq(Block \cup {NoBlock})
                BY FrameAssumption
            <4> QED
                BY <4>1 DEF Drawable
        <3> QED
            BY <1>1, <3>1, <3>2, <3>3, <3>4, SlotOfHeld, CacheAssumption
    <2> QED
        BY <2>1, <2>2
<1> QED
    BY <1>4, <1>6, <1>7

\* A step that touches neither cache, handles nor tables keeps all of it.
LEMMA SameTInv ==
    ASSUME TInv, FrameTypeOK',
           UNCHANGED <<cacheVars, handle, draw_list, todo, cur, satVars, proper>>
    PROVE  TInv'
<1> USE DEF TInv, cacheVars, satVars
<1>1. FrameInv' /\ OpenChain' /\ Phases'
    BY DEF FrameInv, TableIsChain, OpenChain, Phases
<1>2. \A b : (Held(b)' <=> Held(b)) /\ (InUse(b)' <=> InUse(b))
    BY DEF Held, InUse, Usable
<1>3. Progress' /\ ProperHeld' /\ DrawnInUse'
    <2>1. \A o : Shown(o)' = Shown(o)
        BY DEF Shown
    <2> QED
        BY <1>2, <2>1 DEF Progress, ProperHeld, DrawnInUse, Listed
<1>4. TableHeld' /\ ScreenHasBlocks'
    BY DEF TableHeld, ScreenHasBlocks, HasItsBlock, Usable
<1> QED
    BY <1>1, <1>3, <1>4

\* Between two frames only the game moves: what it does to the cache is
\* forgotten with the objects drawn, and its screen is out of its reach.
LEMMA QuietTInv ==
    ASSUME FInv, ~rendering, ~rendering', game # "waits", game' # "waits", FrameTypeOK',
           \/ proper' = {}
           \/ proper' = proper /\ UNCHANGED <<block_num, max_slot, last_use>>,
           UNCHANGED <<frame, done, dma_cmd, vram, handle, todo, cur, sat, screen>>
    PROVE  TInv'
<1> USE DEF FInv, TInv
<1>1. FrameInv' /\ OpenChain' /\ Phases'
    BY DEF FrameInv, TableIsChain, OpenChain, Phases
<1>2. Progress' /\ DrawnInUse' /\ TableHeld'
    BY DEF Phases, Progress, DrawnInUse, TableHeld
<1>3. ProperHeld'
    BY DEF ProperHeld, Shown, Held, Usable
<1>4. ScreenHasBlocks'
    BY DEF ScreenHasBlocks, HasItsBlock
<1> QED
    BY <1>1, <1>2, <1>3, <1>4

\* The commands of the game.
LEMMA GameTInv ==
    ASSUME FInv, IInv', AInv', Game
    PROVE  TInv'
<1>0. /\ TInv /\ FrameTypeOK /\ Phases /\ TypeOK' /\ ObjectsOK'
      /\ MaxDraw \in Nat /\ MaxChanges \in Nat
    BY FrameAssumption DEF FInv, TInv, FrameInv, IInv, AInv
<1>1. ASSUME NEW o \in Obj, NEW e, Describe(o, e) PROVE TInv'
    <2>1. FrameTypeOK'
        BY <1>0, <1>1 DEF FrameTypeOK, Describe, Change, satVars
    <2> QED
        BY <1>0, <1>1, <2>1, SameTInv DEF Describe
<1>2. ASSUME NEW o \in Obj, CmdObjAdd(o) PROVE TInv'
    <2>1. draw_list' \in Seq(Obj) /\ Len(draw_list') <= MaxDraw
        BY <1>0, <1>2 DEF FrameTypeOK, CmdObjAdd
    <2>2. FrameTypeOK'
        BY <1>0, <1>2, <2>1 DEF FrameTypeOK, CmdObjAdd, satVars
    <2> QED
        BY <1>0, <1>2, <2>2, QuietTInv DEF CmdObjAdd, satVars, cacheVars, animVars, Phases
<1>3. ASSUME NEW n \in Budgets, CmdBudget(n) PROVE TInv'
    <2>1. FrameTypeOK'
        BY <1>0, <1>3 DEF FrameTypeOK, CmdBudget, Change, satVars
    <2> QED
        BY <1>0, <1>3, <2>1, QuietTInv
        DEF CmdBudget, Change, SetBudget, satVars, gameVars, dmaVars, animVars, Phases
<1>4. CASE CmdObjReset
    <2>1. FrameTypeOK'
        BY <1>0, <1>4 DEF FrameTypeOK, CmdObjReset, Change, satVars
    <2> QED
        BY <1>0, <1>4, <2>1, QuietTInv
        DEF CmdObjReset, Change, ObjReset, satVars, gameVars, dmaVars, Phases
<1>5. CASE CmdFrameStart
    <2>1. FrameTypeOK'
        BY <1>0, <1>5 DEF FrameTypeOK, CmdFrameStart
    <2> QED
        BY <1>0, <1>5, <2>1, QuietTInv
        DEF CmdFrameStart, FrameStart, gameVars, dmaVars, animVars, Phases
<1>6. ASSUME NEW t \in DmaTotals, CmdFrameEnd(t) PROVE TInv'
    <2>0. PICK n \in Nat : sat' = [i \in 1 .. n |->
            [block |-> NoBlock, slot |-> NoSlot, kind |-> "game", link |-> i]]
        BY <1>6, FrameAssumption DEF CmdFrameEnd
    <2>1. sat' \in Seq(Entry) /\ \A i \in DOMAIN sat' : sat'[i].kind = "game" /\ sat'[i].link = i
        <3>1. \A i \in 1 .. n :
                [block |-> NoBlock, slot |-> NoSlot, kind |-> "game", link |-> i] \in Entry
            BY DEF Entry
        <3> QED
            BY <2>0, <3>1
    <2>2. /\ ~rendering /\ rendering' /\ game' = "waits" /\ todo' = draw_list /\ cur = Idle
          /\ UNCHANGED <<block_num, usage, max_slot, frame, last_use, vram, handle, cur,
                         draw_list, screen, changes, proper, starved>>
        BY <1>0, <1>6 DEF CmdFrameEnd, FrameEndBegin, slotVars, animVars, Phases
    <2>3. FrameTypeOK'
        BY <1>0, <2>1, <2>2 DEF FrameTypeOK
    <2>4. FrameInv' /\ OpenChain' /\ Phases' /\ TableHeld'
        BY <2>1, <2>2, <2>3 DEF FrameInv, TableIsChain, OpenChain, Phases, TableHeld
    <2>5. Progress' /\ DrawnInUse' /\ ScreenHasBlocks'
        BY <2>2 DEF Progress, DrawnInUse, ScreenHasBlocks
    <2>6. ProperHeld'
        BY <1>0, <2>2 DEF TInv, ProperHeld, Shown, Held, Usable
    <2> QED
        BY <2>4, <2>5, <2>6 DEF TInv
<1>7. CASE RunCommand
    <2>1. /\ ~rendering /\ done < Len(dma_cmd) /\ game = "waits"
          /\ UNCHANGED <<block_num, max_slot, rendering, frame, last_use, handle, cur, todo,
                         draw_list, sat, screen, game, changes, proper, starved>>
        BY <1>0, <1>7 DEF RunCommand, GameDma, slotVars, satVars, animVars, Phases,
                          FrameTypeOK, TypeOK
    <2>2. FrameTypeOK'
        BY <1>0, <2>1 DEF FrameTypeOK
    <2>3. FrameInv' /\ OpenChain' /\ Phases' /\ TableHeld'
        BY <1>0, <2>1, <2>2
        DEF TInv, FrameInv, TableIsChain, OpenChain, Phases, TableHeld, HasItsBlock
    <2>4. Progress' /\ DrawnInUse' /\ ScreenHasBlocks'
        BY <1>0, <2>1 DEF Progress, DrawnInUse, ScreenHasBlocks, Phases
    <2>5. ProperHeld'
        BY <1>0, <2>1 DEF TInv, ProperHeld, Shown, Held, Usable
    <2> QED
        BY <2>3, <2>4, <2>5 DEF TInv
<1>8. CASE Show
    <2>1. /\ ~rendering /\ done = Len(dma_cmd) /\ game = "waits" /\ game' = "describes"
          /\ screen' = sat
          /\ UNCHANGED <<cacheVars, handle, cur, todo, draw_list, sat, changes, proper, starved>>
        BY <1>8 DEF Show, animVars
    <2>2. FrameTypeOK'
        BY <1>0, <2>1 DEF FrameTypeOK
    <2>3. FrameInv' /\ OpenChain' /\ Phases' /\ TableHeld'
        BY <1>0, <2>1, <2>2
        DEF TInv, FrameInv, TableIsChain, OpenChain, Phases, TableHeld, cacheVars
    <2>4. Progress' /\ DrawnInUse'
        BY <1>0, <2>1 DEF Progress, DrawnInUse, Phases, cacheVars
    <2>5. ProperHeld'
        BY <1>0, <2>1 DEF TInv, ProperHeld, Shown, Held, Usable, cacheVars
    <2>6. ScreenHasBlocks'
        <3> SUFFICES ASSUME NEW i \in DOMAIN sat, sat[i].kind \in {"new", "fallback"}
                     PROVE  HasItsBlock(sat[i], vram)
            BY <2>1 DEF ScreenHasBlocks, HasItsBlock, cacheVars
        <3>1. /\ sat[i].block # NoBlock /\ sat[i].slot # NoSlot
              /\ block_num[sat[i].slot] = sat[i].block
            BY <1>0, <2>1 DEF TInv, TableHeld, HasItsBlock
        <3>2. sat[i].slot \in Slot
            <4>1. sat[i] \in Entry
                BY <1>0 DEF FrameTypeOK
            <4> QED
                BY <3>1, <4>1 DEF Entry
        <3>3. \A k \in 1 .. Len(dma_cmd) : ~Pending(k)
            BY <1>0, <2>1 DEF Pending, FrameTypeOK, TypeOK
        <3> QED
            BY <3>1, <3>2, <3>3 DEF HasItsBlock, FInv, IInv, Coherent
    <2> QED
        BY <2>3, <2>4, <2>5, <2>6 DEF TInv
<1>9. CASE LastFrame
    <2>1. FrameTypeOK'
        BY <1>0, <1>9 DEF LastFrame, vars, FrameTypeOK
    <2> QED
        BY <1>0, <1>9, <2>1, SameTInv DEF LastFrame, vars, satVars
<1> QED
    BY <1>1, <1>2, <1>3, <1>4, <1>5, <1>6, <1>7, <1>8, <1>9
    DEF Game, AssignObject, SwitchAnimation, QueueAnimation, TouchCounter

\* A step of a render that writes no sprite: the table is as right as before.
LEMMA TableKept ==
    ASSUME FInv, IInv', [Next]_cacheVars, rendering, rendering', FrameTypeOK',
           UNCHANGED <<sat, screen, game>>
    PROVE  FrameInv' /\ OpenChain' /\ TableHeld' /\ ScreenHasBlocks'
<1>1. TInv /\ IInv /\ Usable' = Usable /\ frame' = frame /\ game = "waits"
    BY CacheKeeps DEF FInv, TInv, Phases, Usable
<1>2. FrameInv' /\ OpenChain' /\ ScreenHasBlocks'
    BY <1>1 DEF FrameInv, TableIsChain, TInv, OpenChain, ScreenHasBlocks
<1>3. TableHeld'
    <2> SUFFICES ASSUME NEW i \in DOMAIN sat, sat[i].kind \in {"new", "fallback"}
                 PROVE  /\ sat[i].block # NoBlock /\ sat[i].slot # NoSlot
                        /\ block_num'[sat[i].slot] = sat[i].block
                        /\ sat[i].slot \in Usable /\ last_use'[sat[i].slot] >= frame
        BY <1>1 DEF TableHeld, HasItsBlock
    <2>1. /\ sat[i].block # NoBlock /\ sat[i].slot # NoSlot
          /\ block_num[sat[i].slot] = sat[i].block
          /\ sat[i].slot \in Usable /\ last_use[sat[i].slot] >= frame
        BY <1>1 DEF TInv, TableHeld, HasItsBlock
    <2> QED
        BY <1>1, <2>1, CacheKeeps
<1> QED
    BY <1>2, <1>3

\* An object still to be drawn is the first or comes after it.
LEMMA ListedTail ==
    ASSUME NEW list \in Seq(Obj), list # << >>, NEW q, Listed(q, list), q # Head(list)
    PROVE  Listed(q, Tail(list))
<1>1. PICK i \in 1 .. Len(list) : list[i] = q
    BY DEF Listed
<1>2. i # 1
    BY <1>1
<1>3. i - 1 \in 1 .. Len(Tail(list)) /\ Tail(list)[i - 1] = list[i]
    BY <1>1, <1>2
<1>4. DOMAIN Tail(list) = 1 .. Len(Tail(list))
    BY Tail(list) \in Seq(Obj)
<1> QED
    BY <1>1, <1>3, <1>4 DEF Listed

\* An object that is passed over is no longer drawn from loaded blocks.
LEMMA SkipTInv ==
    ASSUME FInv, rendering, FrameTypeOK', cur = Idle, NEW o \in Obj, NEW n,
           todo # << >>, o = Head(todo), Skip(o), handle' = [handle EXCEPT ![o].offset = n]
    PROVE  TInv'
<1>1. /\ TInv /\ IInv /\ todo \in Seq(Obj)
      /\ UNCHANGED <<cacheVars, draw_list, cur, sat, screen, game>>
      /\ todo' = Tail(todo) /\ proper' = proper \ {o} /\ rendering'
    BY DEF FInv, Skip, satVars, cacheVars, TInv, FrameInv, FrameTypeOK
<1>2. FrameInv' /\ OpenChain' /\ TableHeld' /\ ScreenHasBlocks'
    BY <1>1, TableKept, StutterIInv
<1>3. Phases' /\ Progress'
    BY <1>1 DEF TInv, Phases, Progress, cacheVars
<1>4. handle \in [Obj -> [offset : Offset \cup {0}, number : Nat]] /\ proper \subseteq Obj
    BY <1>1 DEF FInv, AInv, ObjectsOK, TInv, FrameInv, FrameTypeOK
<1>5. \A q \in proper' : q # o /\ q \in proper /\ handle'[q] = handle[q]
    BY <1>1, <1>4
<1>6. ProperHeld'
    BY <1>1, <1>5 DEF TInv, ProperHeld, Shown, Held, Usable, cacheVars, Idle
<1>7. DrawnInUse'
    <2> SUFFICES ASSUME NEW q \in proper', Listed(q, draw_list), ~Listed(q, Tail(todo)),
                        handle[q].offset # 0, NEW i \in Drawable(handle[q].offset)
                 PROVE  InUse(Sprites[handle[q].offset][i])
        BY <1>1, <1>5 DEF DrawnInUse, InUse, Usable, cacheVars
    <2>1. ~Listed(q, todo)
        BY <1>1, <1>5, ListedTail
    <2> QED
        BY <1>1, <1>5, <2>1 DEF TInv, DrawnInUse
<1> QED
    BY <1>2, <1>3, <1>6, <1>7 DEF TInv

\* A render begins: the picture shown so far is the one to fall back on.
LEMMA StartTInv ==
    ASSUME FInv, rendering, FrameTypeOK', cur = Idle, NEW o \in Obj, NEW p \in Offset,
           NEW previous, todo # << >>, o = Head(todo), Start(o, p, previous),
           handle'[o].offset = p, \A q \in Obj \ {o} : handle'[q] = handle[q],
           previous \in {0, handle[o].offset}
    PROVE  TInv'
<1>1. /\ TInv /\ IInv /\ todo \in Seq(Obj) /\ proper \subseteq Obj
      /\ UNCHANGED <<cacheVars, draw_list, sat, screen, game, proper>>
      /\ todo' = Tail(todo) /\ rendering'
      /\ cur' # Idle /\ cur'.obj = o /\ cur'.offset = p /\ cur'.previous = previous
      /\ cur'.sprite = 1
    BY DEF FInv, Start, satVars, cacheVars, TInv, FrameInv, FrameTypeOK, Idle
<1>2. FrameInv' /\ OpenChain' /\ TableHeld' /\ ScreenHasBlocks'
    BY <1>1, TableKept, StutterIInv
<1>3. Phases'
    BY <1>1 DEF TInv, Phases, cacheVars
<1>4. Progress'
    <2>1. \A i \in Drawable(p) : ~(i < 1)
        <3>1. Sprites[p] \in Seq(Block \cup {NoBlock})
            BY FrameAssumption
        <3> QED
            BY <3>1 DEF Drawable
    <2> QED
        BY <1>1, <2>1 DEF Progress
<1>5. ProperHeld'
    <2> SUFFICES ASSUME NEW q \in proper, Shown(q)' # 0 PROVE Shown(q)' = Shown(q)
        BY <1>1 DEF TInv, ProperHeld, Held, Usable, cacheVars
    <2>1. CASE q = o
        BY <1>1, <2>1 DEF Shown, Idle
    <2>2. CASE q # o
        BY <1>1, <2>2 DEF Shown, Idle
    <2> QED
        BY <2>1, <2>2
<1>6. DrawnInUse'
    <2> SUFFICES ASSUME NEW q \in proper, Listed(q, draw_list), ~Listed(q, Tail(todo)), q # o,
                        handle[q].offset # 0, NEW i \in Drawable(handle[q].offset)
                 PROVE  InUse(Sprites[handle[q].offset][i])
        <3>1. \A q \in proper : q # o => handle'[q] = handle[q]
            BY <1>1
        <3>2. \A b \in Block : InUse(b)' <=> InUse(b)
            BY <1>1 DEF InUse, Usable, cacheVars
        <3> QED
            BY <1>1, <3>1, <3>2 DEF DrawnInUse, InUse, Usable, cacheVars
    <2>1. ~Listed(q, todo)
        BY <1>1, ListedTail
    <2> QED
        BY <1>1, <2>1 DEF TInv, DrawnInUse
<1> QED
    BY <1>2, <1>3, <1>4, <1>5, <1>6 DEF TInv

\* Asking for a block that is there, or that can be brought, puts it in use.
LEMMA LoadedInUse ==
    ASSUME IInv, NEW b \in Block, LoadHit(b) \/ LoadMiss(b)
    PROVE  InUse(b)'
<1>1. CASE LoadHit(b)
    <2>1. PICK s \in SlotsOf(b) : usage' = usage \cup {s}
        BY <1>1 DEF LoadHit
    <2> QED
        BY <1>1, <2>1 DEF LoadHit, SlotsOf, InUse, Usable
<1>2. CASE LoadMiss(b)
    <2>1. PICK v \in Usable : usage' = usage \cup {v} /\ block_num' = [block_num EXCEPT ![v] = b]
        BY <1>2 DEF LoadMiss
    <2>2. v \in Slot /\ block_num \in [Slot -> Block \cup {NoBlock}] /\ max_slot' = max_slot
        BY <1>2, <2>1, UsableSlots DEF IInv, TypeOK, LoadMiss
    <2> QED
        BY <2>1, <2>2 DEF InUse, Usable
<1> QED
    BY <1>1, <1>2

\* Each block of a picture that is not refused stays in use until the
\* picture is drawn.
LEMMA LoadSpriteTInv ==
    ASSUME FInv, IInv', AInv', LoadSprite
    PROVE  TInv'
<1>1. /\ TInv /\ IInv /\ FrameTypeOK /\ Phases /\ cur # Idle /\ rendering
      /\ cur \in [obj : Obj, offset : Offset, previous : Offset \cup {0},
                  sprite : Nat \ {0}, available : BOOLEAN]
      /\ cur.sprite \in 1 .. Len(Sprites[cur.offset])
      /\ Sprites[cur.offset] \in Seq(Block \cup {NoBlock})
      /\ IInv' /\ AInv'
    <2>1. TInv /\ IInv /\ FrameTypeOK /\ Phases /\ ObjectsOK
        BY DEF FInv, TInv, FrameInv, FrameTypeOK
    <2>2. cur # Idle /\ cur.sprite <= Len(Sprites[cur.offset])
        BY DEF LoadSprite, Loading
    <2>3. rendering
        BY <2>1, <2>2 DEF Phases
    <2>4. cur \in [obj : Obj, offset : Offset, previous : Offset \cup {0},
                   sprite : Nat \ {0}, available : BOOLEAN]
        BY <2>1, <2>2 DEF ObjectsOK
    <2>5. Sprites[cur.offset] \in Seq(Block \cup {NoBlock}) /\ cur.sprite \in Nat \ {0}
        BY <2>4, FrameAssumption
    <2>6. cur.sprite \in 1 .. Len(Sprites[cur.offset])
        BY <2>2, <2>5
    <2> QED
        BY <2>1, <2>2, <2>3, <2>4, <2>5, <2>6
<1>2. [Next]_cacheVars /\ rendering'
    <2>1. [Next]_cacheVars
        BY FirmwareSteps DEF FInv, AInv, Firmware
    <2> QED
        BY <1>1, <2>1 DEF LoadSprite, LoadHit, LoadMiss, LoadRefused, cacheVars
<1> PICK p, w : p = cur.offset /\ w = WantedBlock
    OBVIOUS
<1>3. PICK ok \in BOOLEAN :
        /\ NextSprite(ok)
        /\ ok => cur.available /\ (w # NoBlock => InUse(w)')
    <2>1. CASE w = NoBlock /\ NextSprite(cur.available)
        BY <1>1, <2>1
    <2>2. CASE w # NoBlock
        <3>1. w \in Block
            BY <1>1, <2>2 DEF WantedBlock
        <3>2. \/ (LoadHit(w) \/ LoadMiss(w)) /\ NextSprite(cur.available)
              \/ NextSprite(FALSE)
            BY <2>2 DEF LoadSprite
        <3> QED
            BY <1>1, <3>1, <3>2, LoadedInUse
    <2> QED
        BY <2>1, <2>2 DEF LoadSprite
<1>4. /\ UNCHANGED <<intf, handle, draw_list, todo, sat, screen, game, changes, proper, starved>>
      /\ cur' = [obj |-> cur.obj, offset |-> cur.offset, previous |-> cur.previous,
                 sprite |-> cur.sprite + 1, available |-> ok]
    BY <1>1, <1>3 DEF NextSprite, animVars, satVars
<1>5. cur' # Idle
    BY <1>4 DEF Idle
<1>6. FrameTypeOK'
    BY <1>1, <1>4 DEF FrameTypeOK, IInv, AInv
<1>7. FrameInv' /\ OpenChain' /\ TableHeld' /\ ScreenHasBlocks'
    BY <1>1, <1>2, <1>4, <1>6, TableKept
<1>8. Phases'
    BY <1>1, <1>2, <1>4 DEF Phases
<1>9. Progress'
    <2> SUFFICES ASSUME ok, NEW i \in Drawable(p), i < cur.sprite + 1
                 PROVE  InUse(Sprites[p][i])'
        BY <1>1, <1>4 DEF TInv, Progress
    <2>1. CASE i < cur.sprite
        <3>1. InUse(Sprites[p][i])
            BY <1>1, <1>3, <2>1 DEF TInv, Progress
        <3> QED
            BY <1>1, <1>2, <3>1, HeldKept
    <2>2. CASE i = cur.sprite
        <3>1. w = Sprites[p][i] /\ w # NoBlock
            BY <2>2 DEF WantedBlock, Drawable
        <3> QED
            BY <1>3, <3>1
    <2> QED
        BY <1>1, <2>1, <2>2 DEF Drawable
<1>10. ProperHeld'
    <2> SUFFICES ASSUME NEW o \in proper, Shown(o) # 0, NEW i \in Drawable(Shown(o))
                 PROVE  Held(Sprites[Shown(o)][i])'
        BY <1>1, <1>4, <1>5 DEF ProperHeld, Shown
    <2>1. Held(Sprites[Shown(o)][i])
        BY <1>1 DEF TInv, ProperHeld
    <2>2. Shown(o)' = Shown(o)
        BY <1>1, <1>4, <1>5 DEF Shown
    <2> QED
        BY <1>1, <1>2, <2>1, <2>2, HeldKept
<1>11. DrawnInUse'
    <2> SUFFICES ASSUME NEW o \in proper, Listed(o, draw_list), ~Listed(o, todo), cur.obj # o,
                        handle[o].offset # 0, NEW i \in Drawable(handle[o].offset)
                 PROVE  InUse(Sprites[handle[o].offset][i])'
        BY <1>1, <1>4, <1>5 DEF DrawnInUse
    <2>1. InUse(Sprites[handle[o].offset][i])
        BY <1>1 DEF TInv, DrawnInUse
    <2> QED
        BY <1>1, <1>2, <1>4, <2>1, HeldKept
<1> QED
    BY <1>7, <1>8, <1>9, <1>10, <1>11 DEF TInv

\* The blocks of a picture are blocks.
LEMMA BlocksOfPicture ==
    ASSUME NEW p \in Offset, NEW i \in Drawable(p)
    PROVE  i \in 1 .. Len(Sprites[p]) /\ Sprites[p][i] \in Block
<1>1. Sprites[p] \in Seq(Block \cup {NoBlock})
    BY FrameAssumption
<1> QED
    BY <1>1 DEF Drawable

\* A render ends: what is known of the other objects stays true.
LEMMA FinishTInv ==
    ASSUME FInv, FrameTypeOK', OpenChain', TableHeld', rendering, cur # Idle, cur' = Idle,
           UNCHANGED <<cacheVars, draw_list, todo, screen, game>>,
           sat' = sat \/ sat' \in Seq(Entry),
           NEW o \in Obj, o = cur.obj,
           \A q \in Obj \ {o} : handle'[q] = handle[q],
           proper' \subseteq proper \cup {o},
           o \in proper' => /\ handle'[o].offset = cur.offset
                            /\ \A i \in Drawable(cur.offset) : InUse(Sprites[cur.offset][i])
    PROVE  TInv'
<1>1. /\ TInv /\ IInv /\ game = "waits" /\ rendering' /\ proper \subseteq Obj
      /\ \A b : (Held(b)' <=> Held(b)) /\ (InUse(b)' <=> InUse(b))
      /\ cur \in [obj : Obj, offset : Offset, previous : Offset \cup {0},
                  sprite : Nat \ {0}, available : BOOLEAN]
    BY DEF FInv, AInv, ObjectsOK, TInv, FrameInv, FrameTypeOK, Phases, cacheVars,
           Held, InUse, Usable
<1>2. FrameInv' /\ Phases' /\ Progress' /\ ScreenHasBlocks'
    BY <1>1 DEF FrameInv, TableIsChain, Phases, Progress, ScreenHasBlocks
<1>3. PICK p : p = cur.offset /\ p \in Offset
    BY <1>1
<1>4. ProperHeld'
    <2> SUFFICES ASSUME NEW q \in proper', handle'[q].offset # 0,
                        NEW i \in Drawable(handle'[q].offset)
                 PROVE  Held(Sprites[handle'[q].offset][i])
        BY <1>1 DEF ProperHeld, Shown
    <2>1. CASE q = o
        <3>1. handle'[q].offset = p /\ InUse(Sprites[p][i]) /\ Sprites[p][i] \in Block
            BY <1>3, <2>1, BlocksOfPicture
        <3> QED
            BY <1>1, <3>1, SlotOfHeld
    <2>2. CASE q # o
        <3>1. q \in proper /\ Shown(q) = handle[q].offset /\ handle'[q] = handle[q]
            BY <1>1, <2>2 DEF Shown
        <3> QED
            BY <1>1, <3>1 DEF TInv, ProperHeld
    <2> QED
        BY <2>1, <2>2
<1>5. DrawnInUse'
    <2> SUFFICES ASSUME NEW q \in proper', Listed(q, draw_list), ~Listed(q, todo),
                        handle'[q].offset # 0, NEW i \in Drawable(handle'[q].offset)
                 PROVE  InUse(Sprites[handle'[q].offset][i])
        BY <1>1 DEF DrawnInUse
    <2>1. CASE q = o
        BY <2>1
    <2>2. CASE q # o
        <3>1. q \in proper /\ handle'[q] = handle[q]
            BY <1>1, <2>2
        <3> QED
            BY <1>1, <2>2, <3>1 DEF TInv, DrawnInUse
    <2> QED
        BY <2>1, <2>2
<1> QED
    BY <1>2, <1>4, <1>5 DEF TInv

\* The picture is drawn, from blocks this frame uses.
LEMMA EmitPictureTInv ==
    ASSUME FInv, IInv', AInv', EmitPicture
    PROVE  TInv'
<1>1. /\ TInv /\ IInv /\ FrameTypeOK /\ Phases /\ cur # Idle /\ rendering
      /\ cur \in [obj : Obj, offset : Offset, previous : Offset \cup {0},
                  sprite : Nat \ {0}, available : BOOLEAN]
      /\ cur.sprite > Len(Sprites[cur.offset]) /\ cur.available
      /\ Emit(cur.offset, "new") /\ IInv' /\ AInv'
    BY DEF FInv, AInv, ObjectsOK, TInv, FrameInv, Phases, EmitPicture, Loaded
<1>2. /\ UNCHANGED <<cacheVars, handle, draw_list, todo, screen, game, changes, starved>>
      /\ cur' = Idle /\ proper' = proper \cup {cur.obj}
    BY DEF EmitPicture, Emit
<1>3. PICK p \in Offset : p = cur.offset
    BY <1>1
<1>4. \A i \in Drawable(p) : InUse(Sprites[p][i]) /\ Held(Sprites[p][i])
    <2> TAKE i \in Drawable(p)
    <2>1. i \in 1 .. Len(Sprites[p]) /\ Sprites[p][i] \in Block /\ Len(Sprites[p]) \in Nat
        BY BlocksOfPicture, FrameAssumption
    <2>2. InUse(Sprites[p][i])
        BY <1>1, <1>3, <2>1 DEF TInv, Progress
    <2> QED
        BY <1>1, <2>1, <2>2, SlotOfHeld
<1>5. sat' \in Seq(Entry) /\ TableHeld' /\ OpenChain'
    BY <1>1, <1>3, <1>4, EmitTable
<1>6. FrameTypeOK'
    BY <1>1, <1>2, <1>5 DEF FrameTypeOK, IInv, AInv
<1>7. handle[cur.obj].offset = cur.offset
    BY <1>1 DEF TInv, Progress
<1> QED
    BY <1>1, <1>2, <1>3, <1>4, <1>5, <1>6, <1>7, FinishTInv

\* The previous picture is drawn, from the blocks of the frame before.
LEMMA EmitPreviousTInv ==
    ASSUME FInv, IInv', AInv', EmitPrevious
    PROVE  TInv'
<1> DEFINE kind == IF cur.obj \in proper THEN "fallback" ELSE "late"
<1>1. /\ TInv /\ IInv /\ FrameTypeOK /\ Phases /\ cur # Idle /\ rendering
      /\ cur \in [obj : Obj, offset : Offset, previous : Offset \cup {0},
                  sprite : Nat \ {0}, available : BOOLEAN]
      /\ cur.previous # 0 /\ Emit(cur.previous, kind) /\ IInv' /\ AInv'
      /\ handle \in [Obj -> [offset : Offset \cup {0}, number : Nat]]
    BY DEF FInv, AInv, ObjectsOK, TInv, FrameInv, Phases, EmitPrevious, Loaded
<1>2. /\ UNCHANGED <<cacheVars, draw_list, todo, screen, game, changes>>
      /\ cur' = Idle /\ proper' = proper \ {cur.obj} /\ starved' = starved \cup {cur.obj}
      /\ handle' = [handle EXCEPT ![cur.obj].offset = cur.previous]
    BY DEF EmitPrevious, Emit
<1>3. PICK p \in Offset : p = cur.previous
    BY <1>1
<1>4. cur.obj \in proper => \A i \in Drawable(p) : Held(Sprites[p][i])
    BY <1>1, <1>3 DEF TInv, ProperHeld, Shown
<1>5. sat' \in Seq(Entry) /\ TableHeld' /\ OpenChain'
    <2>1. kind \in {"new", "fallback", "late"} /\ (kind # "late" => cur.obj \in proper)
        OBVIOUS
    <2> HIDE DEF kind
    <2> QED
        BY <1>1, <1>3, <1>4, <2>1, EmitTable
<1>6. FrameTypeOK'
    BY <1>1, <1>2, <1>5 DEF FrameTypeOK, IInv, AInv
<1>7. cur.obj \notin proper' /\ \A q \in Obj \ {cur.obj} : handle'[q] = handle[q]
    BY <1>1, <1>2
<1> QED
    BY <1>1, <1>2, <1>5, <1>6, <1>7, FinishTInv

\* Nothing is drawn.
LEMMA GiveUpTInv ==
    ASSUME FInv, IInv', AInv', GiveUp
    PROVE  TInv'
<1>1. /\ TInv /\ FrameTypeOK /\ Phases /\ cur # Idle /\ rendering /\ IInv' /\ AInv'
      /\ cur.obj \in Obj
    BY DEF FInv, AInv, ObjectsOK, TInv, FrameInv, Phases, GiveUp, Loaded
<1>2. /\ UNCHANGED <<cacheVars, handle, draw_list, todo, sat, screen, game, changes>>
      /\ cur' = Idle /\ proper' = proper \ {cur.obj} /\ starved' \subseteq starved \cup {cur.obj}
    BY DEF GiveUp, animVars, satVars
<1>3. FrameTypeOK' /\ OpenChain'
    BY <1>1, <1>2 DEF FrameTypeOK, IInv, AInv, TInv, OpenChain, cacheVars
<1>4. TableHeld'
    BY <1>1, <1>2, <1>3, TableKept, StutterIInv DEF FInv, cacheVars
<1> QED
    BY <1>1, <1>2, <1>3, <1>4, FinishTInv

\* Closing the table changes no sprite and ends the chain.
LEMMA ClosedTable ==
    ASSUME NEW t \in Seq(Entry), \A i \in DOMAIN t : t[i].link = i
    PROVE  /\ Closed(t) \in Seq(Entry) /\ Closed(t) # << >>
           /\ \A i \in DOMAIN Closed(t) :
                /\ Closed(t)[i].link = IF i = Len(Closed(t)) THEN 0 ELSE i
                /\ Closed(t)[i].kind # "dummy" =>
                    /\ i \in DOMAIN t /\ Closed(t)[i].kind = t[i].kind
                    /\ Closed(t)[i].block = t[i].block /\ Closed(t)[i].slot = t[i].slot
<1>1. CASE t = << >>
    <2> DEFINE dummy == [block |-> NoBlock, slot |-> NoSlot, kind |-> "dummy", link |-> 0]
    <2>1. dummy \in Entry /\ dummy.link = 0 /\ dummy.kind = "dummy" /\ Closed(t) = <<dummy>>
        BY <1>1 DEF Entry, Closed
    <2> HIDE DEF dummy
    <2>2. Closed(t) \in Seq(Entry) /\ Len(Closed(t)) = 1 /\ Closed(t)[1] = dummy
        BY <2>1
    <2>3. DOMAIN Closed(t) = 1 .. Len(Closed(t))
        BY <2>2
    <2>4. \A i \in DOMAIN Closed(t) : i = 1
        BY <2>2, <2>3
    <2>5. Closed(t) # << >>
        <3>1. Len(<< >>) # 1
            OBVIOUS
        <3> QED
            BY <2>2, <3>1, Zenon
    <2> QED
        BY <2>1, <2>2, <2>4, <2>5
<1>2. CASE t # << >>
    <2>1. PICK n \in 1 .. Len(t) : n = Len(t)
        BY <1>2
    <2>2. PICK e : e = [t[n] EXCEPT !.link = 0]
        OBVIOUS
    <2>3. t[n] \in Entry
        BY <2>1
    <2>4. /\ e \in Entry /\ e.link = 0 /\ e.kind = t[n].kind
          /\ e.block = t[n].block /\ e.slot = t[n].slot
        BY <2>2, <2>3 DEF Entry
    <2>5. Closed(t) = [t EXCEPT ![n] = e]
        BY <1>2, <2>1, <2>2 DEF Closed
    <2>6. /\ Closed(t) \in Seq(Entry) /\ Len(Closed(t)) = n
          /\ \A i \in 1 .. n : Closed(t)[i] = IF i = n THEN e ELSE t[i]
        BY <2>1, <2>4, <2>5
    <2>7. DOMAIN t = 1 .. n /\ DOMAIN Closed(t) = 1 .. n /\ Closed(t) # << >>
        BY <2>1, <2>6
    <2> QED
        BY <2>4, <2>6, <2>7
<1> QED
    BY <1>1, <1>2

\* The frame ends: what was in use is what the next frame may fall back on.
LEMMA EndFrameTInv ==
    ASSUME FInv, IInv', AInv', EndFrame
    PROVE  TInv'
<1>1. /\ TInv /\ IInv /\ FrameTypeOK /\ Phases /\ IInv' /\ AInv'
      /\ cur = Idle /\ todo = << >> /\ rendering /\ ~rendering' /\ game = "waits"
      /\ usage \subseteq Slot /\ frame \in Nat /\ frame' = frame + 1
      /\ last_use' = [s \in Slot |-> IF s \in usage THEN frame + 1 ELSE last_use[s]]
      /\ UNCHANGED <<block_num, max_slot, usage, dma_cmd, done, vram, handle, draw_list,
                     todo, cur, screen, game, changes, starved>>
      /\ sat' = Closed(sat)
      /\ proper' = {o \in proper : Listed(o, draw_list)}
    BY DEF FInv, TInv, FrameInv, Phases, EndFrame, FrameEndFinish, IInv, TypeOK, dmaVars,
           animVars, Listed
<1>2. /\ sat' \in Seq(Entry) /\ sat' # << >>
      /\ \A i \in DOMAIN sat' :
            /\ sat'[i].link = IF i = Len(sat') THEN 0 ELSE i
            /\ sat'[i].kind # "dummy" =>
                /\ i \in DOMAIN sat /\ sat'[i].kind = sat[i].kind
                /\ sat'[i].block = sat[i].block /\ sat'[i].slot = sat[i].slot
    <2>1. sat \in Seq(Entry) /\ \A i \in DOMAIN sat : sat[i].link = i
        BY <1>1 DEF FrameTypeOK, TInv, OpenChain
    <2> QED
        BY <1>1, <2>1, ClosedTable
<1>3. FrameTypeOK'
    BY <1>1, <1>2 DEF FrameTypeOK, IInv, AInv
<1>4. FrameInv' /\ OpenChain' /\ Phases' /\ Progress' /\ DrawnInUse' /\ ScreenHasBlocks'
    BY <1>1, <1>2, <1>3
    DEF FrameInv, TableIsChain, OpenChain, Phases, Progress, DrawnInUse, ScreenHasBlocks
<1>5. TableHeld'
    <2> SUFFICES ASSUME NEW i \in DOMAIN sat', sat'[i].kind \in {"new", "fallback"}
                 PROVE  sat'[i].block # NoBlock /\ sat'[i].slot # NoSlot
                        /\ block_num[sat'[i].slot] = sat'[i].block
        BY <1>1 DEF TableHeld, HasItsBlock
    <2>1. /\ i \in DOMAIN sat /\ sat'[i].kind = sat[i].kind
          /\ sat'[i].block = sat[i].block /\ sat'[i].slot = sat[i].slot
        BY <1>2
    <2> QED
        BY <1>1, <2>1 DEF TInv, TableHeld, HasItsBlock
<1>6. ProperHeld'
    <2> SUFFICES ASSUME NEW o \in proper, Listed(o, draw_list), handle[o].offset # 0,
                        NEW i \in Drawable(handle[o].offset)
                 PROVE  Held(Sprites[handle[o].offset][i])'
        BY <1>1 DEF ProperHeld, Shown
    <2>1. ~Listed(o, todo)
        BY <1>1 DEF Listed
    <2>2. InUse(Sprites[handle[o].offset][i])
        BY <1>1, <2>1 DEF TInv, DrawnInUse
    <2>3. PICK s \in Usable : block_num[s] = Sprites[handle[o].offset][i] /\ s \in usage
        BY <2>2 DEF InUse
    <2>4. last_use'[s] >= frame' /\ s \in Usable'
        BY <1>1, <2>3 DEF Usable
    <2> QED
        BY <1>1, <2>3, <2>4 DEF Held
<1> QED
    BY <1>4, <1>5, <1>6 DEF TInv

\* The steps of the firmware.
LEMMA FirmwareTInv ==
    ASSUME FInv, IInv', AInv', Firmware
    PROVE  TInv'
<1>1. /\ TInv /\ FrameTypeOK /\ ObjectsOK' /\ TypeOK'
      /\ handle \in [Obj -> [offset : Offset \cup {0}, number : Nat]]
    BY DEF FInv, AInv, ObjectsOK, IInv, TInv, FrameInv
<1>2. ASSUME NEW o \in Obj, Rendering(o), Skip(o), handle' = [handle EXCEPT ![o].offset = 0]
                             \/ handle' = handle
      PROVE  TInv'
    <2>1. FrameTypeOK'
        BY <1>1, <1>2 DEF FrameTypeOK, Skip, satVars, Rendering
    <2>2. PICK n : handle' = [handle EXCEPT ![o].offset = n]
        <3>1. [handle EXCEPT ![o].offset = handle[o].offset] = handle
            BY <1>1
        <3> QED
            BY <1>2, <3>1
    <2> QED
        BY <1>2, <2>1, <2>2, SkipTInv DEF Rendering
<1>3. ASSUME NEW o \in Obj, Rendering(o), NEW p \in Offset, NEW previous, Start(o, p, previous),
             handle'[o].offset = p, \A q \in Obj \ {o} : handle'[q] = handle[q],
             previous \in {0, handle[o].offset}, starved' \subseteq starved
      PROVE  TInv'
    <2>1. FrameTypeOK'
        BY <1>1, <1>3 DEF FrameTypeOK, Start, satVars, Rendering
    <2> QED
        BY <1>3, <2>1, StartTInv DEF Rendering
<1>4. ASSUME NEW o \in Obj, RenderInvalid(o) \/ RenderEnded(o) PROVE TInv'
    BY <1>2, <1>4 DEF RenderInvalid, RenderEnded, Advancing, animVars
<1>5. ASSUME NEW o \in Obj, RenderSet(o) PROVE TInv'
    <2>1. First[intf[o].anim] \in Offset
        BY <1>5, FrameAssumption DEF RenderSet
    <2>2. handle'[o].offset = First[intf[o].anim] /\ \A q \in Obj \ {o} : handle'[q] = handle[q]
        BY <1>1, <1>5 DEF RenderSet
    <2>3. PICK previous \in {0, handle[o].offset} : Start(o, First[intf[o].anim], previous)
        BY <1>5 DEF RenderSet
    <2> QED
        BY <1>3, <1>5, <2>1, <2>2, <2>3 DEF RenderSet
<1>6. ASSUME NEW o \in Obj, RenderSwitch(o) PROVE TInv'
    <2>1. FrameTypeOK'
        BY <1>1, <1>6 DEF FrameTypeOK, RenderSwitch, satVars
    <2> QED
        BY <1>1, <1>6, <2>1, SameTInv DEF RenderSwitch
<1>7. ASSUME NEW o \in Obj, RenderAdvance(o) PROVE TInv'
    <2>1. PICK n : n = NextPicture(handle[o].offset)
        OBVIOUS
    <2>2. /\ Rendering(o) /\ handle[o].offset \in Offset /\ starved' = starved
          /\ handle' = [handle EXCEPT ![o].offset = n]
          /\ IF n = 0 THEN Skip(o) ELSE Start(o, n, handle[o].offset)
        BY <1>1, <1>7, <2>1 DEF RenderAdvance, Advancing
    <2>3. n \in Offset \cup {0}
        BY <2>1, <2>2, SameAnimation
    <2>4. handle'[o].offset = n /\ \A q \in Obj \ {o} : handle'[q] = handle[q]
        BY <1>1, <2>2
    <2> QED
        BY <1>2, <1>3, <2>2, <2>3, <2>4
<1>8. ASSUME LoadSprite PROVE TInv'
    BY <1>8, LoadSpriteTInv
<1>9. ASSUME EmitPicture \/ EmitPrevious \/ GiveUp \/ EndFrame PROVE TInv'
    BY <1>9, EmitPictureTInv, EmitPreviousTInv, GiveUpTInv, EndFrameTInv
<1> QED
    BY <1>4, <1>5, <1>6, <1>7, <1>8, <1>9 DEF Firmware

\* The invariant holds initially.
LEMMA InitFInv == FrameInit => FInv
<1> SUFFICES ASSUME FrameInit PROVE FInv
    OBVIOUS
<1>1. IInv /\ AInv
    BY InitIInv, InitAInv DEF FrameInit
<1>2. FrameTypeOK
    BY <1>1, FrameAssumption DEF FrameTypeOK, FrameInit, IInv, AInv
<1>3. FrameInv /\ OpenChain /\ Phases
    BY <1>2 DEF FrameInv, TableIsChain, OpenChain, Phases, FrameInit, Init
<1>4. Progress /\ ProperHeld /\ DrawnInUse /\ TableHeld /\ ScreenHasBlocks
    BY DEF Progress, ProperHeld, DrawnInUse, TableHeld, ScreenHasBlocks, FrameInit, Init
<1> QED
    BY <1>1, <1>3, <1>4 DEF FInv, TInv

\* The invariant is inductive.
LEMMA NextFInv == FInv /\ [FrameNext]_vars => FInv'
<1> SUFFICES ASSUME FInv, [FrameNext]_vars PROVE FInv'
    OBVIOUS
<1>1. AInv'
    BY NextAInv DEF FInv
<1>2. IInv'
    <2>1. [Next]_cacheVars
        BY GameSteps, FirmwareSteps DEF FInv, AInv, FrameNext, vars
    <2> QED
        BY <2>1, NextIInv DEF FInv
<1>3. TInv'
    <2>1. CASE UNCHANGED vars
        <3>1. FrameTypeOK'
            BY <1>1, <1>2, <2>1
            DEF vars, FInv, TInv, FrameInv, FrameTypeOK, AInv, IInv
        <3> QED
            BY <2>1, <3>1, SameTInv DEF vars, FInv, satVars
    <2> QED
        BY <1>1, <1>2, <2>1, GameTInv, FirmwareTInv DEF FrameNext
<1> QED
    BY <1>1, <1>2, <1>3 DEF FInv

\* What the sprites name, the cache holds, at every step of a frame.
THEOREM FrameInvariance == FrameSpec => []TInv
<1>1. FInv => TInv
    BY DEF FInv
<1> QED
    BY <1>1, InitFInv, NextFInv, PTL DEF FrameSpec

\* Objects and tables are typed, and the finished table is a chain over all
\* its entries (ppm_close_sprite_table).
THEOREM FrameTypes == FrameSpec => []FrameInv
<1>1. TInv => FrameInv
    BY DEF TInv
<1> QED
    BY <1>1, FrameInvariance, PTL

\* The slot a sprite was written with keeps its block while the table is
\* built, whatever the objects rendered after it load; so does the slot of a
\* sprite of the picture before, if that was drawn from loaded blocks.
THEOREM SpritesKeepTheirBlocks == FrameSpec => []SpritesKeepBlocks
<1>1. TInv => SpritesKeepBlocks
    BY DEF TInv, Phases, TableHeld, SpritesKeepBlocks
<1> QED
    BY <1>1, FrameInvariance, PTL

\* When a table is on the screen, the video memory holds the block of each
\* such sprite in the slot the sprite names, until the next table is shown.
THEOREM ScreenIsTrue == FrameSpec => []ScreenHasBlocks
<1>1. TInv => ScreenHasBlocks
    BY DEF TInv
<1> QED
    BY <1>1, FrameInvariance, PTL
=============================================================================
