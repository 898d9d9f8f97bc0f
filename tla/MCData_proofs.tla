---------------------------- MODULE MCData_proofs -----------------------------
(***************************************************************************)
(* Proofs about the firmware's data: the saved games are kept, for pieces  *)
(* of any size that divides an area; the blocks and the sprite table are   *)
(* where the video chip looks for them, for any slots and any number of    *)
(* blocks; the port gives what a command promised, with the files of the   *)
(* set-up left as they are, for files of any sizes; the scaled picture is  *)
(* right at any scale; and the files unpacked are what their runs mean.    *)
(***************************************************************************)
EXTENDS MCData, SequenceTheorems, FiniteSetTheorems,
    WellFoundedInduction, TLAPS

(***************************************************************************)
(* The saved games.                                                        *)
(***************************************************************************)
LEMMA Multiple ==
    ASSUME NEW u \in Nat \ {0}, NEW m \in Nat
    PROVE  (u * m) \div u = m
<1>1. PICK d : d = (u * m) \div u
  OBVIOUS
<1>2. d \in Nat /\ u * d <= u * m /\ u * m < u * (d + 1)
  BY <1>1
<1>3. d <= m
  <2> SUFFICES ASSUME m + 1 <= d PROVE FALSE
    BY <1>2
  <2>1. u * (m + 1) <= u * d
    BY <1>2
  <2>2. u * (m + 1) = u * m + u
    OBVIOUS
  <2> QED
    BY <1>2, <2>1, <2>2
<1>4. m < d + 1
  <2> SUFFICES ASSUME d + 1 <= m PROVE FALSE
    BY <1>2
  <2>1. u * (d + 1) <= u * m
    BY <1>2
  <2> QED
    BY <1>2, <2>1
<1> QED
  BY <1>1, <1>2, <1>3, <1>4

\* Where the areas are, in pieces; q is how many pieces 256 bytes have.
LEMMA AreaPlaces ==
    \E q \in Nat \ {0} :
        /\ Saved!Capacity = 32 * q
        /\ Saved!Offset(1) = 4 * q /\ Saved!Offset(2) = 6 * q
        /\ Saved!Offset(3) = 8 * q /\ Saved!Offset(4) = 0
        /\ Saved!Size(1) = q /\ Saved!Size(2) = q /\ Saved!Size(3) = q /\ Saved!Size(4) = 2 * q
        /\ \A a \in 0 .. 255 : a \notin Saved!Areas => Saved!Size(a) = 0
<1>1. Unit \in Nat \ {0} /\ 256 % Unit = 0
  BY StoresAssumption DEF Saved!EepromAssumption
<1>2. PICK q \in Nat \ {0} : 256 = Unit * q
  <2>1. 256 = Unit * (256 \div Unit) + (256 % Unit) /\ 256 \div Unit \in Nat
    BY <1>1
  <2> QED
    BY <1>1, <2>1
<1>3. \A n \in Nat : (n * 256) \div Unit = n * q
  <2> SUFFICES ASSUME NEW n \in Nat PROVE (n * 256) \div Unit = n * q
    OBVIOUS
  <2>1. n * 256 = Unit * (n * q) /\ n * q \in Nat
    BY <1>1, <1>2
  <2> QED
    BY <1>1, <2>1, Multiple
<1>4. /\ 0 \div Unit = 0 /\ 256 \div Unit = q /\ 512 \div Unit = 2 * q /\ 1024 \div Unit = 4 * q
      /\ 1536 \div Unit = 6 * q /\ 2048 \div Unit = 8 * q /\ 8192 \div Unit = 32 * q
  <2>1. /\ (0 * 256) \div Unit = 0 * q /\ (1 * 256) \div Unit = 1 * q
        /\ (2 * 256) \div Unit = 2 * q /\ (4 * 256) \div Unit = 4 * q
        /\ (6 * 256) \div Unit = 6 * q /\ (8 * 256) \div Unit = 8 * q
        /\ (32 * 256) \div Unit = 32 * q
    BY <1>3
  <2> QED
    BY <2>1
<1> QED
  BY <1>4 DEF Saved!Capacity, Saved!Offset, Saved!Size, Saved!Areas

\* The areas are in the memory, and apart from each other.
LEMMA AreasApart ==
    /\ Saved!Size(4) \in Nat \ {0}
    /\ \A a \in 0 .. 255 : Saved!Size(a) \in Nat /\ Saved!Size(a) <= Saved!Size(4)
    /\ \A a \in Saved!Areas : Saved!Size(a) > 0 /\ Saved!Offset(a) \in Nat
    /\ \A a \in 0 .. 255 \ Saved!Areas : Saved!Size(a) = 0
    /\ \A a \in Saved!Areas : \A k \in 0 .. Saved!Size(a) - 1 :
           Saved!Offset(a) + k \in 0 .. Saved!Capacity - 1
    /\ \A a, b \in Saved!Areas : a # b =>
           \A k \in 0 .. Saved!Size(a) - 1, n \in 0 .. Saved!Size(b) - 1 :
               Saved!Offset(a) + k # Saved!Offset(b) + n
<1>1. PICK q \in Nat \ {0} :
        /\ Saved!Capacity = 32 * q
        /\ Saved!Offset(1) = 4 * q /\ Saved!Offset(2) = 6 * q
        /\ Saved!Offset(3) = 8 * q /\ Saved!Offset(4) = 0
        /\ Saved!Size(1) = q /\ Saved!Size(2) = q /\ Saved!Size(3) = q /\ Saved!Size(4) = 2 * q
        /\ \A a \in 0 .. 255 : a \notin Saved!Areas => Saved!Size(a) = 0
  BY AreaPlaces
<1>2. Saved!Areas = {1, 2, 3, 4}
  BY DEF Saved!Areas
<1>3. \A a \in Saved!Areas :
         /\ Saved!Size(a) \in Nat /\ Saved!Size(a) > 0 /\ Saved!Size(a) <= 2 * q
         /\ Saved!Offset(a) \in Nat /\ Saved!Offset(a) + Saved!Size(a) <= 32 * q
  BY <1>1, <1>2
<1>4. \A a \in 0 .. 255 : Saved!Size(a) \in Nat /\ Saved!Size(a) <= Saved!Size(4)
  <2> SUFFICES ASSUME NEW a \in 0 .. 255
               PROVE  Saved!Size(a) \in Nat /\ Saved!Size(a) <= Saved!Size(4)
    OBVIOUS
  <2>1. CASE a \in Saved!Areas
    BY <1>1, <1>3, <2>1
  <2>2. CASE a \notin Saved!Areas
    <3>1. Saved!Size(a) = 0
      BY <1>1, <2>2
    <3> QED
      BY <1>1, <3>1
  <2> QED
    BY <2>1, <2>2
<1>5. \A a, b \in Saved!Areas : a # b =>
          \/ Saved!Offset(a) + Saved!Size(a) <= Saved!Offset(b)
          \/ Saved!Offset(b) + Saved!Size(b) <= Saved!Offset(a)
  BY <1>1, <1>2
<1>6. \A a \in Saved!Areas : \A k \in 0 .. Saved!Size(a) - 1 :
           Saved!Offset(a) + k \in 0 .. Saved!Capacity - 1
  BY <1>1, <1>3
<1>7. \A a, b \in Saved!Areas : a # b =>
           \A k \in 0 .. Saved!Size(a) - 1, n \in 0 .. Saved!Size(b) - 1 :
               Saved!Offset(a) + k # Saved!Offset(b) + n
  BY <1>3, <1>5
<1>8. Saved!Size(4) \in Nat \ {0} /\ \A a \in 0 .. 255 \ Saved!Areas : Saved!Size(a) = 0
  BY <1>1
<1>9. \A a \in Saved!Areas : Saved!Size(a) > 0 /\ Saved!Offset(a) \in Nat
  BY <1>3
<1> QED
  BY <1>4, <1>6, <1>7, <1>8, <1>9

\* What the places hold; the types are those of the memory and the buffer.
SavedTypes ==
    /\ Saved!TypeOK /\ arg \in 0 .. 255 /\ count \in Nat
    /\ ram_dp \in [0 .. Saved!Size(4) - 1 -> Saved!Contents]
    /\ saved \in [Saved!Areas -> Saved!Contents]
    /\ torn \in [Saved!Areas -> SUBSET Saved!Contents]
AreasHold ==
    \A a \in Saved!Areas : \A k \in 0 .. Saved!Size(a) - 1 :
        bram[Saved!Offset(a) + k] \in {saved[a]} \cup torn[a]
\* A save copies one thing, and what was copied of it is there.
SaveUnderWay ==
    pc = "E0" =>
        /\ \A k \in 0 .. Saved!Size(4) - 1 : ram_dp[k] = ram_dp[0]
        /\ arg \in Saved!Areas =>
               \A k \in 0 .. count - 1 : bram[Saved!Offset(arg) + k] = ram_dp[0]
\* A load has what was copied, and in the end the whole area.
LoadUnderWay ==
    /\ pc \in {"DF", "loaded"} /\ arg \in Saved!Areas =>
           \A k \in 0 .. count - 1 : ram_dp[k] \in {saved[arg]} \cup torn[arg]
    /\ pc = "loaded" => count = Saved!Size(arg)

SavedIInv == SavedTypes /\ AreasHold /\ SaveUnderWay /\ LoadUnderWay

LEMMA SavedKept == SavedIInv => SavesKept
<1> SUFFICES ASSUME SavedIInv PROVE SavesKept
  OBVIOUS
<1>1. Saved!KeepsSaved
  BY DEF SavedIInv, AreasHold, Saved!KeepsSaved, Saved!Content
<1>2. Saved!LoadsSaved
  BY DEF SavedIInv, LoadUnderWay, Saved!LoadsSaved
<1> QED
  BY <1>1, <1>2 DEF SavedIInv, SavedTypes, SavesKept

LEMMA InitSaved == Saved!Init => SavedIInv
<1> SUFFICES ASSUME Saved!Init PROVE SavedIInv
  OBVIOUS
<1>1. SavedTypes
  <2>1. Saved!Nothing \in Saved!Contents /\ Saved!Size(0) \in Nat
    BY AreasApart DEF Saved!Contents
  <2> QED
    BY <2>1 DEF Saved!Init, SavedTypes, Saved!TypeOK
<1>2. AreasHold
  BY AreasApart DEF Saved!Init, AreasHold
<1> QED
  BY <1>1, <1>2 DEF Saved!Init, SavedIInv, SaveUnderWay, LoadUnderWay

\* A command begins; a save with one thing in the whole buffer.
LEMMA BeginStep == SavedIInv /\ (Saved!Load \/ Saved!Save) => SavedIInv'
<1> SUFFICES ASSUME SavedIInv, Saved!Load \/ Saved!Save PROVE SavedIInv'
  OBVIOUS
<1>1. SavedTypes /\ AreasHold
  BY DEF SavedIInv
<1>2. /\ pc' \in {"DF", "E0"} /\ arg' \in Args /\ count' = 0
      /\ UNCHANGED <<bram, saved, torn>>
      /\ ram_dp' = ram_dp \/ \E v \in Versions : ram_dp' = [place \in DOMAIN ram_dp |-> v]
      /\ pc' = "E0" => \E v \in Versions : ram_dp' = [place \in DOMAIN ram_dp |-> v]
  BY DEF Saved!Load, Saved!Save, Saved!Command
<1>3. arg' \in 0 .. 255 /\ Saved!Size(arg') \in Nat
  <2>1. Args \subseteq 0 .. 255
    BY StoresAssumption DEF Saved!EepromAssumption
  <2> QED
    BY <1>2, <2>1, AreasApart
<1>4. Saved!Size(4) \in Nat \ {0}
  BY AreasApart
<1>5. /\ ram_dp' \in [0 .. Saved!Size(4) - 1 -> Saved!Contents]
      /\ pc' = "E0" => \A k \in 0 .. Saved!Size(4) - 1 : ram_dp'[k] = ram_dp'[0]
  BY <1>1, <1>2, <1>4 DEF SavedTypes, Saved!Contents
<1>6. SavedTypes'
  BY <1>1, <1>2, <1>3, <1>5 DEF SavedTypes, Saved!TypeOK
<1>7. AreasHold'
  BY <1>1, <1>2 DEF AreasHold
<1> QED
  BY <1>2, <1>5, <1>6, <1>7 DEF SavedIInv, SaveUnderWay, LoadUnderWay

LEMMA CopyToGame == SavedIInv /\ Saved!DF_Copy => SavedIInv'
<1> SUFFICES ASSUME SavedIInv, Saved!DF_Copy PROVE SavedIInv'
  OBVIOUS
<1>1. SavedTypes /\ AreasHold /\ LoadUnderWay
  BY DEF SavedIInv
<1>2. /\ pc = "DF" /\ count # Saved!Size(arg)
      /\ ram_dp' = [ram_dp EXCEPT ![count] = bram[Saved!Offset(arg) + count]]
      /\ count' = count + 1
      /\ UNCHANGED <<bram, pc, arg, saved, torn>>
  BY DEF Saved!DF_Copy, Saved!Done
<1>3. /\ arg \in 0 .. 255 /\ count \in 0 .. Saved!Size(arg) - 1
      /\ Saved!Size(arg) \in Nat /\ Saved!Size(arg) <= Saved!Size(4) /\ Saved!Size(4) \in Nat
  <2>1. arg \in 0 .. 255 /\ count \in 0 .. Saved!Size(arg)
    BY <1>1 DEF SavedTypes, Saved!TypeOK
  <2>2. Saved!Size(arg) \in Nat /\ Saved!Size(arg) <= Saved!Size(4) /\ Saved!Size(4) \in Nat
    BY <2>1, AreasApart
  <2> QED
    BY <1>2, <2>1, <2>2
<1>4. arg \in Saved!Areas
  BY <1>3, AreasApart
<1>5. bram[Saved!Offset(arg) + count] \in Saved!Contents
  BY <1>1, <1>3, <1>4, AreasApart DEF SavedTypes, Saved!TypeOK
<1>6. SavedTypes'
  BY <1>1, <1>2, <1>3, <1>5 DEF SavedTypes, Saved!TypeOK
<1>7. AreasHold'
  BY <1>1, <1>2 DEF AreasHold
<1>8. LoadUnderWay'
  <2>1. bram[Saved!Offset(arg) + count] \in {saved[arg]} \cup torn[arg]
    BY <1>1, <1>3, <1>4 DEF AreasHold
  <2>2. \A k \in 0 .. count : ram_dp'[k] \in {saved[arg]} \cup torn[arg]
    BY <1>1, <1>2, <1>3, <1>4, <2>1 DEF LoadUnderWay, SavedTypes
  <2> QED
    BY <1>2, <1>3, <2>2 DEF LoadUnderWay
<1> QED
  BY <1>2, <1>6, <1>7, <1>8 DEF SavedIInv, SaveUnderWay

LEMMA CopyToBattery == SavedIInv /\ Saved!E0_Copy => SavedIInv'
<1> SUFFICES ASSUME SavedIInv, Saved!E0_Copy PROVE SavedIInv'
  OBVIOUS
<1>1. SavedTypes /\ AreasHold /\ SaveUnderWay
  BY DEF SavedIInv
<1>2. /\ pc = "E0" /\ count # Saved!Size(arg)
      /\ bram' = [bram EXCEPT ![Saved!Offset(arg) + count] = ram_dp[count]]
      /\ count' = count + 1
      /\ torn' = IF arg \in Saved!Areas THEN [torn EXCEPT ![arg] = @ \cup {ram_dp[count]}] ELSE torn
      /\ UNCHANGED <<ram_dp, pc, arg, saved>>
  BY DEF Saved!E0_Copy, Saved!Done
<1>3. /\ arg \in 0 .. 255 /\ count \in 0 .. Saved!Size(arg) - 1
      /\ Saved!Size(arg) \in Nat /\ Saved!Size(arg) <= Saved!Size(4) /\ Saved!Size(4) \in Nat
  <2>1. arg \in 0 .. 255 /\ count \in 0 .. Saved!Size(arg)
    BY <1>1 DEF SavedTypes, Saved!TypeOK
  <2>2. Saved!Size(arg) \in Nat /\ Saved!Size(arg) <= Saved!Size(4) /\ Saved!Size(4) \in Nat
    BY <2>1, AreasApart
  <2> QED
    BY <1>2, <2>1, <2>2
<1>4. arg \in Saved!Areas
  BY <1>3, AreasApart
<1>5. ram_dp[count] \in Saved!Contents /\ ram_dp[count] = ram_dp[0]
  BY <1>1, <1>2, <1>3 DEF SavedTypes, SaveUnderWay
<1>6. /\ bram \in [0 .. Saved!Capacity - 1 -> Saved!Contents]
      /\ Saved!Offset(arg) + count \in 0 .. Saved!Capacity - 1
  BY <1>1, <1>3, <1>4, AreasApart DEF SavedTypes, Saved!TypeOK
<1>7. /\ torn' \in [Saved!Areas -> SUBSET Saved!Contents]
      /\ torn'[arg] = torn[arg] \cup {ram_dp[count]}
      /\ \A a \in Saved!Areas : a # arg => torn'[a] = torn[a]
  BY <1>1, <1>2, <1>4, <1>5 DEF SavedTypes
<1>8. SavedTypes'
  BY <1>1, <1>2, <1>3, <1>5, <1>6, <1>7 DEF SavedTypes, Saved!TypeOK
<1>9. ASSUME NEW a \in Saved!Areas, NEW k \in 0 .. Saved!Size(a) - 1
      PROVE  /\ Saved!Offset(a) + k \in 0 .. Saved!Capacity - 1
             /\ bram'[Saved!Offset(a) + k] =
                    IF a = arg /\ k = count THEN ram_dp[count] ELSE bram[Saved!Offset(a) + k]
  <2>1. Saved!Offset(a) + k \in 0 .. Saved!Capacity - 1 /\ Saved!Offset(a) \in Nat
    BY AreasApart
  <2>2. Saved!Offset(a) + k = Saved!Offset(arg) + count <=> a = arg /\ k = count
    <3>1. CASE a = arg
      BY <1>3, <2>1, <3>1
    <3>2. CASE a # arg
      BY <1>3, <1>4, <3>2, AreasApart
    <3> QED
      BY <3>1, <3>2
  <2> QED
    BY <1>2, <1>6, <2>1, <2>2
<1>10. AreasHold'
  BY <1>1, <1>2, <1>7, <1>9 DEF AreasHold
<1>11. SaveUnderWay'
  <2>1. \A k \in 0 .. count : bram'[Saved!Offset(arg) + k] = ram_dp[0]
    BY <1>1, <1>2, <1>3, <1>4, <1>5, <1>9 DEF SaveUnderWay
  <2> QED
    BY <1>1, <1>2, <1>3, <2>1 DEF SaveUnderWay
<1> QED
  BY <1>2, <1>8, <1>10, <1>11 DEF SavedIInv, LoadUnderWay

\* A save is complete: the area holds what was saved and nothing else.
LEMMA SaveEnds == SavedIInv /\ Saved!E0_End => SavedIInv'
<1> SUFFICES ASSUME SavedIInv, Saved!E0_End PROVE SavedIInv'
  OBVIOUS
<1>1. SavedTypes /\ AreasHold /\ SaveUnderWay
  BY DEF SavedIInv
<1>2. /\ pc = "E0" /\ count = Saved!Size(arg) /\ pc' = "idle"
      /\ saved' = IF arg \in Saved!Areas THEN [saved EXCEPT ![arg] = ram_dp[0]] ELSE saved
      /\ torn' = IF arg \in Saved!Areas THEN [torn EXCEPT ![arg] = {}] ELSE torn
      /\ UNCHANGED <<bram, ram_dp, arg, count>>
  BY DEF Saved!E0_End, Saved!Done
<1>3. ram_dp[0] \in Saved!Contents
  <2>1. 0 \in 0 .. Saved!Size(4) - 1
    BY AreasApart
  <2> QED
    BY <1>1, <2>1 DEF SavedTypes
<1>4. SavedTypes'
  BY <1>1, <1>2, <1>3 DEF SavedTypes, Saved!TypeOK
<1>5. AreasHold'
  <2> SUFFICES ASSUME NEW a \in Saved!Areas, NEW k \in 0 .. Saved!Size(a) - 1
               PROVE  bram[Saved!Offset(a) + k] \in {saved'[a]} \cup torn'[a]
    BY <1>2 DEF AreasHold
  <2>1. CASE a = arg
    BY <1>1, <1>2, <2>1 DEF SaveUnderWay, SavedTypes
  <2>2. CASE a # arg
    BY <1>1, <1>2, <2>2 DEF AreasHold, SavedTypes
  <2> QED
    BY <2>1, <2>2
<1> QED
  BY <1>2, <1>4, <1>5 DEF SavedIInv, SaveUnderWay, LoadUnderWay

LEMMA NextSaved == SavedIInv /\ [Saved!Next]_savedVars => SavedIInv'
<1> SUFFICES ASSUME SavedIInv, [Saved!Next]_savedVars PROVE SavedIInv'
  OBVIOUS
<1>1. SavedTypes /\ AreasHold /\ SaveUnderWay /\ LoadUnderWay
  BY DEF SavedIInv
<1>2. CASE UNCHANGED savedVars
  BY <1>1, <1>2 DEF savedVars, SavedIInv, SavedTypes, Saved!TypeOK, AreasHold, SaveUnderWay, LoadUnderWay
<1>3. CASE Saved!DF_End \/ Saved!Loaded
  <2>1. /\ UNCHANGED <<bram, ram_dp, arg, count, saved, torn>>
        /\ pc' = "idle" \/ (pc = "DF" /\ pc' = "loaded" /\ count = Saved!Size(arg))
    BY <1>3 DEF Saved!DF_End, Saved!Loaded, Saved!Done
  <2> QED
    BY <1>1, <2>1 DEF SavedIInv, SavedTypes, Saved!TypeOK, AreasHold, SaveUnderWay, LoadUnderWay
<1>4. CASE Saved!PowerOff
  <2>1. /\ pc' = "idle" /\ arg' = 0 /\ count' = 0 /\ UNCHANGED <<bram, saved, torn>>
        /\ ram_dp' = [place \in DOMAIN ram_dp |-> Saved!Nothing]
    BY <1>4 DEF Saved!PowerOff
  <2>2. Saved!Nothing \in Saved!Contents /\ Saved!Size(0) \in Nat
    BY AreasApart DEF Saved!Contents
  <2>3. SavedTypes'
    BY <1>1, <2>1, <2>2 DEF SavedTypes, Saved!TypeOK
  <2>4. AreasHold'
    BY <1>1, <2>1 DEF AreasHold
  <2> QED
    BY <2>1, <2>3, <2>4 DEF SavedIInv, SaveUnderWay, LoadUnderWay
<1> QED
  BY <1>2, <1>3, <1>4, BeginStep, CopyToGame, CopyToBattery, SaveEnds DEF Saved!Next
-----------------------------------------------------------------------------
(***************************************************************************)
(* Where the blocks and the sprite table go in the video memory.           *)
(***************************************************************************)
\* The command for a slot is for exactly the memory its tiles are in.
THEOREM CommandAddressesTile ==
    \A x \in 0 .. 52 : /\ Address(BlockCommand(x)) = Tile(x) * 32
                       /\ Length(BlockCommand(x)) = PageSize
                       /\ Source(BlockCommand(x)) = Window
<1> SUFFICES ASSUME NEW x \in 0 .. 52
             PROVE  /\ Address(BlockCommand(x)) = Tile(x) * 32
                    /\ Length(BlockCommand(x)) = PageSize
                    /\ Source(BlockCommand(x)) = Window
  OBVIOUS
<1>1. BlockIndex(x) \in 1 .. 127
  BY DEF BlockIndex
<1>2. Address(BlockCommand(x)) = Tile(x) * 32
  BY <1>1 DEF Address, BlockCommand, Tile
<1>3. Length(BlockCommand(x)) = PageSize
  BY DEF Length, BlockCommand, PageSize
<1>4. Source(BlockCommand(x)) = Window
  BY DEF Source, BlockCommand, Window
<1> QED
  BY <1>2, <1>3, <1>4

\* The memory of two slots never overlaps, nor does it overlap the sprite
\* table, whatever the length of that, nor leave the video memory.
THEOREM SlotsApart ==
    \A x, z \in 0 .. 52 :
        /\ x # z => \/ Tile(x) * 32 + PageSize <= Tile(z) * 32
                    \/ Tile(z) * 32 + PageSize <= Tile(x) * 32
        /\ \/ Tile(x) * 32 + PageSize <= TableAddress
           \/ \A n \in Counts : TableAddress + 8 * n <= Tile(x) * 32
        /\ Tile(x) * 32 + PageSize <= 65536
BY DmaAssumption DEF Tile, BlockIndex, PageSize, TableAddress

\* The page of a slot, and what its command does to the video memory.
LEMMA BlockParts ==
    ASSUME NEW x \in Slots
    PROVE  /\ x \in 0 .. 52 /\ BlockIndex(x) \in Page /\ BlockIndex(x) \notin 120 .. 123
           /\ BlockCommand(x) \in Command
           /\ PageOf(Tile(x) * 32) = BlockIndex(x)
           /\ PageOf(Address(BlockCommand(x))) = BlockIndex(x)
           /\ Pages(BlockCommand(x)) = {BlockIndex(x)}
           /\ Length(BlockCommand(x)) = 512 /\ Source(BlockCommand(x)) = Window
<1>1. x \in 0 .. 52
  BY DmaAssumption
<1>2. BlockIndex(x) \in 1 .. 127 /\ BlockIndex(x) \notin 120 .. 123
  BY <1>1 DEF BlockIndex
<1>3. BlockCommand(x) \in Command
  <2>1. \h4000 + ((BlockIndex(x) * 512) % 16384) \in Nat /\ \h80 + ((BlockIndex(x) \div 32) % 4) \in Nat
    BY <1>2
  <2> QED
    BY <2>1 DEF BlockCommand, Command
<1>4. Tile(x) * 32 = BlockIndex(x) * 512 /\ PageOf(Tile(x) * 32) = BlockIndex(x)
  BY <1>2 DEF Tile, PageOf, PageSize
<1>5. /\ Address(BlockCommand(x)) = BlockIndex(x) * 512 /\ Length(BlockCommand(x)) = 512
      /\ Source(BlockCommand(x)) = Window
  BY <1>1, <1>4, CommandAddressesTile DEF PageSize
<1>6. Pages(BlockCommand(x)) = {BlockIndex(x)}
  <2>1. (512 - 1) \div PageSize = 0 /\ PageSize * 0 = 0
    BY DEF PageSize
  <2>2. {PageSize * k : k \in 0 .. (Length(BlockCommand(x)) - 1) \div PageSize} = {0}
    BY <1>5, <2>1
  <2>3. PageOf(Address(BlockCommand(x)) + 0) = BlockIndex(x)
    BY <1>2, <1>5 DEF PageOf, PageSize
  <2> QED
    BY <2>2, <2>3 DEF Pages
<1> QED
  BY <1>1, <1>2, <1>3, <1>4, <1>5, <1>6 DEF Page

LEMMA SlotOfBlock ==
    ASSUME NEW x \in Slots, NEW z \in Slots
    PROVE  /\ BlockIndex(x) = BlockIndex(z) => x = z
           /\ BlockCommand(x) = BlockCommand(z) => x = z
<1>1. x \in 0 .. 52 /\ z \in 0 .. 52
  BY DmaAssumption
<1>2. BlockIndex(x) = BlockIndex(z) => x = z
  BY <1>1 DEF BlockIndex
<1>3. BlockCommand(x) = BlockCommand(z) => BlockIndex(x) = BlockIndex(z)
  <2>1. PageOf(Address(BlockCommand(x))) = BlockIndex(x)
    BY BlockParts
  <2>2. PageOf(Address(BlockCommand(z))) = BlockIndex(z)
    BY BlockParts
  <2> QED
    BY <2>1, <2>2
<1> QED
  BY <1>2, <1>3

LEMMA TableParts ==
    ASSUME NEW n \in Counts
    PROVE  /\ TableCommand(n) \in Command
           /\ Source(TableCommand(n)) = TableSource
           /\ PageOf(Address(TableCommand(n))) = 120
           /\ Pages(TableCommand(n)) \subseteq 120 .. 122
           /\ \A i \in 0 .. 8 * n - 1 : PageOf(TableAddress + i) \in Pages(TableCommand(n))
<1>1. n \in 1 .. 144
  BY DmaAssumption
<1>2. TableCommand(n) \in Command
  <2>1. /\ \h9400 + ((4 * n) \div 256) \in Nat /\ \h9300 + ((4 * n) % 256) \in Nat
        /\ \h9700 + ((TableSource \div 131072) % 256) \in Nat
        /\ \h9600 + ((TableSource \div 512) % 256) \in Nat
        /\ \h9500 + ((TableSource \div 2) % 256) \in Nat
    BY <1>1 DEF TableSource
  <2> QED
    BY <2>1 DEF TableCommand, Command
<1>3. Source(TableCommand(n)) = TableSource
  BY DEF Source, TableCommand, TableSource
<1>4. Address(TableCommand(n)) = 61440
  BY DEF Address, TableCommand
<1>5. Length(TableCommand(n)) = 8 * n
  BY <1>1 DEF Length, TableCommand
<1>6. /\ (8 * n - 1) \div 512 \in 0 .. 2
      /\ \A i \in 0 .. 8 * n - 1 : i \div 512 \in 0 .. (8 * n - 1) \div 512
  BY <1>1
<1>7. \A k \in 0 .. 2 : PageOf(61440 + 512 * k) = 120 + k
  BY DEF PageOf, PageSize
<1>8. \A i \in 0 .. 8 * n - 1 : PageOf(TableAddress + i) = 120 + (i \div 512)
  BY <1>1 DEF PageOf, PageSize, TableAddress
<1>9. Pages(TableCommand(n)) = {PageOf(61440 + i) : i \in {512 * k : k \in 0 .. (8 * n - 1) \div 512}}
  BY <1>4, <1>5 DEF Pages, PageSize
<1>10. \A k \in 0 .. (8 * n - 1) \div 512 : PageOf(61440 + 512 * k) = 120 + k
  BY <1>6, <1>7
<1>11. Pages(TableCommand(n)) \subseteq 120 .. 122
  BY <1>6, <1>9, <1>10
<1>12. \A i \in 0 .. 8 * n - 1 : 120 + (i \div 512) \in Pages(TableCommand(n))
  <2> SUFFICES ASSUME NEW i \in 0 .. 8 * n - 1
               PROVE  120 + (i \div 512) \in Pages(TableCommand(n))
    OBVIOUS
  <2>1. PICK k \in 0 .. (8 * n - 1) \div 512 : k = i \div 512
    BY <1>6
  <2>2. PageOf(61440 + 512 * k) = 120 + k
    BY <1>10
  <2>3. 512 * k \in {512 * m : m \in 0 .. (8 * n - 1) \div 512}
    OBVIOUS
  <2>4. 120 + k \in Pages(TableCommand(n))
    BY <1>9, <2>2, <2>3
  <2> QED
    BY <2>1, <2>4
<1>13. PageOf(Address(TableCommand(n))) = 120
  BY <1>4 DEF PageOf, PageSize
<1> QED
  BY <1>2, <1>3, <1>8, <1>11, <1>12, <1>13

\* The blocks of the queue come before the table; the first of them is what
\* the port is at.
BlocksQueued ==
    IF sat_count = 0 THEN Len(dma_cmd) ELSE IF dma_cmd = << >> THEN 0 ELSE Len(dma_cmd) - 1
FirstBlock == IF sat_count = 0 THEN Staging ELSE sdram_ptr

IsBlock(k) ==
    \E x \in Slots : /\ dma_cmd[k] = BlockCommand(x)
                     /\ block_at[x] = FirstBlock + PageSize * (k - 1)
BlocksInLine == \A k \in 1 .. BlocksQueued : IsBlock(k)
QueuedOnce == \A k, m \in 1 .. BlocksQueued : k # m => dma_cmd[k] # dma_cmd[m]
TableLast ==
    sat_count # 0 /\ dma_cmd # << >> => dma_cmd[Len(dma_cmd)] = TableCommand(sat_count)
UnpackedBehind == sat_count = 0 => unpack_addr = Staging + PageSize * Len(dma_cmd)

DmaIInv ==
    /\ TypeOK
    /\ BlocksInLine /\ QueuedOnce /\ TableLast /\ UnpackedBehind
    /\ BlocksAtTheirTiles /\ TableStays

LEMMA InitDma == Init => DmaIInv
<1> SUFFICES ASSUME Init PROVE DmaIInv
  OBVIOUS
<1>1. BlocksQueued = 0
  BY DEF Init, BlocksQueued
<1>2. TypeOK
  BY DmaAssumption DEF Init, TypeOK, Staging, NoSource
<1>3. BlocksAtTheirTiles
  BY DEF Init, BlocksAtTheirTiles
<1>4. TableStays
  BY DEF Init, TableStays
<1> QED
  BY <1>1, <1>2, <1>3, <1>4
     DEF Init, DmaIInv, BlocksInLine, QueuedOnce, TableLast, UnpackedBehind, PageSize, Staging

\* A frame queues each slot once, so the blocks fit behind the staging area
\* and the address they are unpacked to does not wrap.
LEMMA BlocksFit ==
    ASSUME NEW q, NEW n \in Nat,
           \A k \in 1 .. n : \E x \in Slots : q[k] = BlockCommand(x),
           \A k, m \in 1 .. n : k # m => q[k] # q[m]
    PROVE  n <= 53
<1> SUFFICES ASSUME n > 53 PROVE FALSE
  OBVIOUS
<1> DEFINE S == 1 .. n
           T == 0 .. 52
           f == [k \in S |-> CHOOSE x \in Slots : q[k] = BlockCommand(x)]
<1>2. IsFiniteSet(S) /\ Cardinality(S) = n
  <2>1. IsFiniteSet(S) /\ Cardinality(S) = IF 1 > n THEN 0 ELSE n - 1 + 1
    BY FS_Interval
  <2> QED
    BY <2>1
<1>3. IsFiniteSet(T) /\ Cardinality(T) = 53
  <2>1. 0 \in Int /\ 52 \in Int
    OBVIOUS
  <2>2. IsFiniteSet(T) /\ Cardinality(T) = IF 0 > 52 THEN 0 ELSE 52 - 0 + 1
    BY <2>1, FS_Interval
  <2> QED
    BY <2>2
<1>4. \A k \in S : f[k] \in Slots /\ q[k] = BlockCommand(f[k])
  OBVIOUS
<1>5. f \in [S -> T]
  BY <1>4, DmaAssumption
<1>6. \E k, m \in S : k # m /\ f[k] = f[m]
  <2>1. Cardinality(T) < Cardinality(S)
    BY <1>2, <1>3
  <2> HIDE DEF S, T, f
  <2> QED
    BY <1>2, <1>3, <1>5, <2>1, FS_PigeonHole
<1>7. PICK k \in S, m \in S : k # m /\ f[k] = f[m]
  BY <1>6
<1>8. q[k] = q[m]
  <2> HIDE DEF S, f
  <2> QED
    BY <1>4, <1>7
<1> QED
  BY <1>7, <1>8

\* A block is queued behind the others; what was at its slot no longer counts.
LEMMA QueueStep == ASSUME DmaIInv, NEW x \in Slots, QueueBlock(x) PROVE DmaIInv'
<1> DEFINE n == Len(dma_cmd)
           c == BlockCommand(x)
<1>1. /\ TypeOK /\ BlocksInLine /\ QueuedOnce /\ UnpackedBehind
      /\ BlocksAtTheirTiles /\ TableStays
  BY DEF DmaIInv
<1>2. /\ sat_count = 0 /\ \A k \in 1 .. n : dma_cmd[k] # c
      /\ dma_cmd' = Append(dma_cmd, c)
      /\ block_at' = [block_at EXCEPT ![x] = unpack_addr]
      /\ unpack_addr' = (unpack_addr + PageSize) % 65536
      /\ UNCHANGED <<sdram_ptr, vram, sat_count, shown, frame>>
  BY DEF QueueBlock
<1>3. c \in Command
  BY BlockParts
<1>4. n \in Nat /\ dma_cmd \in Seq(Command)
  BY <1>1 DEF TypeOK
<1>5. /\ dma_cmd' \in Seq(Command) /\ Len(dma_cmd') = n + 1 /\ dma_cmd'[n + 1] = c
      /\ \A k \in 1 .. n : dma_cmd'[k] = dma_cmd[k]
  BY <1>2, <1>3, <1>4
<1>6. unpack_addr = 36864 + 512 * n
  BY <1>1, <1>2 DEF UnpackedBehind, Staging, PageSize
<1>7. BlocksQueued = n /\ BlocksQueued' = n + 1 /\ FirstBlock = 36864 /\ FirstBlock' = 36864
  BY <1>2, <1>4, <1>5 DEF BlocksQueued, FirstBlock, Staging
<1>8. TypeOK'
  <2>1. unpack_addr' \in Nat
    BY <1>2, <1>6 DEF PageSize
  <2>2. block_at' \in [Slots -> Nat]
    BY <1>1, <1>2 DEF TypeOK
  <2> QED
    BY <1>1, <1>2, <1>5, <2>1, <2>2 DEF TypeOK
<1>9. block_at'[x] = unpack_addr /\ \A z \in Slots \ {x} : block_at'[z] = block_at[z]
  BY <1>1, <1>2 DEF TypeOK
<1>10. BlocksInLine'
  <2> SUFFICES ASSUME NEW k \in 1 .. n + 1 PROVE IsBlock(k)'
    BY <1>7 DEF BlocksInLine
  <2>1. CASE k = n + 1
    BY <1>5, <1>6, <1>7, <1>9, <2>1 DEF IsBlock, PageSize
  <2>2. CASE k \in 1 .. n
    <3>1. PICK z \in Slots : /\ dma_cmd[k] = BlockCommand(z)
                             /\ block_at[z] = 36864 + 512 * (k - 1)
      BY <1>1, <1>7, <2>2 DEF BlocksInLine, IsBlock, PageSize
    <3>2. z # x
      BY <1>2, <2>2, <3>1
    <3> QED
      BY <1>5, <1>7, <1>9, <2>2, <3>1, <3>2 DEF IsBlock, PageSize
  <2> QED
    BY <1>4, <2>1, <2>2
<1>11. QueuedOnce'
  BY <1>1, <1>2, <1>4, <1>5, <1>7 DEF QueuedOnce
<1>12. TableLast'
  BY <1>2 DEF TableLast
<1>13. n + 1 <= 53
  <2>1. \A k \in 1 .. n + 1 : \E z \in Slots : dma_cmd'[k] = BlockCommand(z)
    BY <1>7, <1>10 DEF BlocksInLine, IsBlock
  <2>2. \A k, m \in 1 .. n + 1 : k # m => dma_cmd'[k] # dma_cmd'[m]
    BY <1>7, <1>11 DEF QueuedOnce
  <2>3. n + 1 \in Nat
    BY <1>4
  <2> HIDE DEF n
  <2> QED
    BY <2>1, <2>2, <2>3, BlocksFit
<1>14. UnpackedBehind'
  <2>1. (36864 + 512 * n + 512) % 65536 = 36864 + 512 * (n + 1)
    BY <1>4, <1>13
  <2>2. unpack_addr' = 36864 + 512 * (n + 1)
    BY <1>2, <1>6, <2>1 DEF PageSize
  <2> QED
    BY <1>5, <2>2 DEF UnpackedBehind, PageSize, Staging
<1>15. BlocksAtTheirTiles'
  <2> SUFFICES ASSUME NEW z \in Slots, block_at'[z] # NoSource, ~Queued(z)'
               PROVE  vram'[PageOf(Tile(z) * 32)] = block_at'[z]
    BY DEF BlocksAtTheirTiles
  <2>1. z # x
    BY <1>4, <1>5 DEF Queued
  <2>2. ~Queued(z)
    BY <1>4, <1>5 DEF Queued
  <2> QED
    BY <1>1, <1>2, <1>9, <2>1, <2>2 DEF BlocksAtTheirTiles
<1>16. TableStays'
  BY <1>1, <1>2 DEF TableStays
<1> QED
  BY <1>8, <1>10, <1>11, <1>12, <1>14, <1>15, <1>16 DEF DmaIInv

\* The table goes behind the blocks, and the port back to the first of them.
LEMMA CloseStep == ASSUME DmaIInv, NEW n \in Counts, CloseTable(n) PROVE DmaIInv'
<1> DEFINE b == Len(dma_cmd)
<1>1. /\ TypeOK /\ BlocksInLine /\ QueuedOnce /\ BlocksAtTheirTiles /\ TableStays
  BY DEF DmaIInv
<1>2. /\ sat_count = 0 /\ sat_count' = n /\ dma_cmd' = Append(dma_cmd, TableCommand(n))
      /\ sdram_ptr' = Staging
      /\ UNCHANGED <<unpack_addr, vram, block_at, shown, frame>>
  BY DEF CloseTable
<1>3. n \in 1 .. 144 /\ TableCommand(n) \in Command
  BY DmaAssumption, TableParts
<1>4. b \in Nat /\ dma_cmd \in Seq(Command)
  BY <1>1 DEF TypeOK
<1>5. /\ dma_cmd' \in Seq(Command) /\ Len(dma_cmd') = b + 1
      /\ dma_cmd'[b + 1] = TableCommand(n)
      /\ \A k \in 1 .. b : dma_cmd'[k] = dma_cmd[k]
  BY <1>2, <1>3, <1>4
<1>6. BlocksQueued = b /\ BlocksQueued' = b /\ FirstBlock = Staging /\ FirstBlock' = Staging
  BY <1>2, <1>3, <1>4, <1>5 DEF BlocksQueued, FirstBlock
<1>7. TypeOK'
  BY <1>1, <1>2, <1>5 DEF TypeOK, Staging
<1>8. BlocksInLine'
  <2> SUFFICES ASSUME NEW k \in 1 .. b PROVE IsBlock(k)'
    BY <1>6 DEF BlocksInLine
  <2>1. IsBlock(k)
    BY <1>1, <1>6 DEF BlocksInLine
  <2> QED
    BY <1>2, <1>5, <1>6, <2>1 DEF IsBlock
<1>9. QueuedOnce'
  BY <1>1, <1>5, <1>6 DEF QueuedOnce
<1>10. TableLast' /\ UnpackedBehind'
  BY <1>2, <1>3, <1>5 DEF TableLast, UnpackedBehind
<1>11. BlocksAtTheirTiles'
  <2> SUFFICES ASSUME NEW z \in Slots, block_at'[z] # NoSource, ~Queued(z)'
               PROVE  vram'[PageOf(Tile(z) * 32)] = block_at'[z]
    BY DEF BlocksAtTheirTiles
  <2>1. ~Queued(z)
    BY <1>4, <1>5 DEF Queued
  <2> QED
    BY <1>1, <1>2, <2>1 DEF BlocksAtTheirTiles
<1>12. TableStays'
  BY <1>1, <1>2 DEF TableStays
<1> QED
  BY <1>7, <1>8, <1>9, <1>10, <1>11, <1>12 DEF DmaIInv

\* The chip copies the first of the blocks to its slot, and to nothing else.
LEMMA RunBlock == ASSUME DmaIInv, RunCommand, Len(dma_cmd) > 1 PROVE DmaIInv'
<1> DEFINE n == Len(dma_cmd)
<1>1. /\ TypeOK /\ BlocksInLine /\ QueuedOnce /\ TableLast /\ BlocksAtTheirTiles /\ TableStays
  BY DEF DmaIInv
<1>2. /\ sat_count # 0 /\ dma_cmd # << >>
      /\ dma_cmd' = Tail(dma_cmd)
      /\ UNCHANGED <<unpack_addr, block_at, sat_count, frame>>
  BY DEF RunCommand
<1>3. n \in Nat /\ n > 1 /\ dma_cmd \in Seq(Command)
  BY <1>1 DEF TypeOK
<1>4. /\ dma_cmd' \in Seq(Command) /\ Len(dma_cmd') = n - 1 /\ dma_cmd' # << >>
      /\ \A k \in 1 .. n - 1 : dma_cmd'[k] = dma_cmd[k + 1]
      /\ Head(dma_cmd) = dma_cmd[1]
  <2>1. dma_cmd # << >>
    BY <1>2
  <2>2. /\ Tail(dma_cmd) \in Seq(Command) /\ Len(Tail(dma_cmd)) = n - 1
        /\ \A k \in 1 .. n - 1 : Tail(dma_cmd)[k] = dma_cmd[k + 1]
        /\ Head(dma_cmd) = dma_cmd[1]
    BY <1>3, <2>1, HeadTailProperties
  <2>3. Tail(dma_cmd) # << >>
    <3>1. Len(<< >>) = 0
      OBVIOUS
    <3> SUFFICES ASSUME Tail(dma_cmd) = << >> PROVE FALSE
      OBVIOUS
    <3>2. PICK m \in Nat : m = n /\ m > 1
      BY <1>3
    <3>3. m - 1 = 0
      BY <2>2, <3>1, <3>2
    <3> QED
      BY <3>2, <3>3
  <2> QED
    BY <1>2, <2>2, <2>3
<1>5. /\ BlocksQueued = n - 1 /\ BlocksQueued' = n - 2
      /\ FirstBlock = sdram_ptr /\ FirstBlock' = sdram_ptr'
  BY <1>2, <1>3, <1>4 DEF BlocksQueued, FirstBlock
<1>6. sdram_ptr \in Nat /\ block_at \in [Slots -> Nat] /\ vram \in [Page -> Nat]
  BY <1>1 DEF TypeOK
<1>7. PICK x \in Slots : dma_cmd[1] = BlockCommand(x) /\ block_at[x] = sdram_ptr
  <2>1. IsBlock(1)
    BY <1>1, <1>3, <1>5 DEF BlocksInLine
  <2>2. sdram_ptr + 512 * (1 - 1) = sdram_ptr
    BY <1>6
  <2> QED
    BY <1>5, <2>1, <2>2 DEF IsBlock, PageSize
<1>8. BlockIndex(x) \in Page /\ BlockIndex(x) \notin 120 .. 123
  BY BlockParts
<1>9. /\ sdram_ptr' = sdram_ptr + 512 /\ shown' = shown
      /\ vram' \in [Page -> Nat] /\ vram'[BlockIndex(x)] = sdram_ptr
      /\ \A p \in Page \ {BlockIndex(x)} : vram'[p] = vram[p]
  <2> DEFINE c == BlockCommand(x)
             offset_of(p) == (p + 128 - PageOf(Address(c))) % 128
  <2>1. /\ Source(c) = Window /\ Length(c) = 512 /\ Pages(c) = {BlockIndex(x)}
        /\ PageOf(Address(c)) = BlockIndex(x) /\ Window # TableSource
    BY BlockParts DEF Window, TableSource
  <2>2. Head(dma_cmd) = c
    BY <1>4, <1>7
  <2>3. /\ vram' = [p \in Page |-> IF p \in Pages(c) THEN sdram_ptr + PageSize * offset_of(p)
                                                    ELSE vram[p]]
        /\ sdram_ptr' = sdram_ptr + Length(c)
        /\ shown' = shown
    BY <2>1, <2>2 DEF RunCommand
  <2>4. offset_of(BlockIndex(x)) = 0
    <3>1. \A p \in Page : (p + 128 - p) % 128 = 0
      BY DEF Page
    <3> QED
      BY <1>8, <2>1, <3>1
  <2>5. sdram_ptr + PageSize * 0 = sdram_ptr
    BY <1>6 DEF PageSize
  <2>6. vram'[BlockIndex(x)] = sdram_ptr /\ \A p \in Page \ {BlockIndex(x)} : vram'[p] = vram[p]
    <3> HIDE DEF offset_of, c
    <3> QED
      BY <1>8, <2>1, <2>3, <2>4, <2>5
  <2>7. vram' \in [Page -> Nat]
    <3>1. \A p \in Page : vram'[p] \in Nat
      BY <1>6, <2>6
    <3> HIDE DEF offset_of, c
    <3> QED
      BY <2>3, <3>1
  <2> QED
    BY <2>1, <2>3, <2>6, <2>7
<1>10. TypeOK'
  BY <1>1, <1>2, <1>4, <1>6, <1>9 DEF TypeOK
<1>11. BlocksInLine'
  <2> SUFFICES ASSUME NEW k \in 1 .. n - 2 PROVE IsBlock(k)'
    BY <1>5 DEF BlocksInLine
  <2>1. k + 1 \in 1 .. n - 1 /\ k \in 1 .. n - 1
    BY <1>3
  <2>2. IsBlock(k + 1)
    BY <1>1, <1>5, <2>1 DEF BlocksInLine
  <2>3. PICK z \in Slots : dma_cmd[k + 1] = BlockCommand(z)
                           /\ block_at[z] = sdram_ptr + 512 * (k + 1 - 1)
    BY <1>5, <2>2 DEF IsBlock, PageSize
  <2>4. dma_cmd'[k] = BlockCommand(z)
    BY <1>4, <2>1, <2>3
  <2>5. block_at'[z] = sdram_ptr' + 512 * (k - 1)
    BY <1>2, <1>6, <1>9, <2>3
  <2> QED
    BY <1>5, <2>4, <2>5 DEF IsBlock, PageSize
<1>12. QueuedOnce'
  <2> SUFFICES ASSUME NEW k \in 1 .. n - 2, NEW m \in 1 .. n - 2, k # m
               PROVE  dma_cmd'[k] # dma_cmd'[m]
    BY <1>5 DEF QueuedOnce
  <2>1. /\ k + 1 \in 1 .. n - 1 /\ m + 1 \in 1 .. n - 1 /\ k + 1 # m + 1
        /\ k \in 1 .. n - 1 /\ m \in 1 .. n - 1
    BY <1>3
  <2> QED
    BY <1>1, <1>4, <1>5, <2>1 DEF QueuedOnce
<1>13. TableLast' /\ UnpackedBehind'
  <2>1. dma_cmd[n] = TableCommand(sat_count)
    BY <1>1, <1>2 DEF TableLast
  <2>2. dma_cmd'[n - 1] = dma_cmd[n]
    BY <1>3, <1>4
  <2> QED
    BY <1>2, <1>4, <2>1, <2>2 DEF TableLast, UnpackedBehind
<1>14. BlocksAtTheirTiles'
  <2> SUFFICES ASSUME NEW z \in Slots, block_at[z] # NoSource, ~Queued(z)'
               PROVE  vram'[PageOf(Tile(z) * 32)] = block_at[z]
    BY <1>2 DEF BlocksAtTheirTiles
  <2>1. PageOf(Tile(z) * 32) = BlockIndex(z) /\ BlockIndex(z) \in Page
    BY BlockParts
  <2>2. CASE z = x
    BY <1>7, <1>9, <2>1, <2>2
  <2>3. CASE z # x
    <3>1. \A k \in 1 .. n : dma_cmd[k] # BlockCommand(z)
      <4> SUFFICES ASSUME NEW k \in 1 .. n, dma_cmd[k] = BlockCommand(z) PROVE FALSE
        OBVIOUS
      <4>1. k # 1
        BY <1>7, <2>3, SlotOfBlock
      <4>2. k - 1 \in 1 .. n - 1 /\ dma_cmd'[k - 1] = dma_cmd[k]
        BY <1>3, <1>4, <4>1
      <4> QED
        BY <1>4, <4>2 DEF Queued
    <3>2. vram[PageOf(Tile(z) * 32)] = block_at[z]
      BY <1>1, <3>1 DEF BlocksAtTheirTiles, Queued
    <3>3. BlockIndex(z) # BlockIndex(x)
      BY <2>3, SlotOfBlock
    <3> QED
      BY <1>9, <2>1, <3>2, <3>3
  <2> QED
    BY <2>2, <2>3
<1>15. TableStays'
  <2> SUFFICES ASSUME NEW i \in 0 .. 8 * shown - 1
               PROVE  vram'[PageOf(TableAddress + i)] = TableSource + PageSize * (i \div PageSize)
    BY <1>9 DEF TableStays
  <2>1. vram[PageOf(TableAddress + i)] = TableSource + PageSize * (i \div PageSize)
    BY <1>1 DEF TableStays
  <2>2. PageOf(TableAddress + i) \in 120 .. 122
    <3>1. shown \in 0 .. 144
      BY <1>1, DmaAssumption DEF TypeOK
    <3> QED
      BY <3>1 DEF PageOf, TableAddress, PageSize
  <2>3. PageOf(TableAddress + i) \in Page \ {BlockIndex(x)}
    BY <1>8, <2>2 DEF Page
  <2> QED
    BY <1>9, <2>1, <2>3
<1> QED
  BY <1>10, <1>11, <1>12, <1>13, <1>14, <1>15 DEF DmaIInv

\* The chip copies the table, the last of the frame.
LEMMA RunTable == ASSUME DmaIInv, RunCommand, Len(dma_cmd) <= 1 PROVE DmaIInv'
<1>1. TypeOK /\ TableLast /\ BlocksAtTheirTiles /\ TableStays
  BY DEF DmaIInv
<1>2. /\ sat_count # 0 /\ dma_cmd # << >>
      /\ dma_cmd' = Tail(dma_cmd)
      /\ UNCHANGED <<unpack_addr, block_at, sat_count, frame>>
  BY DEF RunCommand
<1>3. dma_cmd \in Seq(Command) /\ Len(dma_cmd) = 1
  <2>1. dma_cmd \in Seq(Command)
    BY <1>1 DEF TypeOK
  <2>2. PICK n \in Nat \ {0} : n = Len(dma_cmd)
    BY <1>2, <2>1, EmptySeq
  <2>3. n <= 1
    BY <2>2
  <2>4. n = 1
    BY <2>3
  <2> QED
    BY <2>1, <2>2, <2>4
<1>4. dma_cmd' = << >> /\ Head(dma_cmd) = dma_cmd[1] /\ dma_cmd[1] = TableCommand(sat_count)
  BY <1>1, <1>2, <1>3 DEF TableLast
<1>5. sat_count \in Counts /\ sat_count \in 1 .. 144
  BY <1>1, <1>2, DmaAssumption DEF TypeOK
<1>6. vram \in [Page -> Nat] /\ block_at \in [Slots -> Nat] /\ sdram_ptr \in Nat
  BY <1>1 DEF TypeOK
<1> DEFINE c == TableCommand(sat_count)
           offset_of(p) == (p + 128 - PageOf(Address(c))) % 128
<1>7. /\ Source(c) = TableSource /\ PageOf(Address(c)) = 120 /\ Pages(c) \subseteq 120 .. 122
      /\ \A i \in 0 .. 8 * sat_count - 1 : PageOf(TableAddress + i) \in Pages(c)
  BY <1>5, TableParts
<1>8. TableSource # Window /\ TableSource \in Nat
  BY DEF TableSource, Window
<1>9. /\ vram' = [p \in Page |-> IF p \in Pages(c) THEN TableSource + PageSize * offset_of(p)
                                                  ELSE vram[p]]
      /\ sdram_ptr' = sdram_ptr /\ shown' = sat_count
  BY <1>4, <1>7, <1>8 DEF RunCommand
<1>10. \A p \in 120 .. 122 : offset_of(p) = p - 120
  BY <1>7
<1>11. /\ \A p \in Pages(c) : vram'[p] = TableSource + PageSize * (p - 120)
       /\ \A p \in Page \ (120 .. 122) : vram'[p] = vram[p]
  <2>1. 120 .. 122 \subseteq Page
    BY DEF Page
  <2> HIDE DEF offset_of, c
  <2> QED
    BY <1>7, <1>9, <1>10, <2>1
<1>12. vram' \in [Page -> Nat]
  <2>1. \A p \in Page : vram'[p] \in Nat
    <3> SUFFICES ASSUME NEW p \in Page PROVE vram'[p] \in Nat
      OBVIOUS
    <3>1. CASE p \in Pages(c)
      <4>1. p \in 120 .. 122 /\ vram'[p] = TableSource + PageSize * (p - 120)
        BY <1>7, <1>11, <3>1
      <4> QED
        BY <4>1 DEF TableSource, PageSize
    <3>2. CASE p \notin Pages(c)
      BY <1>6, <1>9, <3>2
    <3> QED
      BY <3>1, <3>2
  <2> HIDE DEF offset_of, c
  <2> QED
    BY <1>9, <2>1
<1>13. TypeOK'
  BY <1>1, <1>2, <1>4, <1>5, <1>6, <1>9, <1>12 DEF TypeOK
<1>14. BlocksQueued' = 0 /\ TableLast' /\ UnpackedBehind'
  BY <1>2, <1>4 DEF BlocksQueued, TableLast, UnpackedBehind
<1>15. BlocksInLine' /\ QueuedOnce'
  BY <1>14 DEF BlocksInLine, QueuedOnce
<1>16. BlocksAtTheirTiles'
  <2> SUFFICES ASSUME NEW z \in Slots, block_at[z] # NoSource
               PROVE  vram'[PageOf(Tile(z) * 32)] = block_at[z]
    BY <1>2 DEF BlocksAtTheirTiles
  <2>1. /\ PageOf(Tile(z) * 32) = BlockIndex(z) /\ BlockIndex(z) \in Page
        /\ BlockIndex(z) \notin 120 .. 123 /\ Source(BlockCommand(z)) = Window
    BY BlockParts
  <2>2. c # BlockCommand(z)
    BY <1>7, <1>8, <2>1
  <2>3. ~Queued(z)
    BY <1>3, <1>4, <2>2 DEF Queued
  <2>4. BlockIndex(z) \in Page \ (120 .. 122)
    BY <2>1
  <2>5. vram[PageOf(Tile(z) * 32)] = block_at[z]
    BY <1>1, <2>3 DEF BlocksAtTheirTiles
  <2> QED
    BY <1>11, <2>1, <2>4, <2>5
<1>17. TableStays'
  <2> SUFFICES ASSUME NEW i \in 0 .. 8 * sat_count - 1
               PROVE  vram'[PageOf(TableAddress + i)] = TableSource + PageSize * (i \div PageSize)
    BY <1>9 DEF TableStays
  <2>1. PageOf(TableAddress + i) = 120 + (i \div PageSize) /\ i \div PageSize \in 0 .. 2
    BY <1>5 DEF PageOf, TableAddress, PageSize
  <2>2. PageOf(TableAddress + i) - 120 = i \div PageSize
    BY <2>1
  <2> HIDE DEF c, offset_of
  <2> QED
    BY <1>7, <1>11, <2>2
<1> QED
  BY <1>13, <1>14, <1>15, <1>16, <1>17 DEF DmaIInv

LEMMA NextDma == DmaIInv /\ [Next]_vars => DmaIInv'
<1> SUFFICES ASSUME DmaIInv, [Next]_vars PROVE DmaIInv'
  OBVIOUS
<1>1. CASE UNCHANGED vars
  <2>1. /\ TypeOK /\ BlocksInLine /\ QueuedOnce /\ TableLast /\ UnpackedBehind
        /\ BlocksAtTheirTiles /\ TableStays
    BY DEF DmaIInv
  <2>2. TypeOK' /\ TableLast' /\ UnpackedBehind' /\ TableStays'
    BY <1>1, <2>1 DEF vars, TypeOK, TableLast, UnpackedBehind, TableStays
  <2>3. BlocksInLine' /\ QueuedOnce'
    BY <1>1, <2>1 DEF vars, BlocksInLine, QueuedOnce, IsBlock, BlocksQueued, FirstBlock
  <2>4. BlocksAtTheirTiles'
    BY <1>1, <2>1 DEF vars, BlocksAtTheirTiles, Queued
  <2> QED
    BY <2>2, <2>3, <2>4 DEF DmaIInv
<1>2. CASE \E x \in Slots : QueueBlock(x)
  BY <1>2, QueueStep
<1>3. CASE \E n \in Counts : CloseTable(n)
  BY <1>3, CloseStep
<1>4. CASE RunCommand
  BY <1>4, RunBlock, RunTable DEF DmaIInv, TypeOK
<1>5. CASE FrameEnd
  <2>1. /\ TypeOK /\ BlocksAtTheirTiles /\ TableStays
    BY DEF DmaIInv
  <2>2. /\ dma_cmd = << >> /\ dma_cmd' = << >> /\ frame < MaxFrame
        /\ unpack_addr' = Staging /\ sat_count' = 0 /\ frame' = frame + 1
        /\ UNCHANGED <<sdram_ptr, vram, block_at, shown>>
    BY <1>5 DEF FrameEnd
  <2>3. TypeOK'
    BY <2>1, <2>2, DmaAssumption DEF TypeOK, Staging
  <2>4. BlocksQueued' = 0 /\ TableLast' /\ UnpackedBehind'
    BY <2>2 DEF BlocksQueued, TableLast, UnpackedBehind, PageSize, Staging
  <2>5. BlocksAtTheirTiles' /\ TableStays'
    BY <2>1, <2>2 DEF BlocksAtTheirTiles, TableStays, Queued
  <2> QED
    BY <2>3, <2>4, <2>5 DEF DmaIInv, BlocksInLine, QueuedOnce
<1>6. CASE LastFrame
  BY <1>1, <1>6 DEF LastFrame
<1> QED
  BY <1>1, <1>2, <1>3, <1>4, <1>5, <1>6 DEF Next
-----------------------------------------------------------------------------
(***************************************************************************)
(* The commands and the port.                                              *)
(***************************************************************************)
\* What a page that was unpacked to is, and that the others stay.
LEMMA UnpackedPages ==
    ASSUME NEW m, NEW page \in Nat, NEW pages, Len(pages) \in Nat,
           NEW a \in page .. page + Len(pages) - 1
    PROVE  /\ a \in DOMAIN Handlers!Unpacked(m, page, pages)
           /\ Handlers!Unpacked(m, page, pages)[a] = pages[a - page + 1]
<1>1. a - page + 1 \in 1 .. Len(pages) /\ a = page + (a - page + 1) - 1
  OBVIOUS
<1>2. a \in {page + k - 1 : k \in 1 .. Len(pages)}
  BY <1>1
<1> QED
  BY <1>2 DEF Handlers!Unpacked

LEMMA OtherPages ==
    ASSUME NEW m, NEW page \in Nat, NEW pages, Len(pages) \in Nat, NEW a \in DOMAIN m
    PROVE  /\ a \in DOMAIN Handlers!Unpacked(m, page, pages)
           /\ a \notin page .. page + Len(pages) - 1 => Handlers!Unpacked(m, page, pages)[a] = m[a]
BY DEF Handlers!Unpacked

LEMMA PagesBelow ==
    ASSUME NEW m, NEW page \in Nat, NEW pages, Len(pages) \in Nat,
           NEW a \in DOMAIN m, a \in Nat, a < page
    PROVE  /\ a \in DOMAIN Handlers!Unpacked(m, page, pages)
           /\ Handlers!Unpacked(m, page, pages)[a] = m[a]
<1>1. a \notin page .. page + Len(pages) - 1
  OBVIOUS
<1> QED
  BY ONLY <1>1, a \in DOMAIN m DEF Handlers!Unpacked

\* Three unpacked one behind the other: what is below them stays, and each is
\* there.
LEMMA BelowThree ==
    ASSUME NEW m, NEW p1 \in Nat, NEW p2 \in Nat, NEW p3 \in Nat, NEW f1, NEW f2, NEW f3,
           Len(f1) \in Nat, Len(f2) \in Nat, Len(f3) \in Nat,
           p1 + Len(f1) <= p2, p2 + Len(f2) <= p3,
           NEW a \in DOMAIN m, a \in Nat, a < p1
    PROVE  LET m3 == Handlers!Unpacked(Handlers!Unpacked(Handlers!Unpacked(m, p1, f1), p2, f2), p3, f3)
           IN  a \in DOMAIN m3 /\ m3[a] = m[a]
<1> DEFINE m1 == Handlers!Unpacked(m, p1, f1)
           m2 == Handlers!Unpacked(m1, p2, f2)
           m3 == Handlers!Unpacked(m2, p3, f3)
<1>1. a \in Nat /\ a < p1 /\ a < p2 /\ a < p3
  OBVIOUS
<1>2. a \in DOMAIN m1 /\ m1[a] = m[a]
  BY <1>1, PagesBelow
<1> HIDE DEF m1
<1>3. a \in DOMAIN m2 /\ m2[a] = m[a]
  BY ONLY p2 \in Nat, Len(f2) \in Nat, <1>1, <1>2, PagesBelow
<1> HIDE DEF m2
<1>4. a \in DOMAIN m3 /\ m3[a] = m[a]
  BY ONLY p3 \in Nat, Len(f3) \in Nat, <1>1, <1>3, PagesBelow
<1> HIDE DEF m3
<1> QED
  BY <1>4 DEF m1, m2, m3

LEMMA FirstOfThree ==
    ASSUME NEW m, NEW p1 \in Nat, NEW p2 \in Nat, NEW p3 \in Nat, NEW f1, NEW f2, NEW f3,
           Len(f1) \in Nat, Len(f2) \in Nat, Len(f3) \in Nat,
           p1 + Len(f1) <= p2, p2 + Len(f2) <= p3,
           NEW a \in p1 .. p1 + Len(f1) - 1
    PROVE  LET m3 == Handlers!Unpacked(Handlers!Unpacked(Handlers!Unpacked(m, p1, f1), p2, f2), p3, f3)
           IN  a \in DOMAIN m3 /\ m3[a] = f1[a - p1 + 1]
<1> DEFINE m1 == Handlers!Unpacked(m, p1, f1)
           m2 == Handlers!Unpacked(m1, p2, f2)
           m3 == Handlers!Unpacked(m2, p3, f3)
<1>1. a \in Nat /\ a < p2 /\ a < p3
  OBVIOUS
<1>2. a \in DOMAIN m1 /\ m1[a] = f1[a - p1 + 1]
  BY <1>1, UnpackedPages
<1> HIDE DEF m1
<1>3. a \in DOMAIN m2 /\ m2[a] = f1[a - p1 + 1]
  BY ONLY p2 \in Nat, Len(f2) \in Nat, <1>1, <1>2, PagesBelow, ZenonT(60)
<1> HIDE DEF m2
<1>4. a \in DOMAIN m3 /\ m3[a] = f1[a - p1 + 1]
  BY ONLY p3 \in Nat, Len(f3) \in Nat, <1>1, <1>3, PagesBelow, ZenonT(60)
<1> HIDE DEF m3
<1> QED
  BY <1>4 DEF m1, m2, m3

LEMMA SecondOfThree ==
    ASSUME NEW m, NEW p1 \in Nat, NEW p2 \in Nat, NEW p3 \in Nat, NEW f1, NEW f2, NEW f3,
           Len(f1) \in Nat, Len(f2) \in Nat, Len(f3) \in Nat,
           p1 + Len(f1) <= p2, p2 + Len(f2) <= p3,
           NEW a \in p2 .. p2 + Len(f2) - 1
    PROVE  LET m3 == Handlers!Unpacked(Handlers!Unpacked(Handlers!Unpacked(m, p1, f1), p2, f2), p3, f3)
           IN  a \in DOMAIN m3 /\ m3[a] = f2[a - p2 + 1]
<1> DEFINE m1 == Handlers!Unpacked(m, p1, f1)
           m2 == Handlers!Unpacked(m1, p2, f2)
           m3 == Handlers!Unpacked(m2, p3, f3)
<1>1. a \in Nat /\ a < p3
  OBVIOUS
<1>3. a \in DOMAIN m2 /\ m2[a] = f2[a - p2 + 1]
  BY <1>1, UnpackedPages
<1> HIDE DEF m2
<1>4. a \in DOMAIN m3 /\ m3[a] = f2[a - p2 + 1]
  BY ONLY p3 \in Nat, Len(f3) \in Nat, <1>1, <1>3, PagesBelow
<1> HIDE DEF m3
<1> QED
  BY <1>4 DEF m1, m2, m3

LEMMA ThirdOfThree ==
    ASSUME NEW m, NEW p1 \in Nat, NEW p2 \in Nat, NEW p3 \in Nat, NEW f1, NEW f2, NEW f3,
           Len(f1) \in Nat, Len(f2) \in Nat, Len(f3) \in Nat,
           p1 + Len(f1) <= p2, p2 + Len(f2) <= p3,
           NEW a \in p3 .. p3 + Len(f3) - 1
    PROVE  LET m3 == Handlers!Unpacked(Handlers!Unpacked(Handlers!Unpacked(m, p1, f1), p2, f2), p3, f3)
           IN  a \in DOMAIN m3 /\ m3[a] = f3[a - p3 + 1]
<1> DEFINE m1 == Handlers!Unpacked(m, p1, f1)
           m2 == Handlers!Unpacked(m1, p2, f2)
           m3 == Handlers!Unpacked(m2, p3, f3)
<1>1. a \in Nat
  OBVIOUS
<1>4. a \in DOMAIN m3 /\ m3[a] = f3[a - p3 + 1]
  BY <1>1, UnpackedPages
<1> HIDE DEF m3
<1> QED
  BY <1>4 DEF m1, m2, m3

\* The files lie one behind the other, above the pages of the game.
LEMMA FilePlaces ==
    ASSUME NEW sizes \in [1 .. 3 -> Nat]
    PROVE  /\ Handlers!FileStart(sizes, 1) = 128
           /\ Handlers!FileStart(sizes, 2) = 128 + sizes[1]
           /\ Handlers!FileStart(sizes, 3) = 128 + sizes[1] + sizes[2]
           /\ Handlers!FileStart(sizes, 4) = 128 + sizes[1] + sizes[2] + sizes[3]
BY DEF Handlers!FileStart, Handlers!PagesOf, Handlers!DataStart

LEMMA FileBounds ==
    ASSUME NEW sizes \in [1 .. 3 -> Nat], NEW k \in 1 .. 3, NEW n \in 1 .. sizes[k]
    PROVE  /\ Handlers!FileStart(sizes, k) + n - 1 \in Int /\ Handlers!FileStart(sizes, 4) \in Int
           /\ Handlers!FileStart(sizes, k) + n - 1 >= 128
           /\ Handlers!FileStart(sizes, k) + n - 1 < Handlers!FileStart(sizes, 4)
<1>1. sizes[1] \in Nat /\ sizes[2] \in Nat /\ sizes[3] \in Nat
  OBVIOUS
<1>2. CASE k = 1
  BY <1>1, <1>2 DEF Handlers!FileStart, Handlers!PagesOf, Handlers!DataStart
<1>3. CASE k = 2
  BY <1>1, <1>3 DEF Handlers!FileStart, Handlers!PagesOf, Handlers!DataStart
<1>4. CASE k = 3
  BY <1>1, <1>4 DEF Handlers!FileStart, Handlers!PagesOf, Handlers!DataStart
<1> QED
  BY <1>2, <1>3, <1>4

LEMMA PagesNumbered ==
    ASSUME NEW what, NEW n \in Nat
    PROVE  /\ Len(Handlers!Pages(what, n)) = n
           /\ \A k \in 1 .. n : Handlers!Pages(what, n)[k] = <<what, k>>
BY DEF Handlers!Pages

\* The files of a set-up are there.
FilesThere(sizes) ==
    \A k \in 1 .. 3 : \A n \in 1 .. sizes[k] :
        /\ Handlers!FileStart(sizes, k) + n - 1 \in DOMAIN sdram
        /\ sdram[Handlers!FileStart(sizes, k) + n - 1] = <<Handlers!FileNames[k], n>>

HandlerTypes ==
    /\ Handlers!TypeOK
    /\ vol \in [{"sfx", "bgm"} -> 0 .. 255]
    /\ \E S : promised \in Seq(S)
    /\ table.sizes \in [1 .. 3 -> Nat] /\ table.animations \in Seq(Handlers!Word)

\* What is promised is below the files, the music behind them.
PortBelowFiles == promised # << >> => port + Len(promised) <= 128
MusicBehind == table # Handlers!NoTable => bgm_unpack_addr = Handlers!FileStart(table.sizes, 4)

AnimationsCounted ==
    \A x \in DOMAIN table.animations :
        x \in DOMAIN anim_max_index /\ anim_max_index[x] = (table.animations[x] - 1) % 65536

HandlersIInv ==
    /\ HandlerTypes /\ PortBelowFiles /\ MusicBehind /\ AnimationsCounted
    /\ FilesThere(table.sizes) /\ Handlers!PortGivesPromised

LEMMA WordBounds == ASSUME NEW n \in Handlers!Word PROVE n \in Int /\ 0 <= n /\ n <= 65535
<1>1. Handlers!MaxWord \in Nat
  BY DEF Handlers!MaxWord
<1>2. n \in Int /\ 0 <= n /\ n <= Handlers!MaxWord
  BY ONLY <1>1, n \in Handlers!Word DEF Handlers!Word
<1> QED
  BY ONLY <1>2 DEF Handlers!MaxWord

LEMMA InWord == ASSUME NEW n \in Int PROVE n % 65536 \in Handlers!Word
<1>1. n % 65536 \in Int /\ 0 <= n % 65536 /\ n % 65536 < 65536
  BY ONLY n \in Int
<1>2. Handlers!MaxWord \in Nat /\ n % 65536 <= Handlers!MaxWord
  BY <1>1 DEF Handlers!MaxWord
<1> QED
  BY ONLY <1>1, <1>2 DEF Handlers!Word

LEMMA HandlersKept == HandlersIInv => PortAndFilesKept
<1> SUFFICES ASSUME HandlersIInv PROVE PortAndFilesKept
  OBVIOUS
<1>1. Handlers!TypeOK /\ Handlers!PortGivesPromised
  BY DEF HandlersIInv, HandlerTypes
<1>2. Handlers!FilesStay
  BY DEF HandlersIInv, FilesThere, Handlers!FilesStay
<1>3. Handlers!AnimationsKnown
  <2> SUFFICES ASSUME NEW x \in DOMAIN table.animations, table.animations[x] > 0,
                      NEW anim \in 0 .. 255
               PROVE  anim > anim_max_index[x] <=> anim >= table.animations[x]
    BY DEF Handlers!AnimationsKnown
  <2> DEFINE n == table.animations[x]
  <2>1. n \in Handlers!Word
    <3>1. table.animations \in Seq(Handlers!Word)
      BY DEF HandlersIInv, HandlerTypes
    <3>2. x \in 1 .. Len(table.animations)
      BY <3>1
    <3> QED
      BY <3>1, <3>2
  <2>5. n \in Int /\ 0 < n /\ n <= 65535
    BY <2>1, WordBounds
  <2>2. anim_max_index[x] = (n - 1) % 65536
    BY DEF HandlersIInv, AnimationsCounted
  <2> HIDE DEF n
  <2>3. anim_max_index[x] = n - 1
    BY <2>2, <2>5
  <2>4. anim > anim_max_index[x] <=> anim >= n
    BY <2>3, <2>5
  <2> QED
    BY <2>4 DEF n
<1> QED
  BY <1>1, <1>2, <1>3 DEF PortAndFilesKept

LEMMA InitHandlers == Handlers!Init => HandlersIInv
<1> SUFFICES ASSUME Handlers!Init PROVE HandlersIInv
  OBVIOUS
<1>1. table.sizes = <<0, 0, 0>> /\ table.animations = << >> /\ table = Handlers!NoTable
  BY DEF Handlers!Init, Handlers!NoTable
<1>2. promised = << >> /\ promised \in Seq({}) /\ anim_max_index = << >>
  BY DEF Handlers!Init
<1>3. HandlerTypes
  <2>1. vol \in [{"sfx", "bgm"} -> 0 .. 255] /\ vol.sfx \in 0 .. 255 /\ vol.bgm \in 0 .. 255
    BY DEF Handlers!Init
  <2>2. port \in Nat /\ sdram_en \in BOOLEAN /\ mdp_on \in BOOLEAN
    BY DEF Handlers!Init
  <2>3. \A x \in DOMAIN anim_max_index : anim_max_index[x] \in Handlers!Word
    <3>1. DOMAIN anim_max_index = {}
      BY <1>2
    <3> QED
      BY <3>1
  <2> QED
    BY <1>1, <1>2, <2>1, <2>2, <2>3 DEF HandlerTypes, Handlers!TypeOK
<1>4. FilesThere(table.sizes) /\ AnimationsCounted
  BY <1>1 DEF FilesThere, AnimationsCounted
<1> QED
  BY <1>1, <1>2, <1>3, <1>4 DEF HandlersIInv, PortBelowFiles, MusicBehind, Handlers!PortGivesPromised

\* What is unpacked below the files leaves them alone, and what is unpacked
\* behind them.
LEMMA FilesAlone ==
    ASSUME FilesThere(table.sizes), table.sizes \in [1 .. 3 -> Nat],
           NEW page \in Nat, NEW pages, Len(pages) \in Nat,
           \/ page + Len(pages) <= 128
           \/ page = Handlers!FileStart(table.sizes, 4),
           sdram' = Handlers!Unpacked(sdram, page, pages), table' = table
    PROVE  FilesThere(table.sizes)'
<1>1. \A k \in 1 .. 3 : \A n \in 1 .. table.sizes[k] :
          Handlers!FileStart(table.sizes, k) + n - 1 \notin page .. page + Len(pages) - 1
  <2> SUFFICES ASSUME NEW k \in 1 .. 3, NEW n \in 1 .. table.sizes[k]
               PROVE  Handlers!FileStart(table.sizes, k) + n - 1 \notin page .. page + Len(pages) - 1
    OBVIOUS
  <2> DEFINE a == Handlers!FileStart(table.sizes, k) + n - 1
             end == Handlers!FileStart(table.sizes, 4)
  <2>1. a \in Int /\ end \in Int /\ a >= 128 /\ a < end
    BY FileBounds
  <2>2. page + Len(pages) <= 128 \/ page = end
    OBVIOUS
  <2> HIDE DEF a, end
  <2>3. a \notin page .. page + Len(pages) - 1
    BY <2>1, <2>2
  <2> QED
    BY <2>3 DEF a
<1> SUFFICES ASSUME NEW k \in 1 .. 3, NEW n \in 1 .. table.sizes[k]
             PROVE  LET a == Handlers!FileStart(table.sizes, k) + n - 1
                    IN  a \in DOMAIN sdram' /\ sdram'[a] = <<Handlers!FileNames[k], n>>
  BY DEF FilesThere
<1> DEFINE a == Handlers!FileStart(table.sizes, k) + n - 1
<1>2. a \in DOMAIN sdram /\ sdram[a] = <<Handlers!FileNames[k], n>>
  BY DEF FilesThere
<1>3. a \notin page .. page + Len(pages) - 1
  BY <1>1
<1> HIDE DEF a
<1>4. a \in DOMAIN sdram' /\ sdram'[a] = sdram[a]
  <2>1. \A b \in DOMAIN sdram :
            b \in DOMAIN sdram' /\ (b \notin page .. page + Len(pages) - 1 => sdram'[b] = sdram[b])
    BY OtherPages
  <2> QED
    BY <1>2, <1>3, <2>1
<1>5. a \in DOMAIN sdram' /\ sdram'[a] = <<Handlers!FileNames[k], n>>
  BY <1>2, <1>4
<1> QED
  BY <1>5 DEF a

\* The port gives what was just unpacked below the files.
LEMMA PortOnUnpacked ==
    ASSUME NEW m, NEW page \in Nat, NEW pages, Len(pages) \in Nat, page + Len(pages) <= 128,
           sdram' = Handlers!Unpacked(m, page, pages), port' = page, promised' = pages
    PROVE  Handlers!PortGivesPromised' /\ PortBelowFiles'
<1>2. PortBelowFiles'
  BY DEF PortBelowFiles
<1>3. ASSUME NEW k \in 1 .. Len(promised')
      PROVE  page + k - 1 \in DOMAIN sdram' /\ sdram'[page + k - 1] = promised'[k]
  <2>1. page + k - 1 \in page .. page + Len(pages) - 1 /\ (page + k - 1) - page + 1 = k
    OBVIOUS
  <2>2. \A a \in page .. page + Len(pages) - 1 :
            a \in DOMAIN sdram' /\ sdram'[a] = pages[a - page + 1]
    BY UnpackedPages
  <2> QED
    BY <2>1, <2>2
<1> QED
  BY <1>2, <1>3 DEF Handlers!PortGivesPromised

\* The port gives what it promised while what is unpacked is at or behind the
\* files.
LEMMA PortAlone ==
    ASSUME Handlers!PortGivesPromised, PortBelowFiles, port \in Nat,
           NEW page \in Nat, page >= 128, NEW pages, Len(pages) \in Nat,
           sdram' = Handlers!Unpacked(sdram, page, pages), UNCHANGED <<port, promised>>,
           NEW S, promised \in Seq(S)
    PROVE  Handlers!PortGivesPromised' /\ PortBelowFiles'
<1> SUFFICES ASSUME NEW k \in 1 .. Len(promised)
             PROVE  port + k - 1 \in DOMAIN sdram' /\ sdram'[port + k - 1] = promised[k]
  BY DEF Handlers!PortGivesPromised, PortBelowFiles
<1>1. port + k - 1 \in DOMAIN sdram /\ sdram[port + k - 1] = promised[k]
  BY DEF Handlers!PortGivesPromised
<1>2. port + k - 1 \notin page .. page + Len(pages) - 1
  BY DEF PortBelowFiles
<1> QED
  BY <1>1, <1>2, OtherPages

LEMMA SetupStep ==
    ASSUME HandlersIInv, NEW sizes \in FileSizes, NEW animations \in Animations,
           Handlers!ppm_setup_data(sizes, animations),
           UNCHANGED <<port, promised, sdram_en, mdp_on, mdp_cmd, vol, mwire_data_in>>
    PROVE  HandlersIInv'
<1> USE DEF HandlersIInv
<1> DEFINE at(k) == Handlers!FileStart(sizes, k)
           file(k) == Handlers!Pages(Handlers!FileNames[k], sizes[k])
           m1 == Handlers!Unpacked(sdram, at(1), file(1))
           m2 == Handlers!Unpacked(m1, at(2), file(2))
           m3 == Handlers!Unpacked(m2, at(3), file(3))
<1>1. sizes \in [1 .. 3 -> Nat] /\ animations \in Seq(Handlers!Word)
  BY CommandsAssumption DEF Handlers!HandlersAssumption
<1>2. sdram' = m3 /\ bgm_unpack_addr' = at(4) /\ anim_max_index' = Handlers!MaxIndex(animations)
      /\ table' = [sizes |-> sizes, animations |-> animations]
  BY DEF Handlers!ppm_setup_data
<1>3. sizes[1] \in Nat /\ sizes[2] \in Nat /\ sizes[3] \in Nat
  BY <1>1
<1>4. Len(file(1)) = sizes[1] /\ Len(file(2)) = sizes[2] /\ Len(file(3)) = sizes[3]
  BY <1>3, PagesNumbered
<1>5. /\ at(1) = 128 /\ at(2) = 128 + sizes[1] /\ at(3) = 128 + sizes[1] + sizes[2]
      /\ at(1) \in Nat /\ at(2) \in Nat /\ at(3) \in Nat
  BY <1>1, <1>3, FilePlaces
<1>6. \A k \in 1 .. 3 : \A n \in 1 .. sizes[k] : file(k)[n] = <<Handlers!FileNames[k], n>>
  BY <1>1, PagesNumbered
<1> HIDE DEF at, file
<1>7. ASSUME NEW a \in Nat
      PROVE  /\ a \in DOMAIN sdram /\ a < 128 => a \in DOMAIN m3 /\ m3[a] = sdram[a]
             /\ \A k \in 1 .. 3 : a \in at(k) .. at(k) + sizes[k] - 1
                    => a \in DOMAIN m3 /\ m3[a] = file(k)[a - at(k) + 1]
  <2>1. at(1) + Len(file(1)) <= at(2) /\ at(2) + Len(file(2)) <= at(3)
        /\ Len(file(1)) \in Nat /\ Len(file(2)) \in Nat /\ Len(file(3)) \in Nat
    BY <1>3, <1>4, <1>5, SMTT(30)
  <2>2. /\ a \in DOMAIN sdram /\ a < at(1) => a \in DOMAIN m3 /\ m3[a] = sdram[a]
        /\ a \in at(1) .. at(1) + Len(file(1)) - 1 => a \in DOMAIN m3 /\ m3[a] = file(1)[a - at(1) + 1]
        /\ a \in at(2) .. at(2) + Len(file(2)) - 1 => a \in DOMAIN m3 /\ m3[a] = file(2)[a - at(2) + 1]
        /\ a \in at(3) .. at(3) + Len(file(3)) - 1 => a \in DOMAIN m3 /\ m3[a] = file(3)[a - at(3) + 1]
    <3> DEFINE p1 == at(1)
               p2 == at(2)
               p3 == at(3)
               f1 == file(1)
               f2 == file(2)
               f3 == file(3)
    <3>1. m3 = Handlers!Unpacked(Handlers!Unpacked(Handlers!Unpacked(sdram, p1, f1), p2, f2), p3, f3)
      OBVIOUS
    <3>2. p1 \in Nat /\ p2 \in Nat /\ p3 \in Nat
      BY <1>5
    <3>3. p1 + Len(f1) <= p2 /\ p2 + Len(f2) <= p3
          /\ Len(f1) \in Nat /\ Len(f2) \in Nat /\ Len(f3) \in Nat
      BY <2>1
    <3>4. /\ a \in DOMAIN sdram /\ a < p1 => a \in DOMAIN m3 /\ m3[a] = sdram[a]
          /\ a \in p1 .. p1 + Len(f1) - 1 => a \in DOMAIN m3 /\ m3[a] = f1[a - p1 + 1]
          /\ a \in p2 .. p2 + Len(f2) - 1 => a \in DOMAIN m3 /\ m3[a] = f2[a - p2 + 1]
          /\ a \in p3 .. p3 + Len(f3) - 1 => a \in DOMAIN m3 /\ m3[a] = f3[a - p3 + 1]
      <4> HIDE DEF m1, m2, m3, p1, p2, p3, f1, f2, f3
      <4>1. a \in DOMAIN sdram /\ a < p1 => a \in DOMAIN m3 /\ m3[a] = sdram[a]
        BY ONLY <3>1, <3>2, <3>3, a \in Nat, BelowThree
      <4>2. ASSUME a \in p1 .. p1 + Len(f1) - 1
            PROVE  a \in DOMAIN m3 /\ m3[a] = f1[a - p1 + 1]
        BY ONLY <3>1, <3>2, <3>3, <4>2, FirstOfThree
      <4>3. ASSUME a \in p2 .. p2 + Len(f2) - 1
            PROVE  a \in DOMAIN m3 /\ m3[a] = f2[a - p2 + 1]
        BY ONLY <3>1, <3>2, <3>3, <4>3, SecondOfThree
      <4>4. ASSUME a \in p3 .. p3 + Len(f3) - 1
            PROVE  a \in DOMAIN m3 /\ m3[a] = f3[a - p3 + 1]
        BY ONLY <3>1, <3>2, <3>3, <4>4, ThirdOfThree
      <4> QED
        BY ONLY <4>1, <4>2, <4>3, <4>4
    <3> QED
      BY <3>4
  <2> HIDE DEF m3
  <2>3. ASSUME NEW k \in 1 .. 3, a \in at(k) .. at(k) + sizes[k] - 1
        PROVE  a \in DOMAIN m3 /\ m3[a] = file(k)[a - at(k) + 1]
    <3>1. CASE k = 1
      BY <1>4, <2>2, <2>3, <3>1
    <3>2. CASE k = 2
      BY <1>4, <2>2, <2>3, <3>2
    <3>3. CASE k = 3
      BY <1>4, <2>2, <2>3, <3>3
    <3> QED
      BY <3>1, <3>2, <3>3
  <2> QED
    BY <1>5, <2>2, <2>3
<1>8. PortBelowFiles' /\ Handlers!PortGivesPromised'
  <2>1. PortBelowFiles'
    BY DEF PortBelowFiles
  <2> SUFFICES ASSUME NEW k \in 1 .. Len(promised)
               PROVE  port + k - 1 \in DOMAIN sdram' /\ sdram'[port + k - 1] = promised[k]
    BY <2>1 DEF Handlers!PortGivesPromised
  <2>2. port + k - 1 \in DOMAIN sdram /\ sdram[port + k - 1] = promised[k]
    BY DEF Handlers!PortGivesPromised
  <2>3. port + k - 1 \in Nat /\ port + k - 1 < 128
    <3>1. port \in Nat /\ \E S : promised \in Seq(S)
      BY DEF HandlerTypes, Handlers!TypeOK
    <3> QED
      BY <3>1 DEF PortBelowFiles
  <2> HIDE DEF m3
  <2> QED
    BY <1>2, <1>7, <2>2, <2>3
\* the files are there
<1>9. FilesThere(sizes)'
  <2> HIDE DEF m3
  <2>1. ASSUME NEW k \in 1 .. 3, NEW n \in 1 .. sizes[k]
        PROVE  at(k) + n - 1 \in DOMAIN m3 /\ m3[at(k) + n - 1] = file(k)[n]
    <3>1. at(k) \in Nat
      BY <1>5
    <3>2. at(k) + n - 1 \in at(k) .. at(k) + sizes[k] - 1 /\ (at(k) + n - 1) - at(k) + 1 = n
      BY <1>1, <3>1
    <3>3. at(k) + n - 1 \in Nat
      BY <3>1
    <3>4. at(k) + n - 1 \in DOMAIN m3
          /\ m3[at(k) + n - 1] = file(k)[(at(k) + n - 1) - at(k) + 1]
      BY <1>7, <3>2, <3>3
    <3> QED
      BY <3>2, <3>4
  <2> QED
    BY <1>2, <1>6, <2>1 DEF FilesThere, at
<1>10. AnimationsCounted' /\ \A x \in DOMAIN anim_max_index' : anim_max_index'[x] \in Handlers!Word
  <2>1. \A x \in DOMAIN anim_max_index : anim_max_index[x] \in Handlers!Word
    BY DEF HandlerTypes, Handlers!TypeOK
  <2>2. \A x \in DOMAIN animations : (animations[x] - 1) % 65536 \in Handlers!Word
    <3> SUFFICES ASSUME NEW x \in DOMAIN animations PROVE (animations[x] - 1) % 65536 \in Handlers!Word
      OBVIOUS
    <3> DEFINE n == animations[x]
    <3>1. n \in Handlers!Word
      BY <1>1
    <3> HIDE DEF n
    <3>2. n \in Int
      BY <3>1, WordBounds
    <3>3. n - 1 \in Int
      BY <3>2
    <3>4. (n - 1) % 65536 \in Handlers!Word
      BY <3>3, InWord
    <3> QED
      BY <3>4 DEF n
  <2>3. \A x \in DOMAIN animations :
            x \in DOMAIN anim_max_index' /\ anim_max_index'[x] = (animations[x] - 1) % 65536
    BY <1>2 DEF Handlers!MaxIndex
  <2>4. \A x \in DOMAIN anim_max_index' : anim_max_index'[x] \in Handlers!Word
    BY <1>2, <2>1, <2>2 DEF Handlers!MaxIndex
  <2> QED
    BY <1>2, <2>3, <2>4 DEF AnimationsCounted
<1>11. HandlerTypes'
  BY <1>1, <1>2, <1>10 DEF HandlerTypes, Handlers!TypeOK
<1>12. MusicBehind'
  BY <1>2 DEF MusicBehind, at
<1>13. FilesThere(table.sizes)'
  BY <1>2, <1>9 DEF FilesThere
<1> QED
  BY <1>8, <1>10, <1>11, <1>12, <1>13

\* What leaves the memory and the port alone.
LEMMA RegistersStep ==
    ASSUME HandlersIInv, UNCHANGED <<sdram, port, promised, bgm_unpack_addr, anim_max_index, table>>,
           sdram_en' \in BOOLEAN, mdp_on' \in BOOLEAN, vol' \in [{"sfx", "bgm"} -> 0 .. 255]
    PROVE  HandlersIInv'
<1>1. HandlerTypes'
  BY DEF HandlersIInv, HandlerTypes, Handlers!TypeOK
<1>2. PortBelowFiles' /\ MusicBehind' /\ AnimationsCounted' /\ FilesThere(table.sizes)'
      /\ Handlers!PortGivesPromised'
  BY DEF HandlersIInv, PortBelowFiles, MusicBehind, AnimationsCounted, FilesThere,
         Handlers!PortGivesPromised
<1> QED
  BY <1>1, <1>2 DEF HandlersIInv

\* What is unpacked below the files for the port.
LEMMA BelowStep ==
    ASSUME HandlersIInv, NEW page \in Nat, NEW S, NEW pages \in Seq(S), page + Len(pages) <= 128,
           sdram' = Handlers!Unpacked(sdram, page, pages), port' = page, promised' = pages,
           UNCHANGED <<bgm_unpack_addr, anim_max_index, table, sdram_en, mdp_on, mdp_cmd, vol,
                       mwire_data_in>>
    PROVE  HandlersIInv'
<1>1. Len(pages) \in Nat
  OBVIOUS
<1>2. HandlerTypes'
  BY DEF HandlersIInv, HandlerTypes, Handlers!TypeOK
<1>3. MusicBehind' /\ AnimationsCounted'
  BY DEF HandlersIInv, MusicBehind, AnimationsCounted
<1>4. FilesThere(table.sizes)'
  <2>1. table.sizes \in [1 .. 3 -> Nat] /\ FilesThere(table.sizes)
    BY DEF HandlersIInv, HandlerTypes
  <2> QED
    BY <1>1, <2>1, FilesAlone
<1>5. Handlers!PortGivesPromised' /\ PortBelowFiles'
  BY <1>1, PortOnUnpacked
<1> QED
  BY <1>2, <1>3, <1>4, <1>5 DEF HandlersIInv

\* A block twice is unpacked as one file of two pages would be.
LEMMA BlockTwice ==
    ASSUME NEW m, NEW b
    PROVE  Handlers!Unpacked(Handlers!Unpacked(m, 72, <<b>>), 73, <<b>>)
               = Handlers!Unpacked(m, 72, <<b, b>>)
<1> DEFINE one == Handlers!Unpacked(m, 72, <<b>>)
           both == Handlers!Unpacked(m, 72, <<b, b>>)
           two == Handlers!Unpacked(one, 73, <<b>>)
<1>1. DOMAIN one = DOMAIN m \cup {72} /\ \A a \in DOMAIN one : one[a] = IF a = 72 THEN b ELSE m[a]
  <2>1. {72 + k - 1 : k \in 1 .. Len(<<b>>)} = {72}
    OBVIOUS
  <2>2. \A a : a \in 72 .. 72 + Len(<<b>>) - 1 <=> a = 72
    OBVIOUS
  <2>3. one = [a \in DOMAIN m \cup {72} |-> IF a = 72 THEN b ELSE m[a]]
    <3>1. \A a \in DOMAIN m \cup {72} :
              (IF a \in 72 .. 72 + Len(<<b>>) - 1 THEN <<b>>[a - 72 + 1] ELSE m[a])
                  = IF a = 72 THEN b ELSE m[a]
      BY <2>2
    <3> QED
      BY <2>1, <3>1 DEF Handlers!Unpacked
  <2> QED
    BY <2>3
<1>2. both = [a \in DOMAIN m \cup {72, 73} |-> IF a \in {72, 73} THEN b ELSE m[a]]
  <2>1. {72 + k - 1 : k \in 1 .. Len(<<b, b>>)} = {72, 73}
    OBVIOUS
  <2>2. \A a : a \in 72 .. 72 + Len(<<b, b>>) - 1 <=> a \in {72, 73}
    OBVIOUS
  <2>3. \A a \in DOMAIN m \cup {72, 73} :
            (IF a \in 72 .. 72 + Len(<<b, b>>) - 1 THEN <<b, b>>[a - 72 + 1] ELSE m[a])
                = IF a \in {72, 73} THEN b ELSE m[a]
    BY <2>2
  <2> QED
    BY <2>1, <2>3 DEF Handlers!Unpacked
<1> HIDE DEF one
<1>3. two = [a \in DOMAIN one \cup {73} |-> IF a = 73 THEN b ELSE one[a]]
  <2>1. {73 + k - 1 : k \in 1 .. Len(<<b>>)} = {73}
    OBVIOUS
  <2>2. \A a : a \in 73 .. 73 + Len(<<b>>) - 1 <=> a = 73
    OBVIOUS
  <2>3. \A a \in DOMAIN one \cup {73} :
            (IF a \in 73 .. 73 + Len(<<b>>) - 1 THEN <<b>>[a - 73 + 1] ELSE one[a])
                = IF a = 73 THEN b ELSE one[a]
    BY <2>2
  <2> QED
    BY <2>1, <2>3 DEF Handlers!Unpacked
<1>4. DOMAIN one \cup {73} = DOMAIN m \cup {72, 73}
  BY <1>1
<1>5. \A a \in DOMAIN m \cup {72, 73} :
          (IF a = 73 THEN b ELSE one[a]) = IF a \in {72, 73} THEN b ELSE m[a]
  BY <1>1
<1>6. two = [a \in DOMAIN m \cup {72, 73} |-> IF a = 73 THEN b ELSE one[a]]
  BY <1>3, <1>4
<1> HIDE DEF two, both
<1>7. two = both
  BY <1>2, <1>5, <1>6
<1> QED
  BY <1>7 DEF one, two, both

LEMMA FrameEndStep ==
    ASSUME HandlersIInv, NEW b \in Block, NEW n \in Loads, Handlers!cmd_AF_frame_end(b, n)
    PROVE  HandlersIInv'
<1> DEFINE blocks == [k \in 1 .. n |-> <<"block", b + k>>]
           S == {<<"block", b + k>> : k \in 1 .. n}
<1>1. n \in Nat /\ n <= 53
  BY CommandsAssumption DEF Handlers!HandlersAssumption, Handlers!MaxSlots
<1>2. blocks \in Seq(S) /\ Len(blocks) = n
  BY <1>1
<1>3. sdram' = Handlers!Unpacked(sdram, 72, blocks) /\ port' = 72 /\ promised' = blocks
      /\ UNCHANGED <<bgm_unpack_addr, anim_max_index, table, sdram_en, mdp_on, mdp_cmd, vol,
                     mwire_data_in>>
  BY DEF Handlers!cmd_AF_frame_end, Handlers!MovePort, Handlers!Staging, Handlers!registers
<1> HIDE DEF blocks, S
<1>4. 72 \in Nat /\ 72 + Len(blocks) <= 128
  BY <1>1, <1>2
<1> QED
  BY <1>2, <1>3, <1>4, BelowStep

LEMMA UnpackTwiceStep ==
    ASSUME HandlersIInv, NEW b \in Block, Handlers!cmd_F2_unpack(b)
    PROVE  HandlersIInv'
<1> DEFINE what == <<"block", b>>
           pages == <<what, what>>
<1>1. sdram' = Handlers!Unpacked(Handlers!Unpacked(sdram, 72, <<what>>), 72 + 1, <<what>>)
      /\ port' = 72 /\ promised' = pages
      /\ UNCHANGED <<bgm_unpack_addr, anim_max_index, table, sdram_en, mdp_on, mdp_cmd, vol,
                     mwire_data_in>>
  BY DEF Handlers!cmd_F2_unpack, Handlers!MovePort, Handlers!Staging, Handlers!registers
<1> HIDE DEF what
<1>2. 72 + 1 = 73 /\ 72 \in Nat
  OBVIOUS
<1>3. sdram' = Handlers!Unpacked(sdram, 72, pages)
  <2>1. sdram' = Handlers!Unpacked(Handlers!Unpacked(sdram, 72, <<what>>), 73, <<what>>)
    BY <1>1, <1>2
  <2> QED
    BY <2>1, BlockTwice
<1>4. pages \in Seq({what}) /\ 72 + Len(pages) <= 128
  OBVIOUS
<1> HIDE DEF pages
<1> QED
  BY <1>1, <1>2, <1>3, <1>4, BelowStep

LEMMA UnpackDataStep ==
    ASSUME HandlersIInv, NEW page \in Own, Handlers!cmd_DA_unpack(page)
    PROVE  HandlersIInv'
<1> DEFINE pages == Handlers!Pages("data", 2)
           S == {<<"data", k>> : k \in 1 .. 2}
<1>1. page \in Nat /\ page <= 71
  BY CommandsAssumption DEF Handlers!HandlersAssumption, Handlers!Staging
<1>2. pages \in Seq(S) /\ Len(pages) = 2
  BY DEF Handlers!Pages
<1>3. sdram' = Handlers!Unpacked(sdram, page, pages) /\ port' = page /\ promised' = pages
      /\ UNCHANGED <<bgm_unpack_addr, anim_max_index, table, sdram_en, mdp_on, mdp_cmd, vol,
                     mwire_data_in>>
  BY DEF Handlers!cmd_DA_unpack, Handlers!MovePort, Handlers!registers
<1> HIDE DEF pages, S
<1>4. page + Len(pages) <= 128
  BY <1>1, <1>2
<1> QED
  BY <1>1, <1>2, <1>3, <1>4, BelowStep

\* What stands in a page is what the port gives there.
LEMMA SetPortStep ==
    ASSUME HandlersIInv, NEW page \in Own \cup {72}, Handlers!cmd_DB_set_dma_ptr(page)
    PROVE  HandlersIInv'
<1>1. page \in Nat /\ page <= 72
  BY CommandsAssumption DEF Handlers!HandlersAssumption, Handlers!Staging
<1>2. port' = page /\ promised' = (IF page \in DOMAIN sdram THEN <<sdram[page]>> ELSE << >>)
      /\ UNCHANGED <<sdram, bgm_unpack_addr, anim_max_index, table, sdram_en, mdp_on, mdp_cmd, vol,
                     mwire_data_in>>
  BY DEF Handlers!cmd_DB_set_dma_ptr, Handlers!MovePort, Handlers!memory, Handlers!registers
<1>3. promised' \in Seq({sdram[page]})
  <2>1. <<sdram[page]>> \in Seq({sdram[page]}) /\ << >> \in Seq({sdram[page]})
    OBVIOUS
  <2> QED
    BY <1>2, <2>1
<1>4. HandlerTypes'
  BY <1>1, <1>2, <1>3 DEF HandlersIInv, HandlerTypes, Handlers!TypeOK
<1>5. MusicBehind' /\ AnimationsCounted' /\ FilesThere(table.sizes)'
  BY <1>2 DEF HandlersIInv, MusicBehind, AnimationsCounted, FilesThere
<1>6. PortBelowFiles' /\ Handlers!PortGivesPromised'
  <2>1. CASE page \in DOMAIN sdram
    <3>1. promised' = <<sdram[page]>> /\ Len(promised') = 1
      BY <1>2, <2>1
    <3>2. \A k \in 1 .. Len(promised') : k = 1 /\ port' + k - 1 = page
      BY <1>1, <1>2, <3>1
    <3> QED
      BY <1>1, <1>2, <2>1, <3>1, <3>2 DEF PortBelowFiles, Handlers!PortGivesPromised
  <2>2. CASE page \notin DOMAIN sdram
    BY <1>2, <2>2 DEF PortBelowFiles, Handlers!PortGivesPromised
  <2> QED
    BY <2>1, <2>2
<1> QED
  BY <1>4, <1>5, <1>6 DEF HandlersIInv

LEMMA GameReadsStep ==
    ASSUME HandlersIInv, Handlers!GameReads
    PROVE  HandlersIInv'
<1>1. port' = port + 1 /\ promised' = Tail(promised) /\ promised # << >>
      /\ UNCHANGED <<sdram, bgm_unpack_addr, anim_max_index, table, sdram_en, mdp_on, mdp_cmd, vol,
                     mwire_data_in>>
  BY DEF Handlers!GameReads, Handlers!memory, Handlers!registers
<1>2. PICK S : promised \in Seq(S)
  BY DEF HandlersIInv, HandlerTypes
<1>3. port \in Nat
  BY DEF HandlersIInv, HandlerTypes, Handlers!TypeOK
<1>4. promised' \in Seq(S) /\ Len(promised') = Len(promised) - 1 /\ Len(promised) \in Nat
      /\ \A k \in 1 .. Len(promised') : promised'[k] = promised[k + 1]
  BY <1>1, <1>2
<1>5. HandlerTypes'
  BY <1>1, <1>3, <1>4 DEF HandlersIInv, HandlerTypes, Handlers!TypeOK
<1>6. MusicBehind' /\ AnimationsCounted' /\ FilesThere(table.sizes)'
  BY <1>1 DEF HandlersIInv, MusicBehind, AnimationsCounted, FilesThere
<1>7. PortBelowFiles'
  BY <1>1, <1>3, <1>4 DEF HandlersIInv, PortBelowFiles
<1>8. Handlers!PortGivesPromised'
  <2> SUFFICES ASSUME NEW k \in 1 .. Len(promised')
               PROVE  port' + k - 1 \in DOMAIN sdram /\ sdram[port' + k - 1] = promised'[k]
    BY <1>1 DEF Handlers!PortGivesPromised
  <2>1. k + 1 \in 1 .. Len(promised) /\ port' + k - 1 = port + (k + 1) - 1
    BY <1>1, <1>3, <1>4
  <2>2. port + (k + 1) - 1 \in DOMAIN sdram /\ sdram[port + (k + 1) - 1] = promised[k + 1]
    BY <2>1 DEF HandlersIInv, Handlers!PortGivesPromised
  <2> QED
    BY <1>4, <2>1, <2>2
<1> QED
  BY <1>5, <1>6, <1>7, <1>8 DEF HandlersIInv

LEMMA MusicStep ==
    ASSUME HandlersIInv, NEW track \in Track, NEW play \in BOOLEAN,
           Handlers!cmd_8C_bgm_play(track, play)
    PROVE  HandlersIInv'
<1> DEFINE pages == Handlers!Pages("music", 2)
<1>1. table # Handlers!NoTable
      /\ sdram' = Handlers!Unpacked(sdram, bgm_unpack_addr, pages)
      /\ UNCHANGED <<port, promised, bgm_unpack_addr, anim_max_index, table, sdram_en, mdp_on, vol,
                     mwire_data_in>>
  BY DEF Handlers!cmd_8C_bgm_play, Handlers!port
<1>2. Len(pages) = 2
  BY DEF Handlers!Pages
<1>3. table.sizes \in [1 .. 3 -> Nat] /\ bgm_unpack_addr = Handlers!FileStart(table.sizes, 4)
  BY <1>1 DEF HandlersIInv, HandlerTypes, MusicBehind
<1>4. bgm_unpack_addr \in Nat /\ bgm_unpack_addr >= 128
  <2>1. table.sizes[1] \in Nat /\ table.sizes[2] \in Nat /\ table.sizes[3] \in Nat
    BY <1>3
  <2> QED
    BY <1>3, <2>1, FilePlaces
<1> HIDE DEF pages
<1>5. FilesThere(table.sizes)'
  <2>1. FilesThere(table.sizes)
    BY DEF HandlersIInv
  <2> QED
    BY <1>1, <1>2, <1>3, <1>4, <2>1, FilesAlone
<1>6. Handlers!PortGivesPromised' /\ PortBelowFiles'
  <2>1. PICK S : promised \in Seq(S)
    BY DEF HandlersIInv, HandlerTypes
  <2>2. Handlers!PortGivesPromised /\ PortBelowFiles /\ port \in Nat
    BY DEF HandlersIInv, HandlerTypes, Handlers!TypeOK
  <2> QED
    BY <1>1, <1>2, <1>4, <2>1, <2>2, PortAlone
<1>7. HandlerTypes'
  BY <1>1 DEF HandlersIInv, HandlerTypes, Handlers!TypeOK
<1>8. MusicBehind' /\ AnimationsCounted'
  BY <1>1 DEF HandlersIInv, MusicBehind, AnimationsCounted
<1> QED
  BY <1>5, <1>6, <1>7, <1>8 DEF HandlersIInv

LEMMA NextHandlers == HandlersIInv /\ [Handlers!Next]_handlerVars => HandlersIInv'
<1> SUFFICES ASSUME HandlersIInv, [Handlers!Next]_handlerVars PROVE HandlersIInv'
  OBVIOUS
<1> USE DEF Handlers!memory, Handlers!port, Handlers!registers
<1>1. sdram_en \in BOOLEAN /\ mdp_on \in BOOLEAN /\ vol \in [{"sfx", "bgm"} -> 0 .. 255]
  BY DEF HandlersIInv, HandlerTypes, Handlers!TypeOK
<1>2. CASE UNCHANGED handlerVars
  BY <1>1, <1>2, RegistersStep DEF handlerVars
<1>3. ASSUME Handlers!Command PROVE HandlersIInv'
  <2>1. CASE Handlers!cmd_C6_setup_data
    BY <2>1, SetupStep DEF Handlers!cmd_C6_setup_data
  <2>2. CASE \E b \in Block, n \in Loads : Handlers!cmd_AF_frame_end(b, n)
    BY <2>2, FrameEndStep
  <2>3. CASE \E b \in Block : Handlers!cmd_F2_unpack(b)
    BY <2>3, UnpackTwiceStep
  <2>4. CASE \E page \in Own : Handlers!cmd_DA_unpack(page)
    BY <2>4, UnpackDataStep
  <2>5. CASE \E page \in Own \cup {Handlers!Staging} : Handlers!cmd_DB_set_dma_ptr(page)
    BY <2>5, SetPortStep DEF Handlers!Staging
  <2>6. CASE \E track \in Track, play \in BOOLEAN : Handlers!cmd_8C_bgm_play(track, play)
    BY <2>6, MusicStep
  <2>7. CASE \E arg_ \in {0, 1, 8} : Handlers!cmd_8D_bgm_cfg(arg_)
    BY <1>1, <2>7, RegistersStep DEF Handlers!cmd_8D_bgm_cfg
  <2>8. CASE Handlers!cmd_81_init
    BY <1>1, <2>8, RegistersStep DEF Handlers!cmd_81_init
  <2>9. CASE Handlers!cmd_84_sdram_off
    BY <1>1, <2>9, RegistersStep DEF Handlers!cmd_84_sdram_off
  <2>10. CASE \E which_ \in {"sfx", "bgm"} : Handlers!cmd_vol(which_, 0)
    <3>1. PICK which_ \in {"sfx", "bgm"} : Handlers!cmd_vol(which_, 0)
      BY <2>10
    <3>2. vol' = [vol EXCEPT ![which_] = 0] /\ UNCHANGED <<sdram, bgm_unpack_addr,
              anim_max_index, table, port, promised, sdram_en, mdp_on>>
      BY <3>1 DEF Handlers!cmd_vol
    <3>3. vol' \in [{"sfx", "bgm"} -> 0 .. 255]
      BY <1>1, <3>2
    <3> QED
      BY <1>1, <3>2, <3>3, RegistersStep
  <2>11. CASE Handlers!cmd_E7_mwire
    BY <1>1, <2>11, RegistersStep DEF Handlers!cmd_E7_mwire
  <2>12. CASE Handlers!cmd_unknown
    BY <1>1, <2>12, RegistersStep DEF Handlers!cmd_unknown
  <2> QED
    BY <1>3, <2>1, <2>2, <2>3, <2>4, <2>5, <2>6, <2>7, <2>8, <2>9, <2>10, <2>11, <2>12
    DEF Handlers!Command
<1>4. CASE Handlers!ppm_cmd_handler
  BY <1>3, <1>4 DEF Handlers!ppm_cmd_handler
<1>5. CASE Handlers!GameReads
  BY <1>5, GameReadsStep
<1>6. CASE Handlers!Quiet
  BY <1>1, <1>6, RegistersStep DEF Handlers!Quiet, Handlers!vars
<1> QED
  BY <1>2, <1>4, <1>5, <1>6 DEF Handlers!Next
-----------------------------------------------------------------------------
(***************************************************************************)
(* The scaled picture: where the areas of the shared memory are.           *)
(***************************************************************************)
LEMMA Areas ==
    /\ Len(Scale!ramdp) = 21
    /\ Scale!ramdp[1] = Scale!Area("vectors", 256) /\ Scale!ramdp[2] = Scale!Area("rom_hdr", 256)
    /\ Scale!ramdp[3] = Scale!Area("scaling_buff", 1536)
    /\ Scale!ramdp[4] = Scale!Area("save_buff", 512) /\ Scale!ramdp[5] = Scale!Area("_pad1", 256)
    /\ Scale!ramdp[6] = Scale!Area("sat_data", 1152)
    /\ Scale!ramdp[7] = Scale!Area("obj_data", 1024)
    /\ Scale!ramdp[8] = Scale!Area("_pad2", 128) /\ Scale!ramdp[9] = Scale!Area("dma_cmd", 1936)
    /\ Scale!ramdp[10] = Scale!Area("audio_data", 112)
    /\ Scale!ramdp[11] = Scale!Area("net_data", 528) /\ Scale!ramdp[12] = Scale!Area("cmd_args", 256)
    /\ Scale!ramdp[13] = Scale!Area("counters", 16) /\ Scale!ramdp[14] = Scale!Area("buff", 192)
    /\ Scale!ramdp[15] = Scale!Area("reg_unk0", 4) /\ Scale!ramdp[16] = Scale!Area("reg_status_1", 2)
    /\ Scale!ramdp[17] = Scale!Area("reg_status_2", 2) /\ Scale!ramdp[18] = Scale!Area("reg_unk4", 2)
    /\ Scale!ramdp[19] = Scale!Area("reg_cmd", 2) /\ Scale!ramdp[20] = Scale!Area("reg_wdog", 2)
    /\ Scale!ramdp[21] = Scale!Area("reg_unk_1fee", 18)
BY SMTT(30) DEF Scale!ramdp, Scale!sat_item_size, Scale!intf_obj_size, Scale!dma_cmd_size

\* The address of each area, which those before it take up.
Addresses == <<0, 256, 512, 2048, 2560, 2816, 3968, 4992, 5120, 7056, 7168, 7696, 7952, 7968,
               8160, 8164, 8166, 8168, 8170, 8172, 8174, 8192>>

LEMMA Sizes ==
    ASSUME NEW k \in 1 .. 21
    PROVE  Addresses[k + 1] = Addresses[k] + Scale!ramdp[k].bytes
BY Areas DEF Addresses, Scale!Area

LEMMA AddressesRight ==
    /\ Len(Addresses) = 22 /\ DOMAIN Addresses = 1 .. 22
    /\ \A k \in 1 .. 22 : Scale!Address[k] = Addresses[k]
<1> DEFINE Sum(f) == [k \in 1 .. Len(Scale!ramdp) + 1 |->
                          IF k = 1 THEN 0 ELSE f[k - 1] + Scale!ramdp[k - 1].bytes]
<1>1. Len(Addresses) = 22 /\ DOMAIN Addresses = 1 .. 22 /\ Addresses[1] = 0
  BY DEF Addresses
<1>2. Addresses = [k \in 1 .. 22 |-> Addresses[k]]
  BY DEF Addresses
<1>3. \A k \in 1 .. 22 :
          Addresses[k] = IF k = 1 THEN 0 ELSE Addresses[k - 1] + Scale!ramdp[k - 1].bytes
  <2> SUFFICES ASSUME NEW k \in 1 .. 22, k # 1
               PROVE  Addresses[k] = Addresses[k - 1] + Scale!ramdp[k - 1].bytes
    BY <1>1
  <2>1. k - 1 \in 1 .. 21 /\ (k - 1) + 1 = k
    OBVIOUS
  <2> QED
    BY <2>1, Sizes
<1>4. Addresses = Sum(Addresses)
  <2>1. Len(Scale!ramdp) + 1 = 22
    BY Areas
  <2>2. Sum(Addresses) = [k \in 1 .. 22 |->
             IF k = 1 THEN 0 ELSE Addresses[k - 1] + Scale!ramdp[k - 1].bytes]
    BY <2>1
  <2> QED
    BY <1>2, <1>3, <2>2
<1>5. Scale!Address = Sum(Scale!Address)
  <2>1. Scale!Address = CHOOSE f : f = Sum(f)
    BY DEF Scale!Address
  <2> HIDE DEF Sum
  <2> QED
    BY <1>4, <2>1
<1>6. /\ Scale!Address[1] = 0
      /\ \A k \in 1 .. 21 : Scale!Address[k + 1] = Scale!Address[k] + Scale!ramdp[k].bytes
  <2>1. \A k \in 1 .. 22 : Scale!Address[k] =
            IF k = 1 THEN 0 ELSE Scale!Address[k - 1] + Scale!ramdp[k - 1].bytes
    BY <1>5, Areas
  <2> SUFFICES ASSUME NEW k \in 1 .. 21
               PROVE  Scale!Address[k + 1] = Scale!Address[k] + Scale!ramdp[k].bytes
    BY <2>1
  <2>2. k + 1 \in 1 .. 22 /\ k + 1 # 1 /\ (k + 1) - 1 = k
    OBVIOUS
  <2> QED
    BY <2>1, <2>2
<1>7. \A k \in 1 .. 21 : Scale!Address[k] = Addresses[k] => Scale!Address[k + 1] = Addresses[k + 1]
  BY <1>6, Sizes
<1> HIDE DEF Sum
<1>8. \A k \in 1 .. 22 : Scale!Address[k] = Addresses[k]
  <2> DEFINE Right(k) == Scale!Address[k] = Addresses[k]
  <2>1. Right(1)
    BY <1>1, <1>6
  <2>2. \A k \in 1 .. 21 : Right(k) => Right(k + 1)
    BY <1>7
  <2> HIDE DEF Right
  <2>3. Right(2) /\ Right(3) /\ Right(4) /\ Right(5) /\ Right(6) /\ Right(7) /\ Right(8)
    BY <2>1, <2>2
  <2>4. Right(9) /\ Right(10) /\ Right(11) /\ Right(12) /\ Right(13) /\ Right(14) /\ Right(15)
    BY <2>2, <2>3
  <2>5. Right(16) /\ Right(17) /\ Right(18) /\ Right(19) /\ Right(20) /\ Right(21) /\ Right(22)
    BY <2>2, <2>4
  <2>6. \A k \in 1 .. 22 : Right(k)
    BY <2>1, <2>3, <2>4, <2>5
  <2> QED
    BY <2>6 DEF Right
<1> QED
  BY <1>1, <1>8

LEMMA Layout ==
    /\ Scale!scaling_buff = 512 /\ Scale!AddressOf("_pad1") = 2560
    /\ Scale!AddressOf("sat_data") = 2816 /\ Scale!AddressOf("dma_cmd") = 5120
    /\ Scale!AddressOf("reg_status_1") = 8164 /\ Scale!AddressOf("reg_cmd") = 8170
    /\ Scale!Address[Len(Scale!ramdp) + 1] = 8192
<1> DEFINE Named(name) == CHOOSE k \in 1 .. Len(Scale!ramdp) : Scale!ramdp[k].name = name
<1>1. /\ \A k \in 1 .. 21 : Scale!ramdp[k].name = "scaling_buff" <=> k = 3
      /\ \A k \in 1 .. 21 : Scale!ramdp[k].name = "_pad1" <=> k = 5
      /\ \A k \in 1 .. 21 : Scale!ramdp[k].name = "sat_data" <=> k = 6
      /\ \A k \in 1 .. 21 : Scale!ramdp[k].name = "dma_cmd" <=> k = 9
      /\ \A k \in 1 .. 21 : Scale!ramdp[k].name = "reg_status_1" <=> k = 16
      /\ \A k \in 1 .. 21 : Scale!ramdp[k].name = "reg_cmd" <=> k = 19
  BY Areas DEF Scale!Area
<1>2. Named("scaling_buff") = 3 /\ Named("_pad1") = 5 /\ Named("sat_data") = 6
      /\ Named("dma_cmd") = 9 /\ Named("reg_status_1") = 16 /\ Named("reg_cmd") = 19
  BY <1>1, Areas
<1>3. Addresses[3] = 512 /\ Addresses[5] = 2560 /\ Addresses[6] = 2816 /\ Addresses[9] = 5120
      /\ Addresses[16] = 8164 /\ Addresses[19] = 8170 /\ Addresses[22] = 8192
  BY DEF Addresses
<1>4. \A name : Scale!AddressOf(name) = Scale!Address[Named(name)]
  BY DEF Scale!AddressOf
<1> HIDE DEF Named
<1>5. /\ Scale!AddressOf("scaling_buff") = Scale!Address[3]
      /\ Scale!AddressOf("_pad1") = Scale!Address[5]
      /\ Scale!AddressOf("sat_data") = Scale!Address[6]
      /\ Scale!AddressOf("dma_cmd") = Scale!Address[9]
      /\ Scale!AddressOf("reg_status_1") = Scale!Address[16]
      /\ Scale!AddressOf("reg_cmd") = Scale!Address[19]
  BY <1>2, <1>4
<1>6. Len(Scale!ramdp) + 1 = 22
  BY Areas
<1>7. Scale!Address[3] = 512 /\ Scale!Address[5] = 2560 /\ Scale!Address[6] = 2816
      /\ Scale!Address[9] = 5120 /\ Scale!Address[16] = 8164 /\ Scale!Address[19] = 8170
      /\ Scale!Address[22] = 8192
  BY <1>3, AddressesRight
<1> QED
  BY <1>5, <1>6, <1>7 DEF Scale!scaling_buff

(***************************************************************************)
(* The columns and the strips.                                             *)
(***************************************************************************)
\* What the columns copied so far are, and where the words of a strip lie.
Copied ==
    /\ scaled_stamp \in [0 .. 127 -> Int]
    /\ \A c \in 0 .. 127 : scaled_stamp[c] =
           IF window[1] <= c /\ c < y THEN stamp_offset + ((c - window[1]) * factor) \div 64 ELSE -1

StripStart(t) == (t - (t % 2)) * 16 + (t % 2) * 512

WordAt(t, line) ==
    [columns |-> [n \in 1 .. 4 |-> scaled_stamp[4 * t + n - 1]],
     byte |-> IF line % 2 = 0 THEN line + 1 ELSE line - 1]

StripsWritten ==
    /\ \A t \in 0 .. s - 1, line \in 0 .. 31 :
           /\ 512 + 2 * (StripStart(t) + line) \in DOMAIN written
           /\ written[512 + 2 * (StripStart(t) + line)] = WordAt(t, line)
    /\ \A a \in DOMAIN written : a \in Int /\ 512 <= a /\ a < 2560

ScaleIInv ==
    /\ Scale!TypeOK
    /\ window[1] \in 0 .. 128 /\ window[2] \in 0 .. 128 /\ factor \in Nat /\ stamp_offset \in Nat
    /\ window[1] <= y /\ (y <= window[2] \/ y = window[1])
    /\ scale_pc = "copy" => s = 0
    /\ scale_pc = "translate" => y >= window[2]
    /\ offset = 64 * stamp_offset + (y - window[1]) * factor
    /\ Copied /\ StripsWritten

LEMMA StripStarts ==
    ASSUME NEW t \in 0 .. 31
    PROVE  StripStart(t) \in 0 .. 992
BY DEF StripStart

\* No word belongs to two strips, nor to a strip twice.
LEMMA StripsApart ==
    ASSUME NEW t \in 0 .. 31, NEW u \in 0 .. 31, NEW k \in 0 .. 31, NEW l \in 0 .. 31,
           StripStart(t) + k = StripStart(u) + l
    PROVE  t = u /\ k = l
<1>1. t % 2 \in {0, 1} /\ u % 2 \in {0, 1}
  OBVIOUS
<1>2. PICK m \in 0 .. 15 : t = 2 * m + (t % 2)
  <2>1. t \div 2 \in 0 .. 15 /\ t = 2 * (t \div 2) + (t % 2)
    OBVIOUS
  <2> QED
    BY <2>1
<1>3. PICK n \in 0 .. 15 : u = 2 * n + (u % 2)
  <2>1. u \div 2 \in 0 .. 15 /\ u = 2 * (u \div 2) + (u % 2)
    OBVIOUS
  <2> QED
    BY <2>1
<1>4. StripStart(t) = 32 * m + (t % 2) * 512 /\ StripStart(u) = 32 * n + (u % 2) * 512
  BY <1>2, <1>3 DEF StripStart
<1>5. t % 2 = u % 2 /\ m = n /\ k = l
  BY <1>1, <1>4
<1> QED
  BY <1>2, <1>3, <1>5

\* Cutting a sum of whole columns and 64ths cuts the 64ths.
LEMMA WholeColumns ==
    ASSUME NEW columns \in Nat, NEW parts \in Nat
    PROVE  (64 * columns + parts) \div 64 = columns + parts \div 64
OBVIOUS

LEMMA InitScale == Scale!Init => ScaleIInv
<1> SUFFICES ASSUME Scale!Init PROVE ScaleIInv
  OBVIOUS
<1>0. window \in Windows /\ factor \in Factors /\ stamp_offset \in Offsets
  BY DEF Scale!Init
<1>1. scale_pc = "copy" /\ y = window[1] /\ offset = 64 * stamp_offset /\ s = 0
  BY DEF Scale!Init
<1>8. written = << >> /\ scaled_stamp = [c \in 0 .. 127 |-> -1]
  <2>1. 128 - 1 = 127
    OBVIOUS
  <2> QED
    BY <2>1 DEF Scale!Init, Scale!Columns, Scale!Blank, Scale!Untouched
<1>2. window[1] \in 0 .. 128 /\ window[2] \in 0 .. 128 /\ factor \in Nat /\ stamp_offset \in Nat
  <2>1. /\ \A w \in Windows : w[1] \in 0 .. 128 /\ w[2] \in 0 .. 128
        /\ Factors \subseteq Nat /\ Offsets \subseteq 0 .. 63
    BY CommandsAssumption, 64 - 1 = 63 DEF Scale!RescaleAssumption, Scale!Columns, Scale!StampColumns
  <2> QED
    BY <1>0, <2>1
<1>3. Scale!TypeOK
  BY <1>1, <1>2 DEF Scale!TypeOK, Scale!Columns
<1>4. (y - window[1]) * factor = 0 /\ offset = 64 * stamp_offset + (y - window[1]) * factor
  <2>1. y - window[1] = 0
    BY <1>1, <1>2
  <2>2. 0 * factor = 0 /\ 64 * stamp_offset \in Nat
    BY <1>2
  <2> QED
    BY <1>1, <2>1, <2>2
<1>5. Copied
  <2>1. \A c \in 0 .. 127 : ~(window[1] <= c /\ c < y)
    BY <1>1, <1>2
  <2>2. scaled_stamp \in [0 .. 127 -> Int]
    BY ONLY <1>8
  <2>3. ASSUME NEW c \in 0 .. 127
        PROVE  scaled_stamp[c] = IF window[1] <= c /\ c < y
                                 THEN stamp_offset + ((c - window[1]) * factor) \div 64 ELSE -1
    <3>1. scaled_stamp[c] = -1
      BY ONLY <1>8, c \in 0 .. 127
    <3>2. ~(window[1] <= c /\ c < y)
      BY ONLY <2>1, c \in 0 .. 127
    <3> QED
      BY ONLY <3>1, <3>2
  <2> QED
    BY ONLY <2>2, <2>3 DEF Copied
<1>6. StripsWritten
  <2>1. DOMAIN written = {} /\ 0 .. s - 1 = {}
    BY <1>1, <1>8
  <2> QED
    BY <2>1 DEF StripsWritten
<1>7. window[1] <= y /\ scale_pc # "translate"
  BY <1>1, <1>2
<1> QED
  BY <1>1, <1>2, <1>3, <1>4, <1>5, <1>6, <1>7 DEF ScaleIInv

LEMMA CopyColumnStep ==
    ASSUME ScaleIInv, Scale!CopyColumn
    PROVE  ScaleIInv'
<1>1. /\ scale_pc = "copy" /\ y < window[2]
      /\ scaled_stamp' = [scaled_stamp EXCEPT ![y] = offset \div 64]
      /\ y' = y + 1 /\ offset' = offset + factor
      /\ UNCHANGED <<window, factor, stamp_offset, scale_pc, s, written>>
  BY DEF Scale!CopyColumn
<1>2. window[1] \in 0 .. 128 /\ window[2] \in 0 .. 128 /\ factor \in Nat /\ stamp_offset \in Nat
      /\ window[1] <= y /\ y \in 0 .. 128 /\ y < 128 /\ s = 0 /\ offset \in Nat
  BY <1>1 DEF ScaleIInv, Scale!TypeOK, Scale!Columns
<1> DEFINE parts == (y - window[1]) * factor
<1>3. parts \in Nat /\ offset = 64 * stamp_offset + parts /\ (y + 1 - window[1]) * factor = parts + factor
  <2>1. offset = 64 * stamp_offset + parts
    BY DEF ScaleIInv
  <2> DEFINE n == y - window[1]
  <2>2. n \in Nat /\ y + 1 - window[1] = n + 1
    BY <1>2
  <2> HIDE DEF n
  <2>3. n * factor \in Nat /\ (n + 1) * factor = n * factor + factor
    BY <1>2, <2>2
  <2> QED
    BY <2>1, <2>2, <2>3 DEF n
<1>4. offset' = 64 * stamp_offset' + (y' - window[1]') * factor'
  <2> HIDE DEF parts
  <2> QED
    BY <1>1, <1>2, <1>3
<1>5. Copied'
  <2>1. offset \div 64 = stamp_offset + parts \div 64
    <3> HIDE DEF parts
    <3> QED
      BY <1>2, <1>3, WholeColumns
  <2>2. offset \div 64 \in Int
    BY <1>2
  <2>3. scaled_stamp \in [0 .. 127 -> Int]
    BY DEF ScaleIInv, Copied
  <2>4. scaled_stamp' \in [0 .. 127 -> Int]
    BY <1>1, <2>2, <2>3
  <2> SUFFICES ASSUME NEW c \in 0 .. 127
               PROVE  scaled_stamp'[c] =
                          IF window[1] <= c /\ c < y + 1
                          THEN stamp_offset + ((c - window[1]) * factor) \div 64 ELSE -1
    BY <1>1, <2>4 DEF Copied
  <2>5. scaled_stamp[c] = IF window[1] <= c /\ c < y
                          THEN stamp_offset + ((c - window[1]) * factor) \div 64 ELSE -1
    BY DEF ScaleIInv, Copied
  <2>6. CASE c = y
    BY <1>1, <1>2, <2>1, <2>3, <2>6
  <2>7. CASE c # y
    <3>1. scaled_stamp'[c] = scaled_stamp[c]
      BY <1>1, <2>3, <2>7
    <3>2. c < y + 1 <=> c < y
      BY <1>2, <2>7
    <3> QED
      BY <2>5, <3>1, <3>2
  <2> QED
    BY <2>6, <2>7
<1>6. StripsWritten'
  <2>1. 0 .. s - 1 = {}
    BY <1>2
  <2> QED
    BY <1>1, <2>1 DEF ScaleIInv, StripsWritten
<1>7. Scale!TypeOK'
  BY <1>1, <1>2 DEF ScaleIInv, Scale!TypeOK, Scale!Columns
<1> QED
  BY <1>1, <1>2, <1>4, <1>5, <1>6, <1>7 DEF ScaleIInv

LEMMA PictureUnchanged ==
    ASSUME Copied, StripsWritten, UNCHANGED <<window, factor, stamp_offset, y, scaled_stamp, s, written>>
    PROVE  Copied' /\ StripsWritten'
<1>1. Copied'
  BY DEF Copied
<1>2. \A t, line : WordAt(t, line)' = WordAt(t, line)
  BY DEF WordAt
<1>3. StripsWritten'
  BY <1>2 DEF StripsWritten
<1> QED
  BY <1>1, <1>3

LEMMA CopyEndStep ==
    ASSUME ScaleIInv, Scale!CopyEnd
    PROVE  ScaleIInv'
<1>1. /\ y >= window[2] /\ scale_pc' = "translate"
      /\ UNCHANGED <<window, factor, stamp_offset, y, offset, scaled_stamp, s, written>>
  BY DEF Scale!CopyEnd
<1>2. Scale!TypeOK'
  BY <1>1 DEF ScaleIInv, Scale!TypeOK
<1>3. Copied' /\ StripsWritten'
  BY <1>1, PictureUnchanged DEF ScaleIInv
<1> QED
  BY <1>1, <1>2, <1>3 DEF ScaleIInv

LEMMA StripStep ==
    ASSUME ScaleIInv, Scale!Strip
    PROVE  ScaleIInv'
<1> DEFINE strip == {512 + 2 * (StripStart(s) + line) : line \in 0 .. 31}
<1>1. scale_pc = "translate" /\ s \in 0 .. 31 /\ s' = s + 1
      /\ UNCHANGED <<window, factor, stamp_offset, scale_pc, y, offset, scaled_stamp>>
  BY DEF Scale!Strip, ScaleIInv, Scale!TypeOK
<1>2. Scale!clmn = StripStart(s) /\ \A line : Scale!Word(line) = WordAt(s, line)
  BY DEF Scale!clmn, StripStart, Scale!Word, WordAt
<1>3. written' = [a \in strip \cup DOMAIN written |->
                      IF a \in strip THEN WordAt(s, (a - 512) \div 2 - StripStart(s)) ELSE written[a]]
  <2> DEFINE new == [a \in strip |-> WordAt(s, (a - 512) \div 2 - StripStart(s))]
  <2>1. 32 - 1 = 31
    OBVIOUS
  <2>2. written' = Scale!Over(new, written)
    BY <1>2, <2>1, Layout DEF Scale!Strip, Scale!Lines
  <2> HIDE DEF strip
  <2>3. DOMAIN new = strip /\ \A a \in strip : new[a] = WordAt(s, (a - 512) \div 2 - StripStart(s))
    OBVIOUS
  <2> QED
    BY <2>2, <2>3 DEF Scale!Over
<1>4. StripStart(s) \in 0 .. 992
  <2>1. PICK t \in 0 .. 31 : t = s
    BY <1>1
  <2>2. StripStart(t) \in 0 .. 992
    BY ONLY t \in 0 .. 31, StripStarts, SMTT(60)
  <2> QED
    BY <2>1, <2>2
<1>5. ASSUME NEW line \in 0 .. 31
      PROVE  512 + 2 * (StripStart(s) + line) \in strip /\ ((512 + 2 * (StripStart(s) + line)) - 512) \div 2 - StripStart(s) = line
             /\ 512 + 2 * (StripStart(s) + line) \in Int /\ 512 <= 512 + 2 * (StripStart(s) + line) /\ 512 + 2 * (StripStart(s) + line) < 2560
  <2>1. 512 + 2 * (StripStart(s) + line) \in strip
    OBVIOUS
  <2>2. ((512 + 2 * (StripStart(s) + line)) - 512) \div 2 - StripStart(s) = line
    <3>1. PICK p \in 0 .. 992 : p = StripStart(s)
      BY <1>4
    <3>2. PICK x \in 0 .. 1023 : x = p + line
      OBVIOUS
    <3>3. (512 + 2 * x) - 512 = 2 * x /\ (2 * x) \div 2 = x
      BY ONLY x \in 0 .. 1023
    <3>4. x - p = line
      BY ONLY <3>2, p \in 0 .. 992, line \in 0 .. 31
    <3> QED
      BY <3>1, <3>2, <3>3, <3>4
  <2>3. /\ 512 + 2 * (StripStart(s) + line) \in Int
        /\ 512 <= 512 + 2 * (StripStart(s) + line) /\ 512 + 2 * (StripStart(s) + line) < 2560
    <3>1. PICK p \in 0 .. 992 : p = StripStart(s)
      BY <1>4
    <3>2. 512 + 2 * (p + line) \in Int /\ 512 <= 512 + 2 * (p + line) /\ 512 + 2 * (p + line) < 2560
      OBVIOUS
    <3> QED
      BY <3>1, <3>2
  <2> QED
    BY <2>1, <2>2, <2>3
<1>6. \A a \in strip : a \in Int /\ 512 <= a /\ a < 2560
  BY <1>5
<1>7. ASSUME NEW t \in 0 .. s - 1, NEW l \in 0 .. 31
      PROVE  512 + 2 * (StripStart(t) + l) \notin strip
  <2>1. t \in 0 .. 31 /\ t # s
    BY <1>1
  <2>2. StripStart(t) \in 0 .. 992
    BY <2>1, StripStarts, ZenonT(60)
  <2> SUFFICES ASSUME NEW line \in 0 .. 31, 512 + 2 * (StripStart(t) + l) = 512 + 2 * (StripStart(s) + line)
               PROVE  FALSE
    OBVIOUS
  <2>3. StripStart(t) + l = StripStart(s) + line
    <3> DEFINE p == StripStart(s)
               q == StripStart(t)
    <3> HIDE DEF p, q
    <3>1. p \in 0 .. 992 /\ q \in 0 .. 992 /\ 512 + 2 * (q + l) = 512 + 2 * (p + line)
      BY <1>4, <2>2 DEF p, q
    <3>2. q + l = p + line
      BY <3>1
    <3> QED
      BY <3>2 DEF p, q
  <2>4. t = s
    <3>1. s \in 0 .. 31 /\ t \in 0 .. 31 /\ l \in 0 .. 31 /\ line \in 0 .. 31
      BY <1>1, <2>1
    <3> QED
      BY ONLY <2>3, <3>1, StripsApart
  <2> QED
    BY <2>1, <2>4
<1> HIDE DEF strip
<1>8. StripsWritten'
  <2>1. \A t, line : WordAt(t, line)' = WordAt(t, line)
    BY <1>1 DEF WordAt
  <2>2. \A a \in DOMAIN written' : a \in Int /\ 512 <= a /\ a < 2560
    BY <1>3, <1>6 DEF ScaleIInv, StripsWritten
  <2> SUFFICES ASSUME NEW t \in 0 .. s, NEW line \in 0 .. 31
               PROVE  /\ 512 + 2 * (StripStart(t) + line) \in DOMAIN written'
                      /\ written'[512 + 2 * (StripStart(t) + line)] = WordAt(t, line)
    BY <1>1, <2>1, <2>2 DEF StripsWritten
  <2> DEFINE a == 512 + 2 * (StripStart(t) + line)
  <2>3. CASE t = s
    <3>1. 512 + 2 * (StripStart(s) + line) \in strip /\ ((512 + 2 * (StripStart(s) + line)) - 512) \div 2 - StripStart(s) = line
      BY <1>5
    <3>2. written'[512 + 2 * (StripStart(s) + line)] = WordAt(s, line) /\ 512 + 2 * (StripStart(s) + line) \in DOMAIN written'
      <4> DEFINE b == 512 + 2 * (StripStart(s) + line)
      <4>1. b \in strip /\ (b - 512) \div 2 - StripStart(s) = line
        BY <3>1
      <4> HIDE DEF b
      <4>2. written'[b] = WordAt(s, line) /\ b \in DOMAIN written'
        BY <1>3, <4>1
      <4> QED
        BY <4>2 DEF b
    <3> QED
      BY <2>3, <3>2
  <2>4. CASE t # s
    <3>1. t \in 0 .. s - 1
      BY <1>1, <2>4
    <3>2. a \in DOMAIN written /\ written[a] = WordAt(t, line)
      BY <3>1 DEF ScaleIInv, StripsWritten
    <3>3. a \notin strip
      BY <1>7, <3>1
    <3> HIDE DEF a
    <3>4. a \in DOMAIN written' /\ written'[a] = WordAt(t, line)
      BY <1>3, <3>2, <3>3
    <3> QED
      BY <3>4 DEF a
  <2> QED
    BY <2>3, <2>4
<1>9. Copied' /\ Scale!TypeOK'
  <2>1. Scale!TypeOK /\ Copied
    BY DEF ScaleIInv
  <2>2. Copied'
    BY <1>1, <2>1 DEF Copied
  <2>3. Scale!TypeOK'
    BY <1>1, <2>1 DEF Scale!TypeOK
  <2> QED
    BY <2>2, <2>3
<1> QED
  BY <1>1, <1>8, <1>9 DEF ScaleIInv

LEMMA NextScale == ScaleIInv /\ [Scale!Next]_scaleVars => ScaleIInv'
<1> SUFFICES ASSUME ScaleIInv, [Scale!Next]_scaleVars PROVE ScaleIInv'
  OBVIOUS
<1>1. ASSUME UNCHANGED scaleVars PROVE ScaleIInv'
  <2>1. Scale!TypeOK'
    BY <1>1 DEF scaleVars, ScaleIInv, Scale!TypeOK
  <2>2. Copied' /\ StripsWritten'
    BY <1>1, PictureUnchanged DEF scaleVars, ScaleIInv
  <2> QED
    BY <1>1, <2>1, <2>2 DEF scaleVars, ScaleIInv
<1>2. CASE Scale!Done
  BY <1>1, <1>2 DEF Scale!Done, Scale!vars, scaleVars
<1> QED
  BY <1>1, <1>2, CopyColumnStep, CopyEndStep, StripStep DEF Scale!Next

LEMMA PictureInPlace == ScaleIInv => PictureScaled
<1> SUFFICES ASSUME ScaleIInv PROVE Scale!TypeOK /\ Scale!Scaled /\ Scale!InItsArea
  BY DEF PictureScaled
<1>1. Scale!TypeOK
  BY DEF ScaleIInv
<1>2. Scale!InItsArea
  BY Layout DEF ScaleIInv, StripsWritten, Scale!InItsArea
<1>3. Scale!Scaled
  <2>0. 128 - 1 = 127 /\ 32 - 1 = 31
    OBVIOUS
  <2> SUFFICES ASSUME s = 32, NEW c \in 0 .. 127, NEW line \in 0 .. 31
               PROVE  Scale!Shown(c, line)
    BY <2>0 DEF Scale!Scaled, Scale!Columns, Scale!Lines
  <2> DEFINE t == c \div 4
             n == (c % 4) + 1
             a == 512 + 2 * (StripStart(t) + line)
  <2>1. t \in 0 .. s - 1 /\ n \in 1 .. 4 /\ 4 * t + n - 1 = c
    OBVIOUS
  <2>2. StripStart(t) = (IF c % 8 < 4 THEN 0 ELSE 512) + (c \div 8) * 32
    <3>1. PICK q \in 0 .. 15, r \in 0 .. 7 : c = 8 * q + r
      <4>1. c \div 8 \in 0 .. 15 /\ c % 8 \in 0 .. 7 /\ c = 8 * (c \div 8) + (c % 8)
        OBVIOUS
      <4> QED
        BY <4>1
    <3>2. c \div 8 = q /\ c % 8 = r
      BY <3>1
    <3>3. t = 2 * q + (IF r < 4 THEN 0 ELSE 1)
      BY <3>1
    <3>4. t % 2 = IF r < 4 THEN 0 ELSE 1
      BY <3>3
    <3> HIDE DEF t
    <3> QED
      BY <3>2, <3>3, <3>4 DEF StripStart
  <2>3. a \in DOMAIN written /\ written[a] = WordAt(t, line)
    BY <2>1 DEF ScaleIInv, StripsWritten
  <2>4. WordAt(t, line).columns[n] = scaled_stamp[c]
    BY <2>1 DEF WordAt
  <2>5. WordAt(t, line).byte = (line + 1) - 2 * (line % 2)
    <3>1. line % 2 \in {0, 1}
      OBVIOUS
    <3> QED
      BY <3>1 DEF WordAt
  <2>6. scaled_stamp[c] = Scale!Nearest(c)
    <3>1. scale_pc = "translate" /\ y >= window[2] /\ (y = window[2] \/ y = window[1])
      BY DEF ScaleIInv, Scale!TypeOK, Scale!Columns
    <3>2. window[1] \in Int /\ window[2] \in Int /\ y \in Int
      BY DEF ScaleIInv, Scale!TypeOK, Scale!Columns
    <3>3. c \in window[1] .. window[2] - 1 <=> window[1] <= c /\ c < y
      BY <3>1, <3>2
    <3>4. scaled_stamp[c] = IF window[1] <= c /\ c < y
                            THEN stamp_offset + ((c - window[1]) * factor) \div 64 ELSE -1
      BY DEF ScaleIInv, Copied
    <3> QED
      BY <3>3, <3>4 DEF Scale!Nearest, Scale!Blank
  <2>7. Scale!scaling_buff + 2 * ((IF c % 8 < 4 THEN 0 ELSE 512) + (c \div 8) * 32 + line) = a
    <3>1. StripStart(t) \in Int
      BY <2>2
    <3> HIDE DEF t
    <3> QED
      BY <2>2, <3>1, Layout
  <2> HIDE DEF a, t
  <2> QED
    BY <2>3, <2>4, <2>5, <2>6, <2>7 DEF Scale!Shown
<1> QED
  BY <1>1, <1>2, <1>3
-----------------------------------------------------------------------------
(***************************************************************************)
(* The files: what a packet means.                                         *)
(***************************************************************************)
\* A set of numbers that is not empty has a least one.
LEMMA Least ==
    ASSUME NEW T \in SUBSET Nat, T # {}
    PROVE  \E n \in T : \A m \in T : n <= m
<1>1. PICK n \in T : \A m \in T : ~ (<<m, n>> \in OpToRel(<, Nat))
  BY NatLessThanWellFounded, WFMin
<1>2. \A m \in T : ~(m < n)
  BY <1>1 DEF OpToRel
<1>3. n \in Nat /\ \A m \in T : m \in Nat
  OBVIOUS
<1> QED
  BY ONLY <1>2, <1>3

LEMMA Induction ==
    ASSUME NEW S, 0 \in S, \A n \in Nat : n \in S => n + 1 \in S
    PROVE  Nat \subseteq S
<1> SUFFICES ASSUME Nat \ S # {} PROVE FALSE
  OBVIOUS
<1>1. PICK n \in Nat \ S : \A m \in Nat \ S : n <= m
  BY Least
<1>2. n # 0 /\ n - 1 \in Nat /\ n - 1 \notin Nat \ S
  BY <1>1
<1> QED
  BY <1>1, <1>2

Runs == [kind : {"value", "copy"}, count : Nat \ {0}, value : Values, distance : Nat]

\* A packet: a run, and bytes that are given behind it.
PacketShape(packet) ==
    /\ packet \in Seq(Runs) /\ packet # << >>
    /\ packet[1].kind = "copy" => packet[1].distance \in 1 .. Len(want)
    /\ \A j \in 2 .. Len(packet) : packet[j].kind = "value" /\ packet[j].count = 1

LEMMA LiteralShape ==
    ASSUME NEW n \in Nat, NEW bytes \in [1 .. n -> Values]
    PROVE  /\ File!Literal(bytes) \in Seq(Runs) /\ Len(File!Literal(bytes)) = n
           /\ \A j \in 1 .. n : File!Literal(bytes)[j].kind = "value" /\ File!Literal(bytes)[j].count = 1
<1>1. Len(bytes) = n
  OBVIOUS
<1>2. \A k \in 1 .. n : [File!Run("value", 1) EXCEPT !.value = bytes[k]] \in Runs
  BY DEF File!Run, Runs
<1>3. File!Literal(bytes) = [k \in 1 .. n |-> [File!Run("value", 1) EXCEPT !.value = bytes[k]]]
  BY <1>1 DEF File!Literal
<1>4. \A k \in 1 .. n : /\ [File!Run("value", 1) EXCEPT !.value = bytes[k]].kind = "value"
                       /\ [File!Run("value", 1) EXCEPT !.value = bytes[k]].count = 1
  BY DEF File!Run
<1> DEFINE l == File!Literal(bytes)
           run(k) == [File!Run("value", 1) EXCEPT !.value = bytes[k]]
<1>5. l = [k \in 1 .. n |-> run(k)] /\ \A k \in 1 .. n : run(k) \in Runs /\ run(k).kind = "value" /\ run(k).count = 1
  BY <1>2, <1>3, <1>4
<1> HIDE DEF l, run
<1>6. l \in Seq(Runs) /\ Len(l) = n /\ \A j \in 1 .. n : l[j] = run(j)
  BY <1>5
<1>7. \A j \in 1 .. n : l[j].kind = "value" /\ l[j].count = 1
  BY <1>5, <1>6
<1> QED
  BY <1>6, <1>7 DEF l

LEMMA StringsAre ==
    ASSUME NEW n \in Nat, NEW bytes \in File!Strings(n)
    PROVE  \E k \in 1 .. n : bytes \in [1 .. k -> Values]
BY DEF File!Strings

\* Every packet of either format has that shape.
LEMMA PacketShapes ==
    ASSUME want \in Seq(Values), NEW packet \in File!Packets80 \cup File!Packets81
    PROVE  PacketShape(packet)
<1>0. MaxRun \in Nat /\ 0 \in Values
  BY StoresAssumption DEF File!UnpackAssumption
<1>1. ASSUME NEW k \in Nat \ {0}, NEW bytes \in [1 .. k -> Values]
      PROVE  PacketShape(File!Literal(bytes))
  <2> DEFINE p == File!Literal(bytes)
  <2>1. p \in Seq(Runs) /\ Len(p) = k /\ \A j \in 1 .. k : p[j].kind = "value" /\ p[j].count = 1
    BY LiteralShape
  <2> HIDE DEF p
  <2>2. PacketShape(p)
    BY <2>1 DEF PacketShape
  <2> QED
    BY <2>2 DEF p
<1>2. ASSUME NEW n \in 1 .. MaxRun, NEW v \in Values PROVE PacketShape(<<File!Fill(n, v)>>)
  <2>1. File!Fill(n, v) \in Runs /\ File!Fill(n, v).kind = "value"
    BY <1>0 DEF File!Fill, File!Run, Runs
  <2> QED
    BY <2>1 DEF PacketShape
<1>3. ASSUME NEW n \in 1 .. MaxRun, NEW d \in 1 .. Len(want)
      PROVE  File!Copy(n, d) \in Runs /\ File!Copy(n, d).distance = d
  BY <1>0 DEF File!Copy, File!Run, Runs
<1>4. ASSUME NEW n \in 1 .. MaxRun, NEW d \in 1 .. Len(want) PROVE PacketShape(<<File!Copy(n, d)>>)
  BY <1>3 DEF PacketShape
<1>5. ASSUME NEW n \in 1 .. MaxRun, NEW d \in 1 .. Len(want), NEW k \in Nat,
             NEW bytes \in [1 .. k -> Values]
      PROVE  PacketShape(<<File!Copy(n, d)>> \o File!Literal(bytes))
  <2> DEFINE l == File!Literal(bytes)
             c == File!Copy(n, d)
             p == <<c>> \o l
  <2>1. l \in Seq(Runs) /\ Len(l) = k /\ \A j \in 1 .. k : l[j].kind = "value" /\ l[j].count = 1
    BY LiteralShape
  <2>2. c \in Runs /\ c.distance = d
    BY <1>3
  <2> HIDE DEF l, c
  <2>3. p \in Seq(Runs) /\ Len(p) = k + 1 /\ p[1] = c
    BY <2>1, <2>2
  <2>4. ASSUME NEW j \in 2 .. k + 1 PROVE p[j] = l[j - 1] /\ j - 1 \in 1 .. k
    BY <2>1, <2>2
  <2> HIDE DEF p
  <2>5. PacketShape(p)
    BY <2>1, <2>2, <2>3, <2>4 DEF PacketShape
  <2> QED
    BY <2>5 DEF p, l, c
<1>6. \A s_ \in File!Strings(MaxRun) : PacketShape(File!Literal(s_))
  BY <1>0, <1>1, StringsAre
<1>7. CASE packet \in File!Packets80
  BY <1>2, <1>4, <1>6, <1>7 DEF File!Packets80
<1>8. ASSUME NEW l \in {<< >>} \cup File!Strings(1)
      PROVE  \E k \in Nat : l \in [1 .. k -> Values]
  <2>1. CASE l = << >>
    <3>1. l \in [1 .. 0 -> Values]
      BY <2>1
    <3> QED
      BY <3>1
  <2>2. CASE l \in File!Strings(1)
    BY <2>2, StringsAre
  <2> QED
    BY <2>1, <2>2
<1>9. CASE packet \in File!Packets81
  <2>1. CASE \E s_ \in File!Strings(MaxRun) : packet = File!Literal(s_)
    BY <1>6, <2>1
  <2>2. CASE \E n \in 1 .. MaxRun, d \in 1 .. Len(want), l \in {<< >>} \cup File!Strings(1) :
                 packet = <<File!Copy(n, d)>> \o File!Literal(l)
    BY <1>5, <1>8, <2>2
  <2>3. CASE packet \in File!CopyThenLiteral
    <3> DEFINE ls == {<< >>} \cup File!Strings(1)
               both(n, d, l) == <<File!Copy(n, d)>> \o File!Literal(l)
    <3>1. packet \in {both(n, d, s_) : n \in 1 .. MaxRun, d \in 1 .. Len(want), s_ \in ls}
      BY <2>3, SMTT(30) DEF File!CopyThenLiteral
    <3> HIDE DEF ls, both
    <3>2. PICK n \in 1 .. MaxRun, d \in 1 .. Len(want), l \in ls :
              packet = both(n, d, l)
      BY <3>1
    <3> QED
      BY <2>2, <3>2 DEF ls, both
  <2> QED
    BY <1>9, <2>1, <2>3 DEF File!Packets81
<1> QED
  BY <1>7, <1>9

\* Going round a distance, one is where one was a distance ago.
LEMMA Around ==
    ASSUME NEW d \in Nat \ {0}, NEW k \in Nat, d <= k
    PROVE  k % d = (k - d) % d
<1>1. PICK q \in Int, r \in 0 .. d - 1 : r = k % d /\ k = d * q + r
  <2>1. k \div d \in Int /\ k % d \in 0 .. d - 1 /\ k = d * (k \div d) + (k % d)
    OBVIOUS
  <2> QED
    BY <2>1
<1>2. PICK p \in Int, t \in 0 .. d - 1 : t = (k - d) % d /\ k - d = d * p + t
  <2>1. (k - d) \div d \in Int /\ (k - d) % d \in 0 .. d - 1 /\ k - d = d * ((k - d) \div d) + ((k - d) % d)
    OBVIOUS
  <2> QED
    BY <2>1
<1> DEFINE n == q - 1 - p
<1>3. d * n = t - r /\ n \in Int
  <2>1. d * n = d * q - d - d * p
    BY <1>1, <1>2
  <2> DEFINE a == d * q
             b == d * p
  <2>2. a \in Int /\ b \in Int /\ n \in Int
    OBVIOUS
  <2>3. k = a + r /\ k - d = b + t /\ d * n = a - d - b
    BY <1>1, <1>2, <2>1
  <2> HIDE DEF a, b, n
  <2>4. a - d - b = t - r
    BY ONLY <2>2, <2>3, k \in Nat, d \in Nat, r \in 0 .. d - 1, t \in 0 .. d - 1
  <2> QED
    BY <2>2, <2>3, <2>4
<1> HIDE DEF n
<1>4. n = 0
  <2>1. CASE n >= 1
    <3>1. d * n >= d
      BY <1>3, <2>1
    <3> QED
      BY <1>1, <1>2, <1>3, <3>1
  <2>2. CASE n <= -1
    <3>1. d * n <= -d
      <4>1. d * (-n) >= d
        BY <1>3, <2>2
      <4>2. d * (-n) = -(d * n)
        BY <1>3
      <4> QED
        BY <1>3, <4>1, <4>2
    <3> QED
      BY <1>1, <1>2, <1>3, <3>1
  <2> QED
    BY <1>3, <2>1, <2>2
<1>5. d * 0 = 0
  OBVIOUS
<1>6. t = r
  <2>1. d * n = 0 /\ d * n = t - r
    BY <1>3, <1>4, <1>5
  <2>2. t - r = 0 /\ t \in Int /\ r \in Int
    BY <2>1
  <2> QED
    BY ONLY <2>2
<1> QED
  BY <1>1, <1>2, <1>6

\* What a run adds: what was there stays, and each byte is the value, or the
\* byte that is the distance before it.
LEMMA RunAdded ==
    ASSUME NEW out \in Seq(Values), NEW run \in Runs,
           run.kind = "copy" => run.distance \in 1 .. Len(out)
    PROVE  /\ File!Added(out, run) \in Seq(Values)
           /\ Len(File!Added(out, run)) = Len(out) + run.count
           /\ \A k \in 1 .. Len(out) : File!Added(out, run)[k] = out[k]
           /\ \A k \in 1 .. run.count : File!Added(out, run)[Len(out) + k] =
                  IF run.kind = "value" THEN run.value
                  ELSE File!Added(out, run)[Len(out) + k - run.distance]
<1> DEFINE n == run.count
           len == Len(out)
           d == run.distance
           from(k) == len - d + 1 + ((k - 1) % d)
           new == [k \in 1 .. n |-> IF run.kind = "value" THEN run.value ELSE out[from(k)]]
           all == out \o new
<1>1. n \in Nat \ {0} /\ len \in Nat /\ run.value \in Values
  BY DEF Runs
<1>2. ASSUME run.kind # "value" PROVE d \in 1 .. len
  BY <1>2 DEF Runs
<1>3. ASSUME run.kind # "value", NEW k \in 1 .. n PROVE from(k) \in 1 .. len
  <2> HIDE DEF d, n, len
  <2>1. d \in Nat \ {0} /\ d <= len /\ len \in Nat
    BY <1>1, <1>2, <1>3
  <2>2. (k - 1) % d \in 0 .. d - 1
    BY <1>1, <2>1
  <2> QED
    BY <2>1, <2>2
<1>4. new \in [1 .. n -> Values]
  <2> HIDE DEF from, n
  <2>1. \A k \in 1 .. n : run.kind # "value" => out[from(k)] \in Values
    BY <1>3
  <2> QED
    BY <1>1, <2>1
<1>5. all = File!Added(out, run)
  BY DEF File!Added
<1> HIDE DEF new
<1>6. new \in Seq(Values) /\ Len(new) = n
  <2> HIDE DEF n
  <2> QED
    BY <1>1, <1>4
<1>7. all \in Seq(Values) /\ Len(all) = len + n /\ \A k \in 1 .. len : all[k] = out[k]
  <2> HIDE DEF n
  <2> QED
    BY <1>1, <1>6
<1>8. ASSUME NEW k \in 1 .. n PROVE all[len + k] = new[k]
  <2> HIDE DEF n
  <2> QED
    BY <1>1, <1>6
<1>9. ASSUME NEW k \in 1 .. n
      PROVE  all[len + k] = IF run.kind = "value" THEN run.value ELSE all[len + k - d]
  <2>1. CASE run.kind = "value"
    BY <1>8, <2>1 DEF new
  <2>2. CASE run.kind # "value"
    <3> HIDE DEF d, n, len, all
    <3>1. d \in 1 .. len /\ len \in Nat
      BY <1>1, <1>2, <2>2
    <3>2. CASE k <= d
      <4>1. (k - 1) % d = k - 1
        BY <3>1, <3>2
      <4>2. from(k) = len + k - d /\ from(k) \in 1 .. len
        BY <1>1, <3>1, <3>2, <4>1
      <4>3. new[k] = out[from(k)]
        BY <2>2 DEF new, n
      <4>4. all[from(k)] = out[from(k)]
        BY <1>7, <4>2
      <4> QED
        BY <1>8, <2>2, <4>2, <4>3, <4>4
    <3>3. CASE k > d
      <4> DEFINE j == k - d
      <4>1. j \in 1 .. n /\ len + k - d = len + j
        BY <1>1, <3>1, <3>3
      <4>2. (k - 1) % d = (j - 1) % d
        <5>1. d \in Nat \ {0} /\ k - 1 \in Nat /\ d <= k - 1 /\ (k - 1) - d = j - 1
          BY <1>1, <3>1, <3>3
        <5> QED
          BY <5>1, Around
      <4>3. from(k) = from(j)
        BY <4>2
      <4> HIDE DEF j, from
      <4>4. new[k] = out[from(k)] /\ new[j] = out[from(j)]
        BY <2>2, <4>1 DEF new, n
      <4>5. all[len + j] = new[j]
        BY <1>8, <4>1
      <4> QED
        BY <1>8, <2>2, <4>1, <4>3, <4>4, <4>5
    <3> QED
      BY <1>1, <3>1, <3>2, <3>3
  <2> QED
    BY <2>1, <2>2
<1> HIDE DEF all
<1> QED
  BY <1>5, <1>7, <1>9

\* A byte that is given comes behind what is there.
LEMMA ByteAdded ==
    ASSUME NEW out \in Seq(Values), NEW run \in Runs, run.kind = "value", run.count = 1
    PROVE  File!Added(out, run) = Append(out, run.value)
<1> DEFINE new == [k \in 1 .. 1 |-> run.value]
<1>1. File!Added(out, run) = out \o new
  <2>1. \A k \in 1 .. 1 : (IF run.kind = "value" THEN run.value
            ELSE out[Len(out) - run.distance + 1 + ((k - 1) % run.distance)]) = run.value
    OBVIOUS
  <2> QED
    BY <2>1 DEF File!Added
<1>2. new = <<run.value>>
  OBVIOUS
<1>3. run.value \in Values
  BY DEF Runs
<1> HIDE DEF new
<1> QED
  BY <1>1, <1>2, <1>3

\* What a packet makes of the file: its first run, then the bytes given.
LEMMA PacketBytes ==
    ASSUME want \in Seq(Values), NEW packet, PacketShape(packet)
    PROVE  LET base == File!Added(want, packet[1])
           IN  File!Expanded(packet) =
                   [i \in 1 .. Len(base) + Len(packet) - 1 |->
                       IF i <= Len(base) THEN base[i] ELSE packet[i - Len(base) + 1].value]
<1> DEFINE n == Len(packet)
           base == File!Added(want, packet[1])
           len == Len(base)
           Bytes(k) == [i \in 1 .. len + k - 1 |->
                            IF i <= len THEN base[i] ELSE packet[i - len + 1].value]
           Out(f) == [k \in 0 .. n |-> IF k = 0 THEN want ELSE File!Added(f[k - 1], packet[k])]
           g == [k \in 0 .. n |-> IF k = 0 THEN want ELSE Bytes(k)]
           t == CHOOSE f : f = Out(f)
<1>1. n \in Nat \ {0} /\ packet \in Seq(Runs) /\ packet[1] \in Runs
  BY DEF PacketShape
<1>2. base \in Seq(Values) /\ len \in Nat
  <2>1. base \in Seq(Values)
    BY <1>1, RunAdded DEF PacketShape
  <2> QED
    BY <2>1
<1>3. \A j \in 1 .. n : packet[j] \in Runs /\ packet[j].value \in Values
  <2>1. \A j \in 1 .. n : packet[j] \in Runs
    BY <1>1
  <2>2. \A run \in Runs : run.value \in Values
    BY DEF Runs
  <2> QED
    BY <2>1, <2>2
<1>4. Bytes(1) = base
  <2> HIDE DEF base
  <2> QED
    BY <1>2
<1>5. ASSUME NEW k \in 2 .. n
      PROVE  Bytes(k - 1) \in Seq(Values) /\ Bytes(k) = File!Added(Bytes(k - 1), packet[k])
  <2> DEFINE v == packet[k].value
             b == Bytes(k - 1)
             m == len + k - 2
  <2> HIDE DEF base, n, len
  <2>1. m \in Nat /\ len + (k - 1) - 1 = m /\ len + k - 1 = m + 1
    BY <1>1, <1>2
  <2>2. b \in [1 .. m -> Values]
    <3> SUFFICES ASSUME NEW i \in 1 .. m
                 PROVE  (IF i <= len THEN base[i] ELSE packet[i - len + 1].value) \in Values
      BY <2>1
    <3>1. CASE i <= len
      BY <1>2, <3>1 DEF len
    <3>2. CASE i > len
      <4>1. i - len + 1 \in 1 .. n
        BY <1>1, <1>2, <2>1, <3>2
      <4> QED
        BY <1>2, <1>3, <3>2, <4>1
    <3> QED
      BY <1>2, <3>1, <3>2
  <2>3. b \in Seq(Values) /\ Len(b) = m
    <3> HIDE DEF b, m
    <3> QED
      BY <2>1, <2>2
  <2>4. Append(b, v) = Bytes(k)
    <3>1. v \in Values
      BY <1>1, <1>3
    <3>2. Append(b, v) = [i \in 1 .. m + 1 |-> IF i = m + 1 THEN v ELSE b[i]]
      <4> HIDE DEF b, m, v
      <4>1. /\ Append(b, v) \in Seq(Values) /\ Len(Append(b, v)) = m + 1
            /\ \A i \in 1 .. m : Append(b, v)[i] = b[i]
            /\ Append(b, v)[m + 1] = v
        BY <2>3, <3>1, AppendProperties
      <4> DEFINE a == Append(b, v)
      <4>2. a = [i \in 1 .. m + 1 |-> a[i]]
        <5>1. a \in [1 .. m + 1 -> Values]
          BY <4>1, LenProperties
        <5> HIDE DEF a
        <5> QED
          BY <5>1
      <4>3. \A i \in 1 .. m + 1 : a[i] = IF i = m + 1 THEN v ELSE b[i]
        BY <2>1, <4>1
      <4> HIDE DEF a
      <4>4. a = [i \in 1 .. m + 1 |-> IF i = m + 1 THEN v ELSE b[i]]
        BY <4>2, <4>3
      <4> QED
        BY <4>4 DEF a
    <3>3. ASSUME NEW i \in 1 .. m + 1
          PROVE  (IF i = m + 1 THEN v ELSE b[i])
                     = IF i <= len THEN base[i] ELSE packet[i - len + 1].value
      <4>1. CASE i = m + 1
        <5>1. ~(i <= len) /\ i - len + 1 = k
          BY <1>1, <1>2, <2>1, <4>1
        <5> QED
          BY <4>1, <5>1
      <4>2. CASE i # m + 1
        <5>1. i \in 1 .. m
          BY <2>1, <4>2
        <5>2. b[i] = IF i <= len THEN base[i] ELSE packet[i - len + 1].value
          BY <2>1, <5>1
        <5> QED
          BY <4>2, <5>2
      <4> QED
        BY <4>1, <4>2
    <3>4. Bytes(k) = [i \in 1 .. m + 1 |-> IF i <= len THEN base[i] ELSE packet[i - len + 1].value]
      BY <2>1
    <3> HIDE DEF b, m, v, Bytes
    <3> QED
      BY <3>2, <3>3, <3>4
  <2>5. File!Added(b, packet[k]) = Append(b, v)
    <3>1. packet[k] \in Runs /\ packet[k].kind = "value" /\ packet[k].count = 1
      BY <1>1, <1>3 DEF PacketShape, n
    <3> HIDE DEF b
    <3> QED
      BY <2>3, <3>1, ByteAdded
  <2> QED
    BY <2>3, <2>4, <2>5
<1>6. Out(g) = g
  <2> SUFFICES ASSUME NEW k \in 0 .. n
               PROVE  (IF k = 0 THEN want ELSE File!Added(g[k - 1], packet[k]))
                          = IF k = 0 THEN want ELSE Bytes(k)
    OBVIOUS
  <2> HIDE DEF Bytes
  <2>1. CASE k = 0
    BY <2>1
  <2>2. CASE k = 1
    <3>1. g[k - 1] = want
      BY <1>1, <2>2
    <3> HIDE DEF g
    <3> QED
      BY <1>4, <2>2, <3>1
  <2>3. CASE k >= 2
    <3>1. k - 1 \in 0 .. n /\ k - 1 # 0 /\ k \in 2 .. n
      BY <1>1, <2>3
    <3>2. g[k - 1] = Bytes(k - 1)
      BY <3>1
    <3> HIDE DEF g
    <3> QED
      BY <1>5, <3>1, <3>2
  <2> QED
    BY <1>1, <2>1, <2>2, <2>3
<1> HIDE DEF g
<1>7. t = Out(t)
  <2> HIDE DEF Out
  <2> QED
    BY <1>6
<1>8. File!Expanded(packet) = t[n]
  BY DEF File!Expanded
<1> HIDE DEF t
<1>9. n \in {k \in Nat : k <= n => t[k] = g[k]}
  <2> DEFINE S == {k \in Nat : k <= n => t[k] = g[k]}
  <2>1. 0 \in S
    <3>1. t[0] = want
      BY <1>1, <1>7
    <3>2. g[0] = want
      BY <1>1 DEF g
    <3> QED
      BY <3>1, <3>2
  <2>2. ASSUME NEW k \in Nat, k \in S PROVE k + 1 \in S
    <3> SUFFICES ASSUME k + 1 <= n PROVE t[k + 1] = g[k + 1]
      OBVIOUS
    <3>1. k + 1 \in 0 .. n /\ k + 1 # 0 /\ (k + 1) - 1 = k /\ k <= n
      BY <1>1
    <3>2. t[k + 1] = File!Added(t[k], packet[k + 1])
      BY <1>7, <3>1
    <3>3. g[k + 1] = File!Added(g[k], packet[k + 1])
      BY <1>6, <3>1
    <3>4. t[k] = g[k]
      BY <2>2, <3>1
    <3> QED
      BY <3>2, <3>3, <3>4
  <2> HIDE DEF S
  <2>3. n \in S
    BY <1>1, <2>1, <2>2, Induction
  <2> QED
    BY <2>3 DEF S
<1>10. t[n] = Bytes(n)
  <2>1. t[n] = g[n]
    BY <1>1, <1>9
  <2>2. g[n] = Bytes(n)
    BY <1>1 DEF g
  <2> QED
    BY <2>1, <2>2
<1> QED
  BY <1>8, <1>10

(***************************************************************************)
(* The bytes in memory.                                                    *)
(***************************************************************************)
\* What is still asked for, when d bytes are written.
AskedAt(d, rs) ==
    /\ Len(want) = d + (rs[1].count + (Len(rs) - 1))
    /\ \A i \in 1 .. rs[1].count : want[d + i] =
           IF rs[1].kind = "value" THEN rs[1].value ELSE want[d + i - rs[1].distance]
    /\ rs[1].kind = "copy" => rs[1].distance \in 1 .. d
    /\ \A j \in 2 .. Len(rs) : /\ rs[j].kind = "value" /\ rs[j].count = 1
                               /\ want[d + (rs[1].count + (j - 1))] = rs[j].value

FileTypes ==
    /\ unpacked_data \in [0 .. File!Top - 1 -> Values \cup {File!Unset}]
    /\ want \in Seq(Values) /\ Len(want) <= MaxFile
    /\ runs \in Seq(Runs)
    /\ initial_dest_addr \in Nat /\ dest_addr \in Nat
    /\ initial_dest_addr <= dest_addr /\ dest_addr <= initial_dest_addr + MaxFile
    /\ file_addr \in Nat /\ file_addr % 2 = 0
    /\ files \in Seq([at : Nat, bytes : Seq(Values)])
    /\ Len(files) <= Files
    /\ Start <= file_addr /\ file_addr <= Start + Len(files) * (MaxFile + 2)

\* The files before end where the next one begins, or before.
FilesBehind == \A k \in 1 .. Len(files) : files[k].at + Len(files[k].bytes) <= file_addr

\* What is written of this file is what it ought to be, and the runs are the rest.
FileGrows ==
    /\ format = "none" => runs = << >>
    /\ format # "none" =>
           /\ Len(files) < Files /\ initial_dest_addr = file_addr
           /\ \A k \in 1 .. dest_addr - initial_dest_addr :
                  File!Byte16(initial_dest_addr + k - 1) = want[k]
    /\ format # "none" /\ runs = << >> => dest_addr - initial_dest_addr = Len(want)
    /\ runs # << >> =>
           /\ AskedAt(dest_addr - initial_dest_addr, runs)
           /\ runs[1].kind = "copy" => copy_addr = dest_addr - runs[1].distance

FileIInv == FileTypes /\ FilesBehind /\ FileGrows /\ File!FilesKept

\* The byte that the console has at an address of memory m, the memory with a
\* byte written, and the runs with a byte less.
ByteAt(m, addr) == m[2 * (addr \div 2) + 1 - (addr % 2)]
Put(m, a, v) == [m EXCEPT ![File!Swapped(a)] = v]
Less(rs) == IF rs[1].count > 1 THEN <<[rs[1] EXCEPT !.count = @ - 1]>> \o Tail(rs) ELSE Tail(rs)

LEMMA FileConstants ==
    /\ MaxFile \in Nat \ {0} /\ Files \in Nat \ {0} /\ Start \in Nat /\ Start % 2 = 0
    /\ 0 \in Values /\ File!Top \in Nat
<1>1. MaxFile \in Nat \ {0} /\ Files \in Nat \ {0} /\ Start \in Nat /\ Start % 2 = 0 /\ 0 \in Values
  BY StoresAssumption DEF File!UnpackAssumption
<1>2. Files * (MaxFile + 2) \in Nat
  BY <1>1
<1> QED
  BY <1>1, <1>2 DEF File!Top

\* There is room for what is still to come.
LEMMA Room ==
    ASSUME NEW n \in Nat, n <= Files
    PROVE  /\ Start + n * (MaxFile + 2) \in Nat
           /\ Start + n * (MaxFile + 2) <= File!Top
           /\ Start + n * (MaxFile + 2) + (MaxFile + 2) = Start + (n + 1) * (MaxFile + 2)
<1> DEFINE m == MaxFile + 2
<1>1. m \in Nat /\ Files \in Nat /\ Start \in Nat
  BY FileConstants
<1> HIDE DEF m
<1>2. n * m \in Nat /\ Files * m \in Nat
  BY <1>1
<1>3. n * m <= Files * m
  <2>1. Files * m = n * m + (Files - n) * m
    BY <1>1
  <2>2. Files - n \in Nat
    BY <1>1
  <2>3. (Files - n) * m \in Nat
    BY <1>1, <2>2
  <2> QED
    BY <1>2, <2>1, <2>3
<1>4. (n + 1) * m = n * m + m
  BY <1>1
<1>5. Start + n * m \in Nat /\ Start + n * m <= Start + Files * m /\ Start + n * m + m = Start + (n + 1) * m
  BY <1>1, <1>2, <1>3, <1>4
<1> QED
  BY <1>5 DEF m, File!Top

LEMMA ByteIs == ASSUME NEW a \in Nat PROVE File!Byte16(a) = unpacked_data[File!Swapped(a)]
<1>1. a % 2 \in {0, 1} /\ a = 2 * (a \div 2) + (a % 2) /\ a \div 2 \in Nat
  OBVIOUS
<1>2. 2 * (a \div 2) + 1 - (a % 2) = File!Swapped(a)
  BY <1>1 DEF File!Swapped
<1> QED
  BY <1>2 DEF File!Byte16

LEMMA SwappedPlace ==
    ASSUME NEW a \in Nat
    PROVE  /\ File!Swapped(a) \in Nat /\ File!Swapped(a) <= a + 1
           /\ a % 2 = 0 => File!Swapped(a) >= a
           /\ \A b \in Nat : File!Swapped(a) = File!Swapped(b) => a = b
<1>1. a % 2 = 1 => a >= 1
  OBVIOUS
<1>2. a % 2 \in {0, 1}
  OBVIOUS
<1>3. File!Swapped(a) \in Nat /\ File!Swapped(a) <= a + 1 /\ (a % 2 = 0 => File!Swapped(a) >= a)
  BY <1>1, <1>2 DEF File!Swapped
<1>4. ASSUME NEW b \in Nat, File!Swapped(a) = File!Swapped(b) PROVE a = b
  <2>1. PICK m \in Nat, r \in {0, 1} : a = 2 * m + r /\ a % 2 = r
    <3>1. a = 2 * (a \div 2) + (a % 2) /\ a \div 2 \in Nat
      OBVIOUS
    <3> QED
      BY <1>2, <3>1
  <2>2. PICK n \in Nat, t \in {0, 1} : b = 2 * n + t /\ b % 2 = t
    <3>1. b = 2 * (b \div 2) + (b % 2) /\ b \div 2 \in Nat /\ b % 2 \in {0, 1}
      OBVIOUS
    <3> QED
      BY <3>1
  <2>3. File!Swapped(a) = (IF r = 0 THEN a + 1 ELSE a - 1) /\ File!Swapped(b) = (IF t = 0 THEN b + 1 ELSE b - 1)
    BY <2>1, <2>2 DEF File!Swapped
  <2>4. (IF r = 0 THEN a + 1 ELSE a - 1) = (IF t = 0 THEN b + 1 ELSE b - 1)
    BY <1>4, <2>3
  <2> QED
    BY <2>1, <2>2, <2>4
<1> QED
  BY <1>3, <1>4

\* A byte written is read there, and the others stay.
LEMMA ByteWritten ==
    ASSUME NEW a \in Nat, a + 1 < File!Top, NEW v, NEW m, DOMAIN m = 0 .. File!Top - 1,
           m = [p \in DOMAIN m |-> m[p]]
    PROVE  /\ ByteAt(Put(m, a, v), a) = v
           /\ \A b \in Nat : b # a => ByteAt(Put(m, a, v), b) = ByteAt(m, b)
<1>1. \A mem : \A b \in Nat : ByteAt(mem, b) = mem[File!Swapped(b)]
  <2> SUFFICES ASSUME NEW mem, NEW b \in Nat PROVE ByteAt(mem, b) = mem[File!Swapped(b)]
    OBVIOUS
  <2>1. b % 2 \in {0, 1} /\ b = 2 * (b \div 2) + (b % 2) /\ b \div 2 \in Nat
    OBVIOUS
  <2>2. 2 * (b \div 2) + 1 - (b % 2) = File!Swapped(b)
    BY ONLY <2>1 DEF File!Swapped
  <2> QED
    BY <2>2 DEF ByteAt
<1>2. File!Swapped(a) \in 0 .. File!Top - 1
  <2>1. File!Swapped(a) \in Nat /\ File!Swapped(a) <= a + 1
    BY SwappedPlace
  <2>2. File!Top \in Nat
    BY FileConstants
  <2> QED
    BY ONLY <2>1, <2>2, a \in Nat, a + 1 < File!Top
<1>3. Put(m, a, v)[File!Swapped(a)] = v
  BY <1>2 DEF Put
<1>4. ASSUME NEW b \in Nat, b # a PROVE ByteAt(Put(m, a, v), b) = ByteAt(m, b)
  <2>1. File!Swapped(b) # File!Swapped(a)
    BY <1>4, SwappedPlace
  <2>2. Put(m, a, v)[File!Swapped(b)] = m[File!Swapped(b)]
    BY <2>1 DEF Put
  <2> QED
    BY <1>1, <2>2
<1> QED
  BY <1>1, <1>3, <1>4

\* When one more byte is written, the rest is asked for.
LEMMA AskedNext ==
    ASSUME NEW d \in Nat, NEW rs \in Seq(Runs), rs # << >>, AskedAt(d, rs)
    PROVE  /\ Less(rs) \in Seq(Runs)
           /\ d + 1 <= Len(want)
           /\ Less(rs) = << >> => Len(want) = d + 1
           /\ Less(rs) # << >> => AskedAt(d + 1, Less(rs))
           /\ Less(rs) # << >> /\ Less(rs)[1].kind = "copy" =>
                  rs[1].kind = "copy" /\ Less(rs)[1].distance = rs[1].distance
<1> DEFINE rest == Less(rs)
<1> DEFINE run == rs[1]
           n == Len(rs)
           c == run.count
<1>1. run \in Runs /\ n \in Nat \ {0}
  BY LenProperties
<1>2. c \in Nat \ {0} /\ run.kind \in {"value", "copy"} /\ run.distance \in Nat
  BY <1>1 DEF Runs
<1>3. Len(want) = d + (c + (n - 1))
  BY DEF AskedAt
<1>4. \A i \in 1 .. c : want[d + i] = IF run.kind = "value" THEN run.value ELSE want[d + i - run.distance]
  BY DEF AskedAt
<1>5. run.kind = "copy" => run.distance \in 1 .. d
  BY DEF AskedAt
<1>6. \A j \in 2 .. n : rs[j].kind = "value" /\ rs[j].count = 1 /\ want[d + (c + (j - 1))] = rs[j].value
  BY DEF AskedAt
<1>7. Tail(rs) \in Seq(Runs) /\ Len(Tail(rs)) = n - 1 /\ \A j \in 1 .. n - 1 : Tail(rs)[j] = rs[j + 1]
  OBVIOUS
<1>8. \A j \in 2 .. n : rs[j] \in Runs
  BY LenProperties
<1> HIDE DEF n, run, c
<1>9. d + 1 <= Len(want)
  BY <1>1, <1>2, <1>3
<1>10. CASE c > 1
  <2> DEFINE less == [run EXCEPT !.count = c - 1]
  <2>1. less \in Runs /\ less.count = c - 1 /\ less.kind = run.kind /\ less.value = run.value
        /\ less.distance = run.distance
    <3>1. c - 1 \in Nat \ {0}
      BY <1>2, <1>10
    <3>2. run \in [kind : {"value", "copy"}, count : Nat \ {0}, value : Values, distance : Nat]
      BY <1>1 DEF Runs
    <3>3. less \in [kind : {"value", "copy"}, count : Nat \ {0}, value : Values, distance : Nat]
          /\ less.count = c - 1 /\ less.kind = run.kind /\ less.value = run.value
          /\ less.distance = run.distance
      BY <3>1, <3>2
    <3> HIDE DEF less
    <3> QED
      BY <3>3 DEF Runs
  <2>2. rest = <<less>> \o Tail(rs)
    BY <1>10 DEF c, run, Less
  <2> HIDE DEF less
  <2>3. rest \in Seq(Runs) /\ Len(rest) = n /\ rest[1] = less /\ rest # << >>
    BY <1>1, <1>7, <2>1, <2>2
  <2>4. ASSUME NEW j \in 2 .. n PROVE rest[j] = rs[j]
    <3>1. rest[j] = Tail(rs)[j - 1]
      BY <1>1, <1>7, <2>1, <2>2
    <3>2. j - 1 \in 1 .. n - 1 /\ (j - 1) + 1 = j
      BY <1>1
    <3> QED
      BY <1>7, <3>1, <3>2
  <2>5. AskedAt(d + 1, rest)
    <3>1. Len(want) = (d + 1) + ((c - 1) + (n - 1))
      BY <1>1, <1>2, <1>3
    <3>2. ASSUME NEW i \in 1 .. c - 1
          PROVE  want[(d + 1) + i] = IF run.kind = "value" THEN run.value
                                     ELSE want[(d + 1) + i - run.distance]
      <4>1. i + 1 \in 1 .. c /\ (d + 1) + i = d + (i + 1)
            /\ (d + 1) + i - run.distance = d + (i + 1) - run.distance
        <5> DEFINE e == run.distance
        <5>1. e \in Nat /\ c \in Nat
          BY <1>2
        <5> HIDE DEF e
        <5>2. i + 1 \in 1 .. c /\ (d + 1) + i = d + (i + 1) /\ (d + 1) + i - e = d + (i + 1) - e
          BY <5>1
        <5> QED
          BY <5>2 DEF e
      <4>2. want[d + (i + 1)] = IF run.kind = "value" THEN run.value
                                ELSE want[d + (i + 1) - run.distance]
        BY <1>4, <4>1
      <4> QED
        BY <4>1, <4>2
    <3>3. run.kind = "copy" => run.distance \in 1 .. d + 1
      BY <1>5
    <3>4. ASSUME NEW j \in 2 .. n
          PROVE  rest[j].kind = "value" /\ rest[j].count = 1
                 /\ want[(d + 1) + ((c - 1) + (j - 1))] = rest[j].value
      <4>1. (d + 1) + ((c - 1) + (j - 1)) = d + (c + (j - 1))
        BY <1>2
      <4> QED
        BY <1>6, <2>4, <4>1
    <3>5. rest[1].count = c - 1 /\ rest[1].kind = run.kind /\ rest[1].value = run.value
          /\ rest[1].distance = run.distance /\ Len(rest) = n
      BY <2>1, <2>3
    <3> DEFINE first == rest[1]
    <3> HIDE DEF first
    <3>6. first.count = c - 1 /\ first.kind = run.kind /\ first.value = run.value
          /\ first.distance = run.distance /\ first = rest[1]
      BY <3>5 DEF first
    <3>7. \A i \in 1 .. first.count : want[(d + 1) + i] =
              IF first.kind = "value" THEN first.value ELSE want[(d + 1) + i - first.distance]
      BY ONLY <3>2, <3>6
    <3>8. \A j \in 2 .. n : rest[j].kind = "value" /\ rest[j].count = 1
              /\ want[(d + 1) + (first.count + (j - 1))] = rest[j].value
      BY ONLY <3>4, <3>6
    <3>9. Len(want) = (d + 1) + (first.count + (n - 1)) /\ (first.kind = "copy" => first.distance \in 1 .. d + 1)
      BY ONLY <3>1, <3>3, <3>6
    <3> QED
      BY <3>5, <3>7, <3>8, <3>9 DEF AskedAt, first
  <2> QED
    BY <1>9, <2>1, <2>3, <2>5 DEF run
<1>11. CASE c = 1
  <2>1. rest = Tail(rs)
    BY <1>11 DEF c, run, Less
  <2>2. rest \in Seq(Runs) /\ Len(rest) = n - 1 /\ \A j \in 1 .. n - 1 : rest[j] = rs[j + 1]
    BY <1>7, <2>1
  <2>3. CASE n = 1
    <3>1. rest = << >> /\ Len(want) = d + 1
      BY <1>3, <1>11, <2>2, <2>3
    <3> QED
      BY <1>9, <2>2, <3>1
  <2>4. CASE n > 1
    <3>1. rest[1] = rs[2] /\ rest[1].kind = "value" /\ rest[1].count = 1 /\ want[d + 2] = rest[1].value
      <4>1. 1 \in 1 .. n - 1 /\ 1 + 1 = 2 /\ 2 \in 2 .. n /\ d + (c + (2 - 1)) = d + 2
        BY <1>1, <1>11, <2>4
      <4>2. rest[1] = rs[2]
        BY <2>2, <4>1
      <4>3. rs[2].kind = "value" /\ rs[2].count = 1 /\ want[d + (c + (2 - 1))] = rs[2].value
        BY <1>6, <4>1
      <4> QED
        BY <4>1, <4>2, <4>3
    <3>2. AskedAt(d + 1, rest)
      <4>1. Len(want) = (d + 1) + (1 + ((n - 1) - 1))
        BY <1>1, <1>3, <1>11
      <4>2. \A i \in 1 .. 1 : want[(d + 1) + i] = rest[1].value
        <5>1. \A i \in 1 .. 1 : (d + 1) + i = d + 2
          OBVIOUS
        <5> QED
          BY <3>1, <5>1
      <4>3. ASSUME NEW j \in 2 .. n - 1
            PROVE  rest[j].kind = "value" /\ rest[j].count = 1
                   /\ want[(d + 1) + (1 + (j - 1))] = rest[j].value
        <5>1. j \in 1 .. n - 1 /\ j + 1 \in 2 .. n /\ (d + 1) + (1 + (j - 1)) = d + (c + ((j + 1) - 1))
          BY <1>1, <1>11
        <5>2. rest[j] = rs[j + 1]
          BY <2>2, <5>1
        <5>3. rs[j + 1].kind = "value" /\ rs[j + 1].count = 1
              /\ want[d + (c + ((j + 1) - 1))] = rs[j + 1].value
          BY <1>6, <5>1
        <5> QED
          BY <5>1, <5>2, <5>3
      <4> QED
        BY <2>2, <3>1, <4>1, <4>2, <4>3 DEF AskedAt
    <3>3. rest # << >>
      <4>1. n - 1 # 0
        BY <1>1, <2>4
      <4> QED
        BY <2>2, <4>1
    <3> QED
      BY <1>9, <2>2, <3>1, <3>2, <3>3
  <2> QED
    BY <1>1, <2>3, <2>4
<1> QED
  BY <1>2, <1>10, <1>11

LEMMA AlignedPlace ==
    ASSUME NEW a \in Nat
    PROVE  /\ File!Aligned(a) \in Nat /\ a <= File!Aligned(a) /\ File!Aligned(a) <= a + 1
           /\ File!Aligned(a) % 2 = 0
<1>1. (a + 1) % 2 \in {0, 1} /\ a + 1 = 2 * ((a + 1) \div 2) + ((a + 1) % 2) /\ (a + 1) \div 2 \in Nat
  OBVIOUS
<1> DEFINE m == (a + 1) \div 2
           r == (a + 1) % 2
<1>2. File!Aligned(a) = 2 * m
  BY <1>1 DEF File!Aligned
<1>3. m \in Nat /\ r \in {0, 1} /\ a + 1 = 2 * m + r
  BY <1>1
<1> HIDE DEF m, r
<1>4. 2 * m \in Nat /\ a <= 2 * m /\ 2 * m <= a + 1 /\ (2 * m) % 2 = 0
  BY <1>3
<1> QED
  BY <1>2, <1>4

\* The same bytes, if the memory is the same.
LEMMA BytesStay ==
    ASSUME UNCHANGED unpacked_data, NEW a
    PROVE  File!Byte16(a)' = File!Byte16(a)
BY DEF File!Byte16

LEMMA InitFile == File!Init => FileIInv
<1> SUFFICES ASSUME File!Init PROVE FileIInv
  OBVIOUS
<1>1. /\ unpacked_data = [a \in 0 .. File!Top - 1 |-> File!Unset] /\ format = "none" /\ runs = << >>
      /\ initial_dest_addr = 0 /\ dest_addr = 0 /\ file_addr = Start /\ want = << >> /\ files = << >>
  BY DEF File!Init
<1>2. MaxFile \in Nat /\ Files \in Nat /\ Start \in Nat /\ Start % 2 = 0
  BY FileConstants
<1>3. FileTypes
  <2>1. unpacked_data \in [0 .. File!Top - 1 -> Values \cup {File!Unset}]
    BY <1>1
  <2>2. want \in Seq(Values) /\ runs \in Seq(Runs) /\ files \in Seq([at : Nat, bytes : Seq(Values)])
        /\ Len(want) = 0 /\ Len(files) = 0
    BY <1>1
  <2>3. 0 * (MaxFile + 2) = 0
    BY <1>2
  <2> QED
    BY <1>1, <1>2, <2>1, <2>2, <2>3 DEF FileTypes
<1>4. FilesBehind /\ FileGrows /\ File!FilesKept
  BY <1>1 DEF FilesBehind, FileGrows, File!FilesKept
<1> QED
  BY <1>3, <1>4 DEF FileIInv

LEMMA FileBegins ==
    ASSUME FileIInv, File!Begin
    PROVE  FileIInv'
<1>1. /\ format = "none" /\ Len(files) < Files /\ format' \in {"80", "81"}
      /\ initial_dest_addr' = file_addr /\ dest_addr' = file_addr /\ want' = << >>
      /\ UNCHANGED <<unpacked_data, copy_addr, runs, file_addr, files>>
  BY DEF File!Begin
<1>2. FileTypes /\ runs = << >>
  BY <1>1 DEF FileIInv, FileGrows
<1>3. file_addr \in Nat /\ MaxFile \in Nat
  BY <1>2, FileConstants DEF FileTypes
<1>4. FileTypes'
  <2>1. want' \in Seq(Values) /\ Len(want') = 0
    BY <1>1
  <2> QED
    BY <1>1, <1>2, <1>3, <2>1 DEF FileTypes
<1>5. FileGrows'
  <2>1. dest_addr' - initial_dest_addr' = 0 /\ Len(want') = 0 /\ runs' = << >> /\ format' # "none"
    BY <1>1, <1>2, <1>3
  <2> QED
    BY <1>1, <2>1 DEF FileGrows
<1>6. FilesBehind' /\ File!FilesKept'
  BY <1>1 DEF FileIInv, FilesBehind, File!FilesKept, File!Holds, File!Byte16
<1> QED
  BY <1>4, <1>5, <1>6 DEF FileIInv

LEMMA PacketComes ==
    ASSUME FileIInv, File!Packet
    PROVE  FileIInv'
<1>1. PICK packet \in IF format = "80" THEN File!Packets80 ELSE File!Packets81 :
          /\ Len(File!Expanded(packet)) <= MaxFile /\ want' = File!Expanded(packet) /\ runs' = packet
          /\ copy_addr' = IF packet[1].kind = "copy" THEN dest_addr - packet[1].distance ELSE copy_addr
  BY DEF File!Packet
<1>2. /\ format # "none" /\ runs = << >>
      /\ UNCHANGED <<unpacked_data, format, initial_dest_addr, dest_addr, file_addr, files>>
  BY DEF File!Packet
<1>3. FileTypes /\ dest_addr - initial_dest_addr = Len(want) /\ want \in Seq(Values)
  BY <1>2 DEF FileIInv, FileGrows, FileTypes
<1>4. PacketShape(packet)
  BY <1>1, <1>3, PacketShapes
<1> DEFINE d == Len(want)
           run == packet[1]
           n == Len(packet)
           base == File!Added(want, run)
           len == Len(base)
<1>5. packet \in Seq(Runs) /\ n \in Nat \ {0} /\ run \in Runs /\ d \in Nat
      /\ (run.kind = "copy" => run.distance \in 1 .. d)
      /\ (\A j \in 2 .. n : packet[j] \in Runs /\ packet[j].kind = "value" /\ packet[j].count = 1)
  BY <1>3, <1>4 DEF PacketShape
<1>6. run.count \in Nat \ {0}
  BY <1>5 DEF Runs
<1>7. /\ base \in Seq(Values) /\ len = d + run.count
      /\ \A k \in 1 .. d : base[k] = want[k]
      /\ \A k \in 1 .. run.count :
             base[d + k] = IF run.kind = "value" THEN run.value ELSE base[d + k - run.distance]
  BY <1>3, <1>5, RunAdded
<1>8. want' = [i \in 1 .. len + n - 1 |-> IF i <= len THEN base[i] ELSE packet[i - len + 1].value]
  BY <1>1, <1>3, <1>4, PacketBytes
<1>9. \A j \in 2 .. n : packet[j].value \in Values
  <2>1. \A r \in Runs : r.value \in Values
    BY DEF Runs
  <2> QED
    BY <1>5, <2>1
<1> HIDE DEF base, n, run, d, len
<1>10. len \in Nat /\ len + n - 1 \in Nat /\ d \in Nat /\ n \in Nat \ {0}
  BY <1>5, <1>6, <1>7
<1>11. want' \in Seq(Values) /\ Len(want') = len + n - 1 /\ \A i \in 1 .. len + n - 1 :
          want'[i] = IF i <= len THEN base[i] ELSE packet[i - len + 1].value
  <2>1. want' \in [1 .. len + n - 1 -> Values]
    <3> SUFFICES ASSUME NEW i \in 1 .. len + n - 1
                 PROVE  (IF i <= len THEN base[i] ELSE packet[i - len + 1].value) \in Values
      BY <1>8
    <3>1. CASE i <= len
      BY <1>7, <3>1 DEF len
    <3>2. CASE i > len
      <4>1. i - len + 1 \in 2 .. n
        BY <1>10, <3>2
      <4> QED
        BY <1>9, <1>10, <3>2, <4>1
    <3> QED
      BY <1>10, <3>1, <3>2
  <2> DEFINE m == len + n - 1
  <2>2. m \in Nat /\ want' \in [1 .. m -> Values]
    BY <1>10, <2>1
  <2> HIDE DEF m
  <2>3. want' \in Seq(Values) /\ Len(want') = m
    BY <2>2
  <2> QED
    BY <1>8, <2>3 DEF m
\* the bytes there are the ones of before
<1>12. ASSUME NEW k \in 1 .. d PROVE want'[k] = want[k]
  <2>1. k \in 1 .. len + n - 1 /\ k <= len
    BY <1>6, <1>7, <1>10
  <2> QED
    BY <1>7, <1>11, <2>1
\* the runs are the bytes behind them
<1>13. /\ Len(want') = d + (run.count + (n - 1))
       /\ \A i \in 1 .. run.count :
              want'[d + i] = IF run.kind = "value" THEN run.value ELSE want'[d + i - run.distance]
       /\ \A j \in 2 .. n : packet[j].kind = "value" /\ packet[j].count = 1
                             /\ want'[d + (run.count + (j - 1))] = packet[j].value
  <2>1. Len(want') = d + (run.count + (n - 1))
    <3> DEFINE c == run.count
    <3>1. c \in Nat /\ len = d + c
      BY <1>6, <1>7
    <3> HIDE DEF c
    <3>2. len + n - 1 = d + (c + (n - 1))
      BY <1>10, <3>1
    <3> QED
      BY <1>11, <3>2 DEF c
  <2>2. ASSUME NEW i \in 1 .. run.count
        PROVE  want'[d + i] = IF run.kind = "value" THEN run.value ELSE want'[d + i - run.distance]
    <3> DEFINE c == run.count
               e == run.distance
    <3>1. c \in Nat /\ len = d + c /\ (run.kind = "copy" => e \in 1 .. d)
      BY <1>5, <1>6, <1>7
    <3> HIDE DEF c, e
    <3>2. i \in 1 .. c
      BY DEF c
    <3>3. d + i \in 1 .. len + n - 1 /\ d + i <= len
      BY <1>10, <3>1, <3>2
    <3>4. want'[d + i] = base[d + i]
      BY <1>11, <3>3
    <3>5. base[d + i] = IF run.kind = "value" THEN run.value ELSE base[d + i - e]
      BY <1>7 DEF e
    <3>6. CASE run.kind = "value"
      BY <3>4, <3>5, <3>6
    <3>7. CASE run.kind # "value"
      <4>1. run.kind = "copy"
        BY <1>5, <3>7 DEF Runs
      <4>2. d + i - e \in 1 .. len + n - 1 /\ d + i - e <= len
        BY <1>10, <3>1, <3>2, <4>1
      <4>3. want'[d + i - e] = base[d + i - e]
        BY <1>11, <4>2
      <4> QED
        BY <3>4, <3>5, <3>7, <4>3 DEF e
    <3> QED
      BY <3>6, <3>7
  <2>3. ASSUME NEW j \in 2 .. n
        PROVE  packet[j].kind = "value" /\ packet[j].count = 1
               /\ want'[d + (run.count + (j - 1))] = packet[j].value
    <3> DEFINE c == run.count
    <3>1. c \in Nat /\ len = d + c
      BY <1>6, <1>7
    <3> HIDE DEF c
    <3> DEFINE i == d + (c + (j - 1))
    <3>2. i \in 1 .. len + n - 1 /\ ~(i <= len) /\ i - len + 1 = j
      BY <1>10, <3>1
    <3> HIDE DEF i
    <3>3. want'[i] = packet[i - len + 1].value
      BY <1>11, <3>2
    <3>4. want'[i] = packet[j].value
      BY <3>2, <3>3
    <3> QED
      BY <1>5, <3>4 DEF c, i
  <2> QED
    BY <1>5, <2>1, <2>2, <2>3
<1>14. dest_addr' - initial_dest_addr' = d /\ runs' = packet
  BY <1>1, <1>2, <1>3 DEF d
<1>15. AskedAt(dest_addr - initial_dest_addr, runs)'
  <2> HIDE DEF AskedAt
  <2>1. /\ Len(want') = d + (packet[1].count + (Len(packet) - 1))
        /\ \A i \in 1 .. packet[1].count : want'[d + i] =
               IF packet[1].kind = "value" THEN packet[1].value ELSE want'[d + i - packet[1].distance]
        /\ packet[1].kind = "copy" => packet[1].distance \in 1 .. d
        /\ \A j \in 2 .. Len(packet) : /\ packet[j].kind = "value" /\ packet[j].count = 1
                                       /\ want'[d + (packet[1].count + (j - 1))] = packet[j].value
    BY <1>5, <1>13 DEF run, n
  <2> QED
    BY <1>14, <2>1 DEF AskedAt
<1>16. FileGrows'
  <2>1. \A k \in 1 .. d : File!Byte16(initial_dest_addr + k - 1)' = want'[k]
    <3> SUFFICES ASSUME NEW k \in 1 .. d PROVE File!Byte16(initial_dest_addr + k - 1)' = want'[k]
      OBVIOUS
    <3>1. File!Byte16(initial_dest_addr + k - 1) = want[k]
      BY <1>2, <1>3 DEF FileIInv, FileGrows, d
    <3>2. File!Byte16(initial_dest_addr + k - 1)' = File!Byte16(initial_dest_addr + k - 1)
      BY <1>2 DEF File!Byte16
    <3> QED
      BY <1>12, <3>1, <3>2
  <2>2. format' # "none" /\ runs' # << >> /\ Len(files') < Files /\ initial_dest_addr' = file_addr'
    BY <1>1, <1>2, <1>4 DEF FileIInv, FileGrows, PacketShape
  <2>3. runs'[1].kind = "copy" => copy_addr' = dest_addr' - runs'[1].distance
    BY <1>1, <1>2
  <2> QED
    BY <1>14, <1>15, <2>1, <2>2, <2>3 DEF FileGrows
<1>17. FileTypes'
  BY <1>1, <1>2, <1>3, <1>5, <1>11 DEF FileTypes
<1>18. FilesBehind' /\ File!FilesKept'
  BY <1>2 DEF FileIInv, FilesBehind, File!FilesKept, File!Holds, File!Byte16
<1> QED
  BY <1>16, <1>17, <1>18 DEF FileIInv

\* A byte that is written beyond the files leaves them as they are.
LEMMA FilesUntouched ==
    ASSUME FileTypes, FilesBehind, File!FilesKept, UNCHANGED <<files, file_addr>>,
           \A b \in Nat : b < file_addr => ByteAt(unpacked_data', b) = ByteAt(unpacked_data, b)
    PROVE  FilesBehind' /\ File!FilesKept'
<1>1. FilesBehind'
  BY DEF FilesBehind
<1>2. ASSUME NEW k \in DOMAIN files, NEW i \in 1 .. Len(files[k].bytes)
      PROVE  ByteAt(unpacked_data', files[k].at + i - 1) = files[k].bytes[i]
  <2> DEFINE at == files[k].at
             len == Len(files[k].bytes)
             b == at + i - 1
  <2>1. files \in Seq([at : Nat, bytes : Seq(Values)]) /\ file_addr \in Nat
    BY DEF FileTypes
  <2>2. k \in 1 .. Len(files)
    BY <2>1
  <2>3. files[k] \in [at : Nat, bytes : Seq(Values)]
    BY <2>1, <2>2, ElementOfSeq
  <2>4. at \in Nat /\ len \in Nat
    BY <2>3
  <2>5. at + len <= file_addr
    BY <2>2 DEF FilesBehind
  <2>6. ByteAt(unpacked_data, b) = files[k].bytes[i]
    BY DEF File!FilesKept, File!Holds, File!Byte16, ByteAt
  <2>7. b \in Nat /\ b < file_addr
    <3>1. i \in 1 .. len
      OBVIOUS
    <3> HIDE DEF at, len
    <3> QED
      BY <2>1, <2>4, <2>5, <3>1
  <2> HIDE DEF b
  <2>8. ByteAt(unpacked_data', b) = ByteAt(unpacked_data, b)
    BY <2>7
  <2> QED
    BY <2>6, <2>8 DEF b
<1>3. File!FilesKept'
  <2> SUFFICES ASSUME NEW k \in DOMAIN files, NEW i \in 1 .. Len(files[k].bytes)
               PROVE  ByteAt(unpacked_data', files[k].at + i - 1) = files[k].bytes[i]
    BY DEF File!FilesKept, File!Holds, File!Byte16, ByteAt
  <2> QED
    BY <1>2
<1> QED
  BY <1>1, <1>3

LEMMA ByteComes ==
    ASSUME FileIInv, File!Byte
    PROVE  FileIInv'
<1> DEFINE d == dest_addr - initial_dest_addr
           run == runs[1]
           v == IF run.kind = "value" THEN run.value ELSE File!Source
           rest == Less(runs)
<1>0. runs # << >> /\ FileTypes /\ FilesBehind /\ FileGrows /\ File!FilesKept
  BY DEF File!Byte, FileIInv
<1>1. /\ runs # << >> /\ dest_addr' = dest_addr + 1
      /\ unpacked_data' = Put(unpacked_data, dest_addr, v)
      /\ runs' = rest
      /\ copy_addr' = IF run.kind = "copy" THEN copy_addr + 1 ELSE copy_addr
      /\ UNCHANGED <<format, initial_dest_addr, file_addr, want, files>>
  <2>1. Head(runs) = runs[1]
    BY <1>0 DEF FileTypes
  <2> QED
    BY <2>1 DEF File!Byte, Put, Less
<1>2. /\ format # "none" /\ Len(files) < Files
      /\ initial_dest_addr = file_addr /\ AskedAt(d, runs)
      /\ (run.kind = "copy" => copy_addr = dest_addr - run.distance)
      /\ \A k \in 1 .. d : ByteAt(unpacked_data, initial_dest_addr + k - 1) = want[k]
  BY <1>0 DEF FileGrows, File!Byte16, ByteAt
<1>3. /\ runs \in Seq(Runs) /\ run \in Runs /\ want \in Seq(Values) /\ Len(want) <= MaxFile
      /\ initial_dest_addr \in Nat /\ dest_addr \in Nat /\ d \in Nat /\ Len(want) \in Nat
      /\ dest_addr = initial_dest_addr + d
  <2>1. /\ runs \in Seq(Runs) /\ want \in Seq(Values) /\ Len(want) <= MaxFile
        /\ initial_dest_addr \in Nat /\ dest_addr \in Nat /\ initial_dest_addr <= dest_addr
    BY <1>0 DEF FileTypes
  <2>2. run \in Runs
    BY <1>0, <2>1, ElementOfSeq
  <2> QED
    BY <2>1, <2>2
<1> HIDE DEF d
<1>4. /\ rest \in Seq(Runs)
      /\ d + 1 <= Len(want)
      /\ rest = << >> => Len(want) = d + 1
      /\ rest # << >> => AskedAt(d + 1, rest)
      /\ rest # << >> /\ rest[1].kind = "copy" =>
             run.kind = "copy" /\ rest[1].distance = run.distance
  <2>1. runs \in Seq(Runs) /\ runs # << >> /\ AskedAt(d, runs) /\ d \in Nat
    BY <1>1, <1>2, <1>3
  <2> QED
    BY ONLY <2>1, AskedNext
<1> HIDE DEF rest
<1>5. dest_addr + 1 < File!Top /\ dest_addr + 1 <= initial_dest_addr + MaxFile
  <2> DEFINE n == Len(files)
             p == Start + n * (MaxFile + 2)
             q == Start + (n + 1) * (MaxFile + 2)
  <2>0. n \in Nat /\ Files \in Nat /\ n < Files
    BY <1>0, <1>2, FileConstants DEF FileTypes
  <2>1. n + 1 <= Files /\ n <= Files /\ n + 1 \in Nat
    BY <2>0
  <2>2. p \in Nat /\ p + (MaxFile + 2) = q
    BY <2>0, <2>1, Room
  <2>3. q <= File!Top
    BY <2>1, Room
  <2>4. initial_dest_addr <= p /\ File!Top \in Nat /\ MaxFile \in Nat
    BY <1>0, <1>2, FileConstants DEF FileTypes
  <2> HIDE DEF p, q, n
  <2>5. initial_dest_addr + d + 1 <= initial_dest_addr + MaxFile
    BY <1>3, <1>4, <2>4
  <2> QED
    BY <1>3, <2>2, <2>3, <2>4, <2>5
<1>6. v = want[d + 1] /\ v \in Values
  <2>1. 1 \in 1 .. run.count
    BY <1>3 DEF Runs
  <2>2. want[d + 1] = IF run.kind = "value" THEN run.value ELSE want[d + 1 - run.distance]
    BY <1>2, <2>1 DEF AskedAt
  <2>3. want[d + 1] \in Values
    BY <1>3, <1>4
  <2>4. CASE run.kind # "value"
    <3> DEFINE e == run.distance
               k == d + 1 - e
    <3>1. run.kind = "copy" /\ e \in 1 .. d /\ copy_addr = dest_addr - e
      BY <1>2, <1>3, <2>4 DEF Runs, AskedAt
    <3> HIDE DEF e
    <3>2. k \in 1 .. d /\ copy_addr = initial_dest_addr + k - 1 /\ copy_addr \in Nat
      <4>1. d \in Nat /\ initial_dest_addr \in Nat /\ dest_addr = initial_dest_addr + d
        BY <1>3
      <4> QED
        BY ONLY <3>1, <4>1
    <3>3. ByteAt(unpacked_data, copy_addr) = want[k]
      BY <1>2, <3>2
    <3>4. ByteAt(unpacked_data, copy_addr) = File!Source
      BY <3>2, ByteIs DEF File!Source, File!Byte16, ByteAt
    <3> QED
      BY <2>2, <2>3, <2>4, <3>3, <3>4 DEF e
  <2> QED
    BY <2>2, <2>3, <2>4
<1> HIDE DEF v
<1>7. /\ ByteAt(unpacked_data', dest_addr) = v
      /\ \A b \in Nat : b # dest_addr => ByteAt(unpacked_data', b) = ByteAt(unpacked_data, b)
  <2>1. unpacked_data \in [0 .. File!Top - 1 -> Values \cup {File!Unset}]
    BY <1>0 DEF FileTypes
  <2>2. DOMAIN unpacked_data = 0 .. File!Top - 1
    BY <2>1
  <2>3. unpacked_data = [p \in DOMAIN unpacked_data |-> unpacked_data[p]]
    BY <2>1
  <2>4. /\ ByteAt(Put(unpacked_data, dest_addr, v), dest_addr) = v
        /\ \A b \in Nat : b # dest_addr =>
               ByteAt(Put(unpacked_data, dest_addr, v), b) = ByteAt(unpacked_data, b)
    BY ONLY <1>3, <1>5, <2>2, <2>3, ByteWritten
  <2> QED
    BY <1>1, <2>4
<1>8. FilesBehind' /\ File!FilesKept'
  <2>1. \A b \in Nat : b < file_addr => ByteAt(unpacked_data', b) = ByteAt(unpacked_data, b)
    <3>1. \A b \in Nat : b < file_addr => b # dest_addr
      BY <1>2, <1>3
    <3> QED
      BY <1>7, <3>1
  <2>2. UNCHANGED <<files, file_addr>>
    BY <1>1
  <2> QED
    BY <1>0, <2>1, <2>2, FilesUntouched
<1>9. FileTypes'
  <2>1. unpacked_data' \in [0 .. File!Top - 1 -> Values \cup {File!Unset}]
    BY <1>0, <1>1, <1>6 DEF FileTypes, Put
  <2>2. runs' \in Seq(Runs)
    BY <1>1, <1>4
  <2>3. dest_addr' \in Nat /\ initial_dest_addr' <= dest_addr' /\ dest_addr' <= initial_dest_addr' + MaxFile
    BY <1>1, <1>3, <1>5
  <2> QED
    BY <1>0, <1>1, <2>1, <2>2, <2>3 DEF FileTypes
<1>10. dest_addr' - initial_dest_addr' = d + 1
  BY <1>1, <1>3, SMTT(30)
<1>11. FileGrows'
  <2>1. ASSUME NEW k \in 1 .. d + 1 PROVE ByteAt(unpacked_data', initial_dest_addr + k - 1) = want[k]
    <3>1. CASE k = d + 1
      <4>1. initial_dest_addr + k - 1 = dest_addr
        BY <1>3, <3>1
      <4> QED
        BY <1>6, <1>7, <3>1, <4>1
    <3>2. CASE k # d + 1
      <4>1. k \in 1 .. d /\ initial_dest_addr + k - 1 \in Nat /\ initial_dest_addr + k - 1 # dest_addr
        BY <1>3, <3>2
      <4> QED
        BY <1>2, <1>7, <4>1
    <3> QED
      BY <3>1, <3>2
  <2>2. \A k \in 1 .. dest_addr' - initial_dest_addr' :
            (File!Byte16(initial_dest_addr + k - 1) = want[k])'
    <3> SUFFICES ASSUME NEW k \in 1 .. d + 1
                 PROVE  (File!Byte16(initial_dest_addr + k - 1) = want[k])'
      BY <1>10
    <3>1. ByteAt(unpacked_data', initial_dest_addr + k - 1) = want[k]
      BY <2>1
    <3> QED
      BY <1>1, <3>1 DEF File!Byte16, ByteAt
  <2>3. runs' # << >> => AskedAt(dest_addr - initial_dest_addr, runs)'
    <3> SUFFICES ASSUME runs' # << >> PROVE AskedAt(dest_addr - initial_dest_addr, runs)'
      OBVIOUS
    <3>1. AskedAt(d + 1, rest)
      BY <1>1, <1>4
    <3> QED
      BY <1>1, <1>10, <3>1 DEF AskedAt
  <2>4. runs' # << >> /\ runs'[1].kind = "copy" => copy_addr' = dest_addr' - runs'[1].distance
    <3> SUFFICES ASSUME runs' # << >>, runs'[1].kind = "copy"
                 PROVE  copy_addr' = dest_addr' - runs'[1].distance
      OBVIOUS
    <3> DEFINE e == run.distance
    <3>1. run.kind = "copy" /\ rest[1].distance = e
      BY <1>1, <1>4
    <3>2. copy_addr = dest_addr - e /\ e \in Nat
      BY <1>2, <1>3, <3>1 DEF Runs
    <3>3. copy_addr' = copy_addr + 1 /\ dest_addr' = dest_addr + 1 /\ runs'[1].distance = e
      BY <1>1, <3>1
    <3> HIDE DEF e
    <3>4. copy_addr + 1 = (dest_addr + 1) - e
      BY <1>3, <3>2
    <3> QED
      BY <3>3, <3>4
  <2>5. runs' = << >> => dest_addr' - initial_dest_addr' = Len(want')
    BY <1>1, <1>4, <1>10
  <2> QED
    BY <1>1, <1>2, <2>2, <2>3, <2>4, <2>5 DEF FileGrows
<1> QED
  BY <1>8, <1>9, <1>11 DEF FileIInv

LEMMA FileEnds ==
    ASSUME FileIInv, File!End
    PROVE  FileIInv'
<1> DEFINE file == [at |-> initial_dest_addr, bytes |-> want]
           d == dest_addr - initial_dest_addr
           n == Len(files)
           F == [at : Nat, bytes : Seq(Values)]
<1>1. /\ format # "none" /\ runs = << >> /\ format' = "none"
      /\ file_addr' = File!Aligned(file_addr + d)
      /\ files' = Append(files, file) /\ want' = << >>
      /\ UNCHANGED <<unpacked_data, initial_dest_addr, dest_addr, copy_addr, runs>>
  BY DEF File!End
<1>2. FileTypes /\ FilesBehind /\ File!FilesKept /\ n < Files
      /\ initial_dest_addr = file_addr /\ d = Len(want)
      /\ \A k \in 1 .. d : ByteAt(unpacked_data, initial_dest_addr + k - 1) = want[k]
  BY <1>1 DEF FileIInv, FileGrows, File!Byte16, ByteAt
<1>3. /\ file \in F /\ files \in Seq(F)
      /\ n \in Nat /\ file_addr \in Nat /\ d \in Nat /\ d <= MaxFile /\ n + 1 <= Files
      /\ Start <= file_addr /\ file_addr <= Start + n * (MaxFile + 2)
  BY <1>2, FileConstants DEF FileTypes
<1>4. file.at = file_addr /\ file.bytes = want /\ Len(file.bytes) = d
  BY <1>2
<1> HIDE DEF d, F, file
<1>5. /\ files' \in Seq(F) /\ Len(files') = n + 1
      /\ \A k \in 1 .. n : files'[k] = files[k]
      /\ files'[n + 1] = file
  BY <1>1, <1>3, AppendProperties
<1>6. /\ file_addr' \in Nat /\ file_addr + d <= file_addr' /\ file_addr' <= file_addr + d + 1
      /\ file_addr' % 2 = 0
  <2>1. PICK a \in Nat : a = file_addr + d
    BY <1>3
  <2>2. file_addr' = File!Aligned(a)
    BY <1>1, <2>1
  <2>3. file_addr' \in Nat /\ a <= file_addr' /\ file_addr' <= a + 1 /\ file_addr' % 2 = 0
    BY <2>2, AlignedPlace
  <2> QED
    BY <2>1, <2>3
<1>7. file_addr' <= Start + (n + 1) * (MaxFile + 2)
  <2> DEFINE p == Start + n * (MaxFile + 2)
             q == Start + (n + 1) * (MaxFile + 2)
  <2>0. n \in Nat /\ n <= Files
    BY <1>3, FileConstants
  <2>1. p \in Nat /\ p + (MaxFile + 2) = q /\ MaxFile \in Nat /\ file_addr <= p
    BY <1>3, <2>0, Room, FileConstants
  <2> HIDE DEF p, q
  <2>2. file_addr' <= q
    BY <1>3, <1>6, <2>1
  <2> QED
    BY <2>2 DEF q
<1> HIDE DEF n
<1>8. FileTypes'
  <2>1. want' \in Seq(Values) /\ Len(want') = 0
    BY <1>1
  <2>2. Start <= file_addr' /\ MaxFile \in Nat /\ Start \in Nat
    BY <1>3, <1>6, FileConstants
  <2>3. files' \in Seq([at : Nat, bytes : Seq(Values)])
    BY <1>5 DEF F
  <2>4. Len(files') <= Files /\ file_addr' <= Start + Len(files') * (MaxFile + 2)
    BY <1>3, <1>5, <1>7
  <2> QED
    BY <1>1, <1>2, <1>6, <2>1, <2>2, <2>3, <2>4 DEF FileTypes
<1>9. FilesBehind'
  <2> SUFFICES ASSUME NEW k \in 1 .. n + 1
               PROVE  files'[k].at + Len(files'[k].bytes) <= file_addr'
    BY <1>5 DEF FilesBehind
  <2>1. CASE k = n + 1
    BY <1>4, <1>5, <1>6, <2>1
  <2>2. CASE k # n + 1
    <3>1. k \in 1 .. n /\ files'[k] = files[k]
      BY <1>3, <1>5, <2>2
    <3>2. files[k].at + Len(files[k].bytes) <= file_addr
      BY <1>2, <3>1 DEF FilesBehind, n
    <3>3. files[k] \in F
      BY <1>3, <3>1, ElementOfSeq DEF n
    <3>4. files[k].at \in Nat /\ Len(files[k].bytes) \in Nat
      BY <3>3 DEF F
    <3> QED
      BY <1>3, <1>6, <3>1, <3>2, <3>4, SMTT(30)
  <2> QED
    BY <2>1, <2>2
<1>10. File!FilesKept'
  <2> SUFFICES ASSUME NEW k \in 1 .. n + 1, NEW i \in 1 .. Len(files'[k].bytes)
               PROVE  ByteAt(unpacked_data', files'[k].at + i - 1) = files'[k].bytes[i]
    <3>1. DOMAIN files' = 1 .. n + 1
      BY <1>5
    <3> QED
      BY <3>1 DEF File!FilesKept, File!Holds, File!Byte16, ByteAt
  <2>1. CASE k = n + 1
    BY <1>1, <1>2, <1>4, <1>5, <2>1
  <2>2. CASE k # n + 1
    <3>1. k \in 1 .. n /\ files'[k] = files[k]
      BY <1>3, <1>5, <2>2
    <3>2. DOMAIN files = 1 .. n
      BY <1>3 DEF n
    <3>3. ByteAt(unpacked_data, files[k].at + i - 1) = files[k].bytes[i]
      BY <1>2, <3>1, <3>2 DEF File!FilesKept, File!Holds, File!Byte16, ByteAt
    <3> QED
      BY <1>1, <3>1, <3>3
  <2> QED
    BY <2>1, <2>2
<1>11. FileGrows'
  BY <1>1 DEF FileGrows
<1> QED
  BY <1>8, <1>9, <1>10, <1>11 DEF FileIInv

LEMMA NextFile == FileIInv /\ [File!Next]_fileVars => FileIInv'
<1> SUFFICES ASSUME FileIInv, [File!Next]_fileVars PROVE FileIInv'
  OBVIOUS
<1>1. ASSUME UNCHANGED fileVars PROVE FileIInv'
  BY <1>1 DEF fileVars, FileIInv, FileTypes, FilesBehind, FileGrows, AskedAt, File!FilesKept,
              File!Holds, File!Byte16
<1>2. CASE File!Finished
  BY <1>1, <1>2 DEF File!Finished, File!vars, fileVars
<1> QED
  BY <1>1, <1>2, FileBegins, PacketComes, ByteComes, FileEnds DEF File!Next

LEMMA FilesInPlace == FileIInv => FilesWhole
<1> SUFFICES ASSUME FileIInv PROVE FilesWhole
  OBVIOUS
<1>1. File!FilesKept /\ FileTypes /\ FileGrows
  BY DEF FileIInv
<1>2. File!Decoded
  BY <1>1 DEF FileGrows, File!Decoded, File!Holds
<1>3. File!TypeOK
  <2>1. file_addr <= File!Top
    <3> DEFINE p == Start + Len(files) * (MaxFile + 2)
    <3>1. Len(files) \in Nat /\ Len(files) <= Files /\ file_addr \in Nat /\ file_addr <= p
      BY <1>1 DEF FileTypes
    <3>2. p \in Nat /\ p <= File!Top
      BY <3>1, Room
    <3>3. File!Top \in Nat
      BY FileConstants
    <3> HIDE DEF p
    <3> QED
      BY <3>1, <3>2, <3>3
  <2>2. runs # << >> => dest_addr < initial_dest_addr + Len(want)
    <3> SUFFICES ASSUME runs # << >> PROVE dest_addr < initial_dest_addr + Len(want)
      OBVIOUS
    <3> DEFINE d == dest_addr - initial_dest_addr
               c == runs[1].count
               n == Len(runs)
    <3>1. Len(want) = d + (c + (n - 1))
      BY <1>1 DEF FileGrows, AskedAt
    <3>2. runs \in Seq(Runs) /\ n \in Nat \ {0}
      BY <1>1 DEF FileTypes
    <3>3. runs[1] \in Runs
      BY <3>2, ElementOfSeq
    <3>4. c \in Nat \ {0}
      BY <3>3 DEF Runs
    <3>5. dest_addr \in Nat /\ initial_dest_addr \in Nat /\ initial_dest_addr <= dest_addr
      BY <1>1 DEF FileTypes
    <3>6. d \in Nat /\ dest_addr = initial_dest_addr + d
      BY <3>5
    <3> HIDE DEF c, n, d
    <3> QED
      BY <3>1, <3>2, <3>4, <3>5, <3>6
  <2> QED
    BY <1>1, <2>1, <2>2, FileConstants DEF FileTypes, File!TypeOK
<1> QED
  BY <1>1, <1>2, <1>3 DEF FilesWhole
-----------------------------------------------------------------------------
(***************************************************************************)
(* All of them side by side.                                               *)
(***************************************************************************)
DataIInv == DmaIInv /\ FileIInv /\ SavedIInv /\ ScaleIInv /\ HandlersIInv

\* The invariant that the properties of the blocks, of the sprite table, of the
\* files, of the saved games, of the scaled picture and of what the commands leave follow from
\* holds in every state.
THEOREM DataInvariant == DataSpec => []DataIInv
<1>1. DataInit => DataIInv
  BY InitDma, InitFile, InitSaved, InitScale, InitHandlers DEF DataInit, DataIInv
<1>2. DataIInv /\ [DataNext]_allVars => DataIInv'
  <2> SUFFICES ASSUME DataIInv, [DataNext]_allVars PROVE DataIInv'
    OBVIOUS
  <2>1. [Next]_vars
    <3>1. CASE DmaStep
      BY <3>1 DEF DmaStep
    <3>2. CASE FileStep \/ SavedStep \/ ScaleStep \/ HandlerStep
      BY <3>2 DEF FileStep, SavedStep, ScaleStep, HandlerStep
    <3>3. CASE UNCHANGED allVars
      BY <3>3 DEF allVars
    <3> QED
      BY <3>1, <3>2, <3>3 DEF DataNext
  <2>2. [Saved!Next]_savedVars
    <3>1. CASE SavedStep
      BY <3>1 DEF SavedStep
    <3>2. CASE DmaStep \/ FileStep \/ ScaleStep \/ HandlerStep
      BY <3>2 DEF FileStep, DmaStep, ScaleStep, HandlerStep
    <3>3. CASE UNCHANGED allVars
      BY <3>3 DEF allVars
    <3> QED
      BY <3>1, <3>2, <3>3 DEF DataNext
  <2>3. [Handlers!Next]_handlerVars
    <3>1. CASE HandlerStep
      BY <3>1 DEF HandlerStep
    <3>2. CASE DmaStep \/ FileStep \/ SavedStep \/ ScaleStep
      BY <3>2 DEF FileStep, DmaStep, SavedStep, ScaleStep
    <3>3. CASE UNCHANGED allVars
      BY <3>3 DEF allVars
    <3> QED
      BY <3>1, <3>2, <3>3 DEF DataNext
  <2>4. [Scale!Next]_scaleVars
    <3>1. CASE ScaleStep
      BY <3>1 DEF ScaleStep
    <3>2. CASE DmaStep \/ FileStep \/ SavedStep \/ HandlerStep
      BY <3>2 DEF FileStep, DmaStep, SavedStep, HandlerStep
    <3>3. CASE UNCHANGED allVars
      BY <3>3 DEF allVars
    <3> QED
      BY <3>1, <3>2, <3>3 DEF DataNext
  <2>5. [File!Next]_fileVars
    <3>1. CASE FileStep
      BY <3>1 DEF FileStep
    <3>2. CASE DmaStep \/ SavedStep \/ ScaleStep \/ HandlerStep
      BY <3>2 DEF DmaStep, SavedStep, ScaleStep, HandlerStep
    <3>3. CASE UNCHANGED allVars
      BY <3>3 DEF allVars
    <3> QED
      BY <3>1, <3>2, <3>3 DEF DataNext
  <2> QED
    BY <2>1, <2>2, <2>3, <2>4, <2>5, NextDma, NextFile, NextSaved, NextHandlers, NextScale
       DEF DataIInv
<1> QED
  BY <1>1, <1>2, PTL DEF DataSpec

\* Whatever slots the frames use and however long their tables are, a block
\* that has been copied is where its sprites look for it, and no block is
\* ever copied over the sprite table.
THEOREM BlocksInPlace == DataSpec => []BlocksAndTable
<1>1. DataIInv => BlocksAndTable
  BY DEF DataIInv, DmaIInv, BlocksAndTable
<1> QED
  BY <1>1, DataInvariant, PTL

\* However the memory with the battery is filled, in pieces of any size and
\* with the power gone at any moment, an area keeps and gives back what was
\* last saved to it.
THEOREM SavesStay == DataSpec => []SavesKept
<1>1. DataIInv => SavesKept
  BY SavedKept DEF DataIInv
<1> QED
  BY <1>1, DataInvariant, PTL

\* Whatever is commanded and whenever the game reads, for files of any sizes
\* and animations of any number, the port gives what the last command for it
\* promised, and the files of the set-up with the table of the animations stay.
THEOREM PortAndFilesStay == DataSpec => []PortAndFilesKept
<1>1. DataIInv => PortAndFilesKept
  BY HandlersKept DEF DataIInv
<1> QED
  BY <1>1, DataInvariant, PTL

\* At any scale and for any window, the picture shows the column of the stamp
\* that is meant at each point, where the video chip looks for it, and nothing
\* but its buffer is written.
THEOREM PictureInWindow == DataSpec => []PictureScaled
<1>1. DataIInv => PictureScaled
  BY PictureInPlace DEF DataIInv
<1> QED
  BY <1>1, DataInvariant, PTL

\* However long the files and their runs are, and also where a run is taken from
\* what it is just writing, the console finds in memory what the runs of a file
\* mean, and the files that come after leave it there.
THEOREM FilesUnpacked == DataSpec => []FilesWhole
<1>1. DataIInv => FilesWhole
  BY FilesInPlace DEF DataIInv
<1> QED
  BY <1>1, DataInvariant, PTL
=============================================================================
