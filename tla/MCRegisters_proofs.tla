------------------------- MODULE MCRegisters_proofs -------------------------
(***************************************************************************)
(* Proofs about the two registers with two writers: the command register   *)
(* of the MD+ drive (MdpCommand), for every set of tracks, every time      *)
(* limit and every number of commands; and the control register of the     *)
(* mapper (ResetCtrl), for every time between two accesses, every time the *)
(* line takes to rise and every length of a long press that                *)
(* ResetAssumption allows.                                                 *)
(***************************************************************************)
EXTENDS MCRegisters, TLAPS

USE DEF registers, driveVars, firmwareVars

\* Type correctness holds initially and is inductive on its own.
LEMMA InitTypeOK == Init => TypeOK
<1> SUFFICES ASSUME Init PROVE TypeOK
  OBVIOUS
<1>1. cmd \in Command /\ cmd_buff \in Command /\ last \in Command
  BY DEF Init, Command, NoCommand, Argument
<1>2. low \in Argument /\ executed \in Seq(Command) /\ time \in Nat /\ written \in Nat
  BY DEF Init, Argument
<1>3. /\ cmd_exec \in BOOLEAN /\ cmd_ib \in BOOLEAN
      /\ mdp_on \in BOOLEAN /\ collided \in BOOLEAN
      /\ cmd_ib => cmd_exec
  BY DEF Init
<1>4. /\ pc \in {"mount", "pause", "wait", "time", "volume", "serve"}
      /\ drive \in {"idle", "high", "low", "execute", "ack"}
      /\ high \in Operation \cup {"none"}
  BY DEF Init
<1> QED
  BY <1>1, <1>2, <1>3, <1>4 DEF TypeOK

\* A command the firmware writes is one.
LEMMA NumberedType ==
    ASSUME TypeOK, NEW what \in Operation, NEW arg \in Argument
    PROVE  Numbered(what, arg) \in Command
BY DEF TypeOK, Numbered, Command

\* What a write alone, and an acknowledgement, do to the registers.
LEMMA WrittenType ==
    ASSUME TypeOK, NEW command \in Command, Written(command)
    PROVE  /\ cmd' \in Command /\ cmd_buff' \in Command
           /\ cmd_exec' \in BOOLEAN /\ cmd_ib' \in BOOLEAN
           /\ cmd_ib' => cmd_exec'
BY DEF TypeOK, Written

LEMMA AcknowledgedType ==
    ASSUME TypeOK, Acknowledged
    PROVE  /\ cmd' \in Command /\ cmd_buff' \in Command
           /\ cmd_exec' \in BOOLEAN /\ cmd_ib' \in BOOLEAN
           /\ cmd_ib' => cmd_exec'
BY DEF TypeOK, Acknowledged

\* What a write does to the firmware's variables.
LEMMA CountedType ==
    ASSUME TypeOK, NEW what \in Operation, NEW arg \in Argument, NEW met \in BOOLEAN,
           Writes(what, arg), Counted(what, arg, met)
    PROVE  /\ pc' \in {"wait", "serve"} /\ mdp_on' \in BOOLEAN /\ time' \in Nat
           /\ written' \in Nat /\ last' \in Command /\ collided' \in BOOLEAN
<1>1. last' \in Command /\ written' \in Nat /\ collided' \in BOOLEAN
  BY NumberedType DEF Counted, TypeOK
<1>2. Firmware_Pause \/ Firmware_Volume \/ Firmware_Music
  BY DEF Writes
<1>3. CASE Firmware_Pause
  BY <1>1, <1>3 DEF Firmware_Pause, TypeOK
<1>4. CASE Firmware_Volume
  BY <1>1, <1>4 DEF Firmware_Volume, TypeOK
<1>5. CASE Firmware_Music
  BY <1>1, <1>5 DEF Firmware_Music, TypeOK
<1> QED
  BY <1>2, <1>3, <1>4, <1>5

LEMMA NextTypeOK == TypeOK /\ [Next]_vars => TypeOK'
<1> SUFFICES ASSUME TypeOK, [Next]_vars PROVE TypeOK'
  OBVIOUS
<1>0. CASE UNCHANGED vars
  BY <1>0 DEF vars, TypeOK
<1>1. CASE Mount \/ Waited \/ LookAtTime \/ GiveUp \/ Tick
  BY <1>1, MdpAssumption DEF Mount, Waited, LookAtTime, GiveUp, Tick, TypeOK
<1>2. CASE ReadStatus \/ ReadHigh \/ ReadLow
  BY <1>2 DEF ReadStatus, ReadHigh, ReadLow, TypeOK, Command
<1>3. CASE Execute
  <2>1. [op |-> high, arg |-> low, number |-> cmd.number] \in Command
    BY DEF TypeOK, Command
  <2> QED
    BY <1>3, <2>1 DEF Execute, TypeOK
<1>4. CASE Ack
  BY <1>4, AcknowledgedType DEF Ack, Drive_Ack, TypeOK
<1>5. ASSUME NEW what \in Operation, NEW arg \in Argument, Write(what, arg) PROVE TypeOK'
  BY <1>5, NumberedType, WrittenType, CountedType DEF Write, TypeOK
<1>6. ASSUME NEW what \in Operation, NEW arg \in Argument, AckWhileWriting(what, arg) PROVE TypeOK'
  BY <1>6, AcknowledgedType, CountedType DEF AckWhileWriting, Drive_Ack, TypeOK
<1> QED
  BY <1>0, <1>1, <1>2, <1>3, <1>4, <1>5, <1>6 DEF Next, WriteAny, Drive, Quiet

\* The inductive invariant holds initially.
LEMMA InitIInv == Init => IInv
BY InitTypeOK DEF Init, IInv, Reading, InOrder, Order, Latest, Silenced

\* The command carried out is the one in the register.
LEMMA ExecutedCommand ==
    ASSUME TypeOK, high = cmd.op, low = cmd.arg
    PROVE  [op |-> high, arg |-> low, number |-> cmd.number] = cmd
BY DEF TypeOK, Command

\* The drive is silenced before it is asked for anything else.
LEMMA NextSilenced == TypeOK /\ Reading /\ Silenced /\ [Next]_vars => Silenced'
<1> SUFFICES ASSUME TypeOK, Reading, Silenced, [Next]_vars PROVE Silenced'
  OBVIOUS
<1>0. CASE UNCHANGED vars
  BY <1>0 DEF vars, Silenced
<1>1. CASE Mount \/ Waited \/ LookAtTime \/ GiveUp \/ Tick
  BY <1>1 DEF Mount, Waited, LookAtTime, GiveUp, Tick, Silenced
<1>2. CASE ReadStatus \/ ReadHigh \/ ReadLow
  BY <1>2 DEF ReadStatus, ReadHigh, ReadLow, Silenced
<1>3. CASE Execute
  <2>1. executed' = Append(executed, cmd) /\ cmd_exec
    BY <1>3, ExecutedCommand DEF Execute, Reading
  <2>2. /\ executed' # << >>
        /\ executed'[1] = IF executed = << >> THEN cmd ELSE executed[1]
    BY <2>1 DEF TypeOK
  <2> QED
    BY <1>3, <2>1, <2>2 DEF Execute, Silenced
<1>4. CASE Ack
  BY <1>4 DEF Ack, Drive_Ack, Acknowledged, Reading, Silenced
<1>5. ASSUME NEW what \in Operation, NEW arg \in Argument,
             Write(what, arg) \/ AckWhileWriting(what, arg)
      PROVE  Silenced'
  <2>1. executed' = executed /\ Writes(what, arg)
    BY <1>5 DEF Write, AckWhileWriting, Drive_Ack
  <2>2. CASE Firmware_Pause /\ what = "pause"
    <3>1. Write(what, arg)
      BY <1>5, <2>2 DEF AckWhileWriting, Drive_Ack, Reading, Silenced, Firmware_Pause
    <3> QED
      BY <2>2, <3>1 DEF Write, Written, Numbered, Firmware_Pause, Silenced
  <2>3. CASE Firmware_Volume \/ Firmware_Music
    BY <2>1, <2>3 DEF Firmware_Volume, Firmware_Music, Silenced
  <2> QED
    BY <2>1, <2>2, <2>3 DEF Writes
<1> QED
  BY <1>0, <1>1, <1>2, <1>3, <1>4, <1>5 DEF Next, WriteAny, Drive, Quiet

\* Every step preserves the inductive invariant.
LEMMA NextIInv == IInv /\ [Next]_vars => IInv'
<1> SUFFICES ASSUME IInv, [Next]_vars PROVE IInv'
  OBVIOUS
<1>T. TypeOK /\ TypeOK'
  BY NextTypeOK DEF IInv
<1>R. Reading /\ InOrder /\ Order /\ Latest
  BY DEF IInv
<1>N. executed \in Seq(Command) /\ written \in Nat /\ cmd.number \in Nat
      /\ cmd_buff.number \in Nat /\ \A k \in 1 .. Len(executed) : executed[k].number \in Nat
  <2>1. executed \in Seq(Command) /\ written \in Nat /\ cmd \in Command /\ cmd_buff \in Command
    BY <1>T DEF TypeOK
  <2>2. \A k \in 1 .. Len(executed) : executed[k] \in Command
    BY <2>1
  <2>3. \A c \in Command : c.number \in Nat
    BY DEF Command
  <2> QED
    BY <2>1, <2>2, <2>3
<1> SUFFICES Reading' /\ InOrder' /\ Order' /\ Latest'
  BY <1>T, NextSilenced DEF IInv
<1>0. CASE UNCHANGED vars
  BY <1>0, <1>R DEF vars, Reading, InOrder, Order, Latest
<1>1. CASE Mount \/ Waited \/ LookAtTime \/ GiveUp \/ Tick
  BY <1>1, <1>R DEF Mount, Waited, LookAtTime, GiveUp, Tick, Reading, InOrder, Order, Latest
<1>2. CASE ReadStatus \/ ReadHigh \/ ReadLow
  BY <1>2, <1>R DEF ReadStatus, ReadHigh, ReadLow, Reading, InOrder, Order, Latest
<1>3. CASE Execute
  <2>1. executed' = Append(executed, cmd)
    BY <1>3, <1>T, <1>R, ExecutedCommand DEF Execute, Reading
  <2>2. /\ Len(executed') = Len(executed) + 1
        /\ executed'[Len(executed) + 1] = cmd
        /\ \A k \in 1 .. Len(executed) : executed'[k] = executed[k]
        /\ executed' # << >>
    BY <2>1, <1>N, <1>T DEF TypeOK
  <2>3. UNCHANGED <<cmd, cmd_exec, cmd_buff, cmd_ib, written, last, collided>>
        /\ drive = "execute" /\ drive' = "ack" /\ cmd_exec
    BY <1>3, <1>R DEF Execute, Reading
  <2>4. Reading'
    BY <2>2, <2>3, <1>N DEF Reading
  <2>5. InOrder'
    BY <2>2, <2>3, <1>R, <1>N DEF InOrder, Order
  <2>6. Order'
    BY <2>2, <2>3, <1>R, <1>N DEF Order
  <2>7. Latest'
    BY <2>3, <1>R DEF Latest
  <2> QED
    BY <2>4, <2>5, <2>6, <2>7
<1>4. ASSUME Drive_Ack, Acknowledged, written' >= written,
             \/ written' = written /\ UNCHANGED <<last, collided>>
             \/ collided',
             written' \in Nat
      PROVE  Reading' /\ InOrder' /\ Order' /\ Latest'
  <2>1. drive = "ack" /\ drive' = "idle" /\ executed' = executed /\ cmd_exec
        /\ executed # << >> /\ executed[Len(executed)] = cmd
    BY <1>4, <1>R DEF Drive_Ack, Reading
  <2>2. Reading'
    BY <2>1 DEF Reading
  <2>3. InOrder'
    BY <2>1, <1>R DEF InOrder
  <2>4. \A k \in 1 .. Len(executed) : executed[k].number <= cmd.number
    <3>1. Len(executed) \in Nat /\ Len(executed) >= 1
      BY <2>1, <1>N
    <3> QED
      BY <3>1, <2>1, <1>R, <1>N DEF InOrder
  <2>5. Order'
    BY <2>1, <2>4, <1>4, <1>R, <1>N DEF Order, Acknowledged
  <2>6. Latest'
    BY <2>1, <1>4, <1>R DEF Latest, Acknowledged
  <2> QED
    BY <2>2, <2>3, <2>5, <2>6
<1>5. CASE Ack
  BY <1>5, <1>4, <1>N DEF Ack
<1>6. ASSUME NEW what \in Operation, NEW arg \in Argument, AckWhileWriting(what, arg)
      PROVE  Reading' /\ InOrder' /\ Order' /\ Latest'
  BY <1>6, <1>4, <1>N DEF AckWhileWriting, Counted
<1>7. ASSUME NEW what \in Operation, NEW arg \in Argument, Write(what, arg)
      PROVE  Reading' /\ InOrder' /\ Order' /\ Latest'
  <2> DEFINE c == Numbered(what, arg)
  <2>1. c.number = written + 1 /\ written' = written + 1 /\ last' = c /\ collided' = FALSE
    BY <1>7 DEF Write, Counted, Numbered
  <2>2. UNCHANGED <<drive, high, low, executed>> /\ Written(c)
    BY <1>7 DEF Write
  <2> HIDE DEF c
  <2>3. Reading'
    BY <2>2, <1>R DEF Reading, Written
  <2>4. InOrder'
    BY <2>2, <1>R DEF InOrder
  <2>5. drive = "ack" => cmd_exec
    BY <1>R DEF Reading
  <2>6. Order'
    BY <2>1, <2>2, <2>5, <1>R, <1>N DEF Order, Written
  <2>7. Latest'
    BY <2>1, <2>2, <1>T DEF Latest, Written, TypeOK
  <2> QED
    BY <2>3, <2>4, <2>6, <2>7
<1> QED
  BY <1>0, <1>1, <1>2, <1>3, <1>5, <1>6, <1>7 DEF Next, WriteAny, Drive, Quiet

\* The inductive invariant is an invariant of the specification.
THEOREM MdpInvariant == Spec => []IInv
<1>1. Init => IInv
  BY InitIInv
<1>2. IInv /\ [Next]_vars => IInv'
  BY NextIInv
<1> QED
  BY <1>1, <1>2, PTL DEF Spec

\* The drive never puts the two bytes of different commands together,
\* whenever the firmware writes.
THEOREM CommandsReadWhole == Spec => []ReadsWhole
<1>1. IInv => ReadsWhole
  BY DEF IInv, Reading, ReadsWhole
<1> QED
  BY <1>1, MdpInvariant, PTL

\* Commands are executed in the order they were written, none twice.
THEOREM CommandsInOrder == Spec => []InOrder
<1>1. IInv => InOrder
  BY DEF IInv
<1> QED
  BY <1>1, MdpInvariant, PTL

\* What the drive did last is what the firmware asked for last, unless that
\* write met an acknowledgement.
THEOREM LastCommandDone == Spec => []LatestDone
<1>1. IInv => LatestDone
  BY DEF IInv, TypeOK, Latest, LatestDone
<1> QED
  BY <1>1, MdpInvariant, PTL

\* Music is only asked of a drive that has answered and was silenced first.
THEOREM DriveSilencedFirst == Spec => []SilencedFirst
<1>1. IInv => SilencedFirst
  BY DEF IInv, Silenced, SilencedFirst
<1> QED
  BY <1>1, MdpInvariant, PTL
-----------------------------------------------------------------------------
(***************************************************************************)
(* The control register.                                                   *)
(***************************************************************************)
\* A register is a record of four bits, and an assignment changes one of
\* them: never the latch, but to clear it, nor the reset, but to hold or to
\* release the game.
LEMMA AssignedBits ==
    ASSUME NEW r \in Control!Bits, op \in Control!Assignments
    PROVE  /\ Control!Assigned(r) \in Control!Bits
           /\ Control!Assigned(r).md_rst_status = (op # "clear" /\ r.md_rst_status)
           /\ op # "hold" => Control!Assigned(r).md_rst = (op # "release" /\ r.md_rst)
<1> USE DEF Control!Bits, Control!Assigned
<1>1. CASE op = "hold"
  BY <1>1
<1>2. CASE op = "enable"
  BY <1>2
<1>3. CASE op = "release"
  BY <1>3
<1>4. CASE op = "clear"
  BY <1>4
<1>5. CASE op = "cmd_81"
  BY <1>5
<1>6. CASE op = "cmd_84"
  BY <1>6
<1>7. CASE op = "leave"
  BY <1>7
<1> QED
  BY <1>1, <1>2, <1>3, <1>4, <1>5, <1>6, <1>7 DEF Control!Assignments

LEMMA LatchedBits ==
    ASSUME NEW r \in Control!Bits
    PROVE  /\ Control!Latched(r) \in Control!Bits
           /\ Control!Latched(r).md_rst_status
           /\ Control!Latched(r).md_rst = r.md_rst
BY DEF Control!Bits, Control!Latched

\* What a clock does to the line.
LEMMA LineStep ==
    ASSUME Control!TypeOK, Control!Line, NEW pulled \in BOOLEAN, pulled = (ctrl'.md_rst \/ button')
    PROVE  /\ button' \in BOOLEAN /\ line_low' \in BOOLEAN
           /\ rise' \in 0 .. MaxRise /\ presses' \in 0 .. MaxPresses /\ held' \in 0 .. LongPress
           /\ held' > 0 => button' /\ held' <= held + 1
           /\ pulled => line_low'
           /\ ~pulled /\ line_low' => line_low
<1>0. /\ MaxRise \in Nat /\ MaxPresses \in Nat /\ LongPress \in Nat /\ LongPress >= 3
      /\ rise \in 0 .. MaxRise /\ presses \in 0 .. MaxPresses /\ held \in 0 .. LongPress
      /\ line_low \in BOOLEAN
  BY RegistersAssumption DEF Control!ResetAssumption, Control!TypeOK
<1>1. button' \in BOOLEAN /\ presses' \in 0 .. MaxPresses
  BY <1>0 DEF Control!Line
<1>2. /\ line_low' \in (IF pulled THEN {TRUE}
                        ELSE IF line_low /\ rise < MaxRise THEN BOOLEAN ELSE {FALSE})
      /\ rise' = IF pulled \/ ~line_low' THEN 0 ELSE rise + 1
  BY DEF Control!Line
<1>3. line_low' \in BOOLEAN /\ (pulled => line_low') /\ (~pulled /\ line_low' => line_low)
  BY <1>0, <1>2
<1>4. rise' \in 0 .. MaxRise
  <2>1. CASE pulled \/ ~line_low'
    <3>1. rise' = 0
      BY <1>2, <2>1
    <3> QED
      BY <3>1, <1>0
  <2>2. CASE ~pulled /\ line_low'
    <3>1. rise' = rise + 1
      BY <1>2, <2>2
    <3>2. line_low /\ rise < MaxRise
      BY <1>2, <2>2
    <3> QED
      BY <3>1, <3>2, <1>0
  <2> QED
    BY <2>1, <2>2
<1>5. held' \in 0 .. LongPress /\ (held' > 0 => button' /\ held' <= held + 1)
  BY <1>0 DEF Control!Line, Control!Min2
<1> QED
  BY <1>1, <1>3, <1>4, <1>5

\* At the start, whatever the line is found at.
LEMMA InitControl == Control!Init => Control!IInv
<1> SUFFICES ASSUME Control!Init PROVE Control!IInv
  OBVIOUS
<1> USE RegistersAssumption DEF Control!ResetAssumption, Control!Init
<1>1. Control!TypeOK
  <2>1. ctrl \in Control!Bits
    BY DEF Control!Bits
  <2>2. tmp = NoTmp /\ op \in Control!Assignments
    BY DEF Control!Assignments
  <2>3. {srst_st, line_low, button, asked, long} \subseteq BOOLEAN
    OBVIOUS
  <2>4. /\ rise \in 0 .. MaxRise /\ gap \in 0 .. MaxGap
        /\ presses \in 0 .. MaxPresses /\ held \in 0 .. LongPress
    OBVIOUS
  <2> QED
    BY <2>1, <2>2, <2>3, <2>4 DEF Control!TypeOK
<1>2. Control!NoSpuriousExit /\ Control!LineRises /\ Control!LoopSees /\ Control!LatchClear
  BY DEF Control!NoSpuriousExit, Control!Leaving, Control!LineRises, Control!Released,
     Control!LoopSees, Control!LatchClear, Control!Started
<1>3. Control!PressArrives /\ Control!LongLatched
  BY DEF Control!PressArrives, Control!LongLatched
<1> QED
  BY <1>1, <1>2, <1>3 DEF Control!IInv

\* What a clock without a store does.
LEMMA NoStoreStep ==
    ASSUME Control!TypeOK, Control!NoStore
    PROVE  /\ button' \in BOOLEAN /\ line_low' \in BOOLEAN /\ srst_st' = line_low
           /\ rise' \in 0 .. MaxRise /\ presses' \in 0 .. MaxPresses /\ held' \in 0 .. LongPress
           /\ ctrl' \in Control!Bits
           /\ ctrl'.md_rst = ctrl.md_rst
           /\ ctrl'.md_rst_status = (srst_st \/ ctrl.md_rst_status)
           /\ asked' = (asked \/ button') /\ long' = (long \/ held' = LongPress)
           /\ held' > 0 => button' /\ held' <= held + 1
           /\ button' => line_low'
           /\ ~ctrl.md_rst /\ ~button' /\ line_low' => line_low
<1>1. ctrl \in Control!Bits /\ srst_st \in BOOLEAN
  BY DEF Control!TypeOK
<1>2. ctrl.md_rst \in BOOLEAN /\ ctrl.md_rst_status \in BOOLEAN
  BY <1>1 DEF Control!Bits
<1>3. /\ ctrl' \in Control!Bits
      /\ ctrl'.md_rst = ctrl.md_rst
      /\ ctrl'.md_rst_status = (srst_st \/ ctrl.md_rst_status)
  <2>1. CASE srst_st
    BY <1>1, <1>2, <2>1, LatchedBits DEF Control!NoStore
  <2>2. CASE ~srst_st
    BY <1>1, <1>2, <2>2 DEF Control!NoStore
  <2> QED
    BY <2>1, <2>2
<1>4. Control!Line /\ srst_st' = line_low
      /\ asked' = (asked \/ button') /\ long' = (long \/ held' = LongPress)
  BY DEF Control!NoStore
<1>5. PICK pulled \in BOOLEAN : pulled = (ctrl'.md_rst \/ button')
  OBVIOUS
<1>6. /\ button' \in BOOLEAN /\ line_low' \in BOOLEAN
      /\ rise' \in 0 .. MaxRise /\ presses' \in 0 .. MaxPresses /\ held' \in 0 .. LongPress
      /\ held' > 0 => button' /\ held' <= held + 1
      /\ pulled => line_low'
      /\ ~pulled /\ line_low' => line_low
  BY <1>4, <1>5, LineStep
<1> QED
  BY <1>3, <1>4, <1>5, <1>6

\* What the clock of a store does.
LEMMA StoreStep ==
    ASSUME Control!TypeOK, NEW v \in Control!Bits, Control!StoreCtrl(v)
    PROVE  /\ button' \in BOOLEAN /\ line_low' \in BOOLEAN /\ srst_st' = line_low
           /\ rise' \in 0 .. MaxRise /\ presses' \in 0 .. MaxPresses /\ held' \in 0 .. LongPress
           /\ ctrl' = v
           /\ asked' = (button' \/ (asked /\ op # "clear"))
           /\ long' = (held' = LongPress \/ (long /\ op # "clear"))
           /\ held' > 0 => button' /\ held' <= held + 1
           /\ button' => line_low'
           /\ ~v.md_rst /\ ~button' /\ line_low' => line_low
<1>4. /\ Control!Line /\ srst_st' = line_low /\ ctrl' = v
      /\ asked' = (button' \/ (asked /\ op # "clear"))
      /\ long' = (held' = LongPress \/ (long /\ op # "clear"))
  BY DEF Control!StoreCtrl
<1>5. PICK pulled \in BOOLEAN : pulled = (ctrl'.md_rst \/ button')
  OBVIOUS
<1>6. /\ button' \in BOOLEAN /\ line_low' \in BOOLEAN
      /\ rise' \in 0 .. MaxRise /\ presses' \in 0 .. MaxPresses /\ held' \in 0 .. LongPress
      /\ held' > 0 => button' /\ held' <= held + 1
      /\ pulled => line_low'
      /\ ~pulled /\ line_low' => line_low
  BY <1>4, <1>5, LineStep
<1> QED
  BY <1>4, <1>5, <1>6

\* What the steps without a store have in common: whatever the processor does
\* meanwhile, the line, the latch and the press go on by one clock.
LEMMA NoStoreKeeps ==
    ASSUME Control!IInv, Control!NoStore,
           gap' \in 0 .. MaxGap,
           op' \in Control!Assignments \cup {"check", "run", "round", "menu"},
           tmp' # NoTmp => op' \in Control!Assignments,
           \/ tmp' = tmp /\ (tmp # NoTmp => gap < MaxGap /\ gap' = gap + 1)
           \/ tmp' = ctrl /\ tmp = NoTmp /\ gap > 0 /\ gap' = 0,
           Control!Released' => Control!Released,
           Control!Leaving' => Control!Leaving \/ asked,
           op' = "check" /\ gap' > 0 => op = "check",
           Control!Started' => \/ Control!Started
                               \/ op = "check" /\ gap > 0 /\ ~ctrl.md_rst_status /\ tmp' = NoTmp
    PROVE  Control!IInv'
<1> USE DEF Control!IInv
<1>0. /\ MaxGap \in Nat /\ LongPress \in Nat /\ MaxGap >= 2 /\ LongPress >= MaxGap + 3
      /\ gap \in 0 .. MaxGap /\ held \in 0 .. LongPress /\ NoTmp \notin Control!Bits
  BY RegistersAssumption DEF Control!ResetAssumption, Control!TypeOK
<1>T. /\ ctrl \in Control!Bits /\ tmp \in Control!Bits \cup {NoTmp}
      /\ asked \in BOOLEAN /\ long \in BOOLEAN /\ srst_st \in BOOLEAN /\ line_low \in BOOLEAN
  BY DEF Control!TypeOK
<1>N. /\ button' \in BOOLEAN /\ line_low' \in BOOLEAN /\ srst_st' = line_low
      /\ rise' \in 0 .. MaxRise /\ presses' \in 0 .. MaxPresses /\ held' \in 0 .. LongPress
      /\ ctrl' \in Control!Bits
      /\ ctrl'.md_rst = ctrl.md_rst
      /\ ctrl'.md_rst_status = (srst_st \/ ctrl.md_rst_status)
      /\ asked' = (asked \/ button') /\ long' = (long \/ held' = LongPress)
      /\ held' > 0 => button' /\ held' <= held + 1
      /\ button' => line_low'
      /\ ~ctrl.md_rst /\ ~button' /\ line_low' => line_low
  BY NoStoreStep
<1>1. Control!TypeOK'
  <2>1. tmp' \in Control!Bits \cup {NoTmp}
    BY <1>T
  <2>2. {srst_st', line_low', button', asked', long'} \subseteq BOOLEAN
    BY <1>T, <1>N
  <2> QED
    BY <1>N, <2>1, <2>2 DEF Control!TypeOK
<1>2. Control!NoSpuriousExit'
  BY <1>N DEF Control!NoSpuriousExit
<1>3. Control!LineRises'
  <2> SUFFICES ASSUME Control!Released'
               PROVE  /\ ~ctrl'.md_rst /\ (tmp' # NoTmp => ~tmp'.md_rst)
                      /\ ~asked' => (line_low' => srst_st')
    BY DEF Control!LineRises
  <2>1. ~ctrl.md_rst /\ (tmp # NoTmp => ~tmp.md_rst)
    BY DEF Control!LineRises
  <2> QED
    BY <2>1, <1>N
<1>4. Control!LoopSees'
  <2> SUFFICES ASSUME op' = "check", gap' > 0, ~asked', srst_st'
               PROVE  ctrl'.md_rst_status
    BY DEF Control!LoopSees
  <2>1. ~asked /\ line_low /\ op = "check"
    BY <1>N
  <2>2. srst_st
    BY <2>1 DEF Control!LineRises, Control!Released
  <2> QED
    BY <2>2, <1>N
<1>5. Control!LatchClear'
  <2> SUFFICES ASSUME Control!Started', ~asked'
               PROVE  /\ ~line_low' /\ ~srst_st' /\ ~ctrl'.md_rst_status
                      /\ tmp' # NoTmp => ~tmp'.md_rst_status
    BY DEF Control!LatchClear
  <2>1. ~asked /\ ~button'
    BY <1>N
  <2>2. ~line_low /\ ~srst_st /\ ~ctrl.md_rst_status /\ (tmp' # NoTmp => ~tmp'.md_rst_status)
    <3>1. CASE Control!Started
      BY <3>1, <2>1 DEF Control!LatchClear
    <3>2. CASE op = "check" /\ gap > 0 /\ ~ctrl.md_rst_status /\ tmp' = NoTmp
      <4>1. ~srst_st
        BY <3>2, <2>1 DEF Control!LoopSees
      <4>2. ~line_low
        BY <3>2, <2>1, <4>1 DEF Control!LineRises, Control!Released
      <4> QED
        BY <3>2, <4>1, <4>2
    <3> QED
      BY <3>1, <3>2
  <2>3. ~ctrl.md_rst
    <3>1. Control!Released
      BY DEF Control!Started, Control!Released
    <3> QED
      BY <3>1 DEF Control!LineRises
  <2> QED
    BY <2>1, <2>2, <2>3, <1>N
<1>6. Control!PressArrives'
  <2>1. held' > 0 => button' /\ line_low'
    BY <1>N
  <2>2. held' > 1 => srst_st'
    BY <1>0, <1>N DEF Control!PressArrives
  <2>3. held' > 2 => ctrl'.md_rst_status
    BY <1>0, <1>N DEF Control!PressArrives
  <2>4. tmp' # NoTmp /\ held' >= gap' + 4 => tmp'.md_rst_status
    <3> SUFFICES ASSUME tmp' # NoTmp, held' >= gap' + 4
                 PROVE  tmp'.md_rst_status
      OBVIOUS
    <3>1. held' <= held + 1
      BY <1>0, <1>N
    <3>2. CASE tmp' = tmp /\ gap' = gap + 1
      <4>1. held >= gap + 4
        BY <1>0, <1>N, <3>1, <3>2
      <4> QED
        BY <4>1, <3>2 DEF Control!PressArrives
    <3>3. CASE tmp' = ctrl /\ gap > 0 /\ gap' = 0
      <4>1. held > 2
        BY <1>0, <1>N, <3>1, <3>3
      <4> QED
        BY <4>1, <3>3, <1>0 DEF Control!PressArrives
    <3> QED
      BY <3>2, <3>3
  <2> QED
    BY <2>1, <2>2, <2>3, <2>4 DEF Control!PressArrives
<1>7. Control!LongLatched'
  <2> SUFFICES ASSUME long'
               PROVE  \/ ctrl'.md_rst_status /\ (tmp' # NoTmp => tmp'.md_rst_status)
                      \/ tmp' # NoTmp /\ gap' = MaxGap /\ line_low'
    BY DEF Control!LongLatched
  <2>1. CASE held' = LongPress
    <3>1. held' > 2 /\ button' /\ line_low' /\ (gap' # MaxGap => held' >= gap' + 4)
      <4>1. held' > 2 /\ held' > 0
        BY <2>1, <1>0
      <4>2. gap' # MaxGap => held' >= gap' + 4
        <5>1. \A g \in 0 .. MaxGap : g # MaxGap => LongPress >= g + 4
          BY <1>0
        <5>2. gap' # MaxGap => LongPress >= gap' + 4
          BY <5>1
        <5> QED
          BY <5>2, <2>1
      <4> QED
        BY <4>1, <4>2, <1>N
    <3>2. tmp' # NoTmp /\ gap' # MaxGap => tmp'.md_rst_status
      BY <3>1, <1>6 DEF Control!PressArrives
    <3>3. ctrl'.md_rst_status
      BY <2>1, <1>0, <1>N DEF Control!PressArrives
    <3> QED
      BY <3>1, <3>2, <3>3
  <2>2. CASE long
    <3>1. CASE ctrl.md_rst_status /\ (tmp # NoTmp => tmp.md_rst_status)
      BY <3>1, <1>N
    <3>2. CASE tmp = NoTmp /\ gap = 0 /\ srst_st
      BY <3>2, <1>N
    <3>3. CASE tmp # NoTmp /\ gap = MaxGap
      BY <3>3, <1>0
    <3> QED
      BY <2>2, <3>1, <3>2, <3>3 DEF Control!LongLatched
  <2> QED
    BY <2>1, <2>2, <1>N
<1> QED
  BY <1>1, <1>2, <1>3, <1>4, <1>5, <1>6, <1>7

LEMMA WaitControl == Control!IInv /\ Control!Wait => Control!IInv'
<1> SUFFICES ASSUME Control!IInv, Control!Wait PROVE Control!IInv'
  OBVIOUS
<1>T. /\ MaxGap \in Nat /\ gap \in 0 .. MaxGap
      /\ op \in Control!Assignments \cup {"check", "run", "round", "menu"}
      /\ tmp # NoTmp => op \in Control!Assignments
  BY RegistersAssumption DEF Control!ResetAssumption, Control!IInv, Control!TypeOK
<1>1. /\ Control!NoStore /\ op' = op /\ tmp' = tmp
      /\ tmp # NoTmp => gap < MaxGap
      /\ gap' = IF gap + 1 < MaxGap THEN gap + 1 ELSE MaxGap
  BY DEF Control!Wait, Control!Min2
<1>2. gap' \in 0 .. MaxGap /\ (tmp # NoTmp => gap' = gap + 1)
  BY <1>T, <1>1
<1>3. /\ Control!Released' => Control!Released
      /\ Control!Leaving' => Control!Leaving
      /\ Control!Started' => Control!Started
  BY <1>1 DEF Control!Released, Control!Leaving, Control!Started
<1> QED
  BY <1>T, <1>1, <1>2, <1>3, NoStoreKeeps

LEMMA LoadControl == Control!IInv /\ Control!Load => Control!IInv'
<1> SUFFICES ASSUME Control!IInv, Control!Load PROVE Control!IInv'
  OBVIOUS
<1>T. /\ MaxGap \in Nat /\ LoopGap \in Nat /\ LoopGap >= 2 /\ gap \in 0 .. MaxGap
  BY RegistersAssumption DEF Control!ResetAssumption, Control!IInv, Control!TypeOK
<1>1. /\ Control!NoStore /\ op' = op /\ op \in Control!Assignments
      /\ tmp' = ctrl /\ tmp = NoTmp /\ gap >= LoopGap /\ gap' = 0
  BY DEF Control!Load, Control!MayAccess
<1>2. gap' \in 0 .. MaxGap /\ gap > 0 /\ ~(gap' > 0)
  BY <1>T, <1>1
<1>3. /\ Control!Released' => Control!Released
      /\ Control!Leaving' => Control!Leaving
      /\ Control!Started' => Control!Started
  BY <1>1 DEF Control!Released, Control!Leaving, Control!Started
<1> QED
  BY <1>1, <1>2, <1>3, NoStoreKeeps

\* The loop of ppm_md_rst goes on when the latch is clear: then the line is
\* high, and the latch stays clear until the button is pressed.
LEMMA CheckResetControl == Control!IInv /\ Control!CheckReset => Control!IInv'
<1> SUFFICES ASSUME Control!IInv, Control!CheckReset PROVE Control!IInv'
  OBVIOUS
<1>T. /\ MaxGap \in Nat /\ LoopGap \in Nat /\ LoopGap >= 2 /\ gap \in 0 .. MaxGap
  BY RegistersAssumption DEF Control!ResetAssumption, Control!IInv, Control!TypeOK
<1>1. /\ Control!NoStore /\ op = "check" /\ tmp = NoTmp /\ tmp' = NoTmp
      /\ op' = IF ctrl.md_rst_status THEN "clear" ELSE "run"
      /\ gap >= LoopGap /\ gap' = 0
  BY DEF Control!CheckReset, Control!MayAccess
<1>2. gap' \in 0 .. MaxGap /\ gap > 0 /\ ~(gap' > 0)
  BY <1>T, <1>1
<1>3. op' \in {"clear", "run"} /\ (op' = "run" => ~ctrl.md_rst_status)
  BY <1>1
<1>4. /\ Control!Released' => Control!Released
      /\ ~Control!Leaving'
      /\ Control!Started' => op = "check" /\ gap > 0 /\ ~ctrl.md_rst_status /\ tmp' = NoTmp
  BY <1>1, <1>2, <1>3 DEF Control!Released, Control!Leaving, Control!Started
<1>5. op' \in Control!Assignments \cup {"check", "run", "round", "menu"}
  BY <1>3 DEF Control!Assignments
<1> QED
  BY <1>1, <1>2, <1>4, <1>5, NoStoreKeeps

\* The polling loop leaves when the latch is set: only a press sets it.
LEMMA CheckRunningControl == Control!IInv /\ Control!CheckRunning => Control!IInv'
<1> SUFFICES ASSUME Control!IInv, Control!CheckRunning PROVE Control!IInv'
  OBVIOUS
<1>T. /\ MaxGap \in Nat /\ LoopGap \in Nat /\ LoopGap >= 2 /\ gap \in 0 .. MaxGap
      /\ asked \in BOOLEAN
  BY RegistersAssumption DEF Control!ResetAssumption, Control!IInv, Control!TypeOK
<1>1. /\ Control!NoStore /\ op \in {"run", "round"} /\ tmp = NoTmp /\ tmp' = NoTmp
      /\ op' = IF ctrl.md_rst_status THEN "leave" ELSE "run"
      /\ gap >= LoopGap /\ gap' = 0
  BY DEF Control!CheckRunning, Control!MayAccess
<1>2. gap' \in 0 .. MaxGap /\ gap > 0 /\ ~(gap' > 0)
  BY <1>T, <1>1
<1>3. Control!Started
  BY <1>1 DEF Control!Started
<1>4. op' \in {"leave", "run"} /\ (op' = "leave" => ctrl.md_rst_status)
  BY <1>1
<1>5. op' = "leave" => asked
  BY <1>3, <1>4 DEF Control!IInv, Control!LatchClear
<1>6. Control!Leaving' => asked
  BY <1>4, <1>5 DEF Control!Leaving
<1>7. Control!Released
  BY <1>1 DEF Control!Released
<1>8. op' \in Control!Assignments \cup {"check", "run", "round", "menu"} /\ op' # "check"
  BY <1>4 DEF Control!Assignments
<1> QED
  BY <1>1, <1>2, <1>3, <1>6, <1>7, <1>8, NoStoreKeeps

LEMMA CommandControl == Control!IInv /\ Control!Command => Control!IInv'
<1> SUFFICES ASSUME Control!IInv, Control!Command PROVE Control!IInv'
  OBVIOUS
<1>T. /\ MaxGap \in Nat /\ gap \in 0 .. MaxGap
      /\ tmp # NoTmp => op \in Control!Assignments
  BY RegistersAssumption DEF Control!ResetAssumption, Control!IInv, Control!TypeOK
<1>1. /\ Control!NoStore /\ op = "run" /\ op' \in {"cmd_81", "cmd_84"} /\ tmp' = tmp
      /\ gap' = IF gap + 1 < MaxGap THEN gap + 1 ELSE MaxGap
  BY DEF Control!Command, Control!Min2
<1>2. gap' \in 0 .. MaxGap
  BY <1>T, <1>1
<1>3. tmp = NoTmp
  BY <1>T, <1>1 DEF Control!Assignments
<1>4. /\ Control!Released /\ Control!Started /\ ~Control!Leaving'
      /\ op' \in Control!Assignments \cup {"check", "run", "round", "menu"} /\ op' # "check"
  BY <1>1 DEF Control!Released, Control!Leaving, Control!Started, Control!Assignments
<1> QED
  BY <1>1, <1>2, <1>3, <1>4, NoStoreKeeps

\* A store writes back the latch as it was loaded: it takes away what the
\* clocks in between have latched, but the line is still low then, or the
\* press is over.
LEMMA StoreControl == Control!IInv /\ Control!Store => Control!IInv'
<1> SUFFICES ASSUME Control!IInv, Control!Store PROVE Control!IInv'
  OBVIOUS
<1> USE DEF Control!IInv
<1>T. /\ MaxGap \in Nat /\ LongPress \in Nat /\ LongPress >= 3 /\ held \in 0 .. LongPress
      /\ tmp \in Control!Bits \cup {NoTmp} /\ asked \in BOOLEAN /\ long \in BOOLEAN
      /\ line_low \in BOOLEAN
      /\ tmp # NoTmp => op \in Control!Assignments
  BY RegistersAssumption DEF Control!ResetAssumption, Control!TypeOK
<1>1. /\ tmp # NoTmp /\ Control!StoreCtrl(Control!Assigned(tmp))
      /\ op' = Control!After /\ tmp' = NoTmp /\ gap' = 0
  BY DEF Control!Store
<1>2. tmp \in Control!Bits /\ op \in Control!Assignments
  BY <1>1, <1>T
<1>3. PICK v \in Control!Bits :
         /\ v = Control!Assigned(tmp)
         /\ v.md_rst_status = (op # "clear" /\ tmp.md_rst_status)
         /\ op # "hold" => v.md_rst = (op # "release" /\ tmp.md_rst)
  BY <1>2, AssignedBits
<1>S. /\ button' \in BOOLEAN /\ line_low' \in BOOLEAN /\ srst_st' = line_low
      /\ rise' \in 0 .. MaxRise /\ presses' \in 0 .. MaxPresses /\ held' \in 0 .. LongPress
      /\ ctrl' = v
      /\ asked' = (button' \/ (asked /\ op # "clear"))
      /\ long' = (held' = LongPress \/ (long /\ op # "clear"))
      /\ held' > 0 => button' /\ held' <= held + 1
      /\ button' => line_low'
      /\ ~v.md_rst /\ ~button' /\ line_low' => line_low
  BY <1>1, <1>3, StoreStep
<1>4. /\ op \in {"hold", "enable"} => op' \notin {"check", "run", "round", "leave", "menu"}
      /\ op \in {"release", "clear"} => op' = "check"
      /\ op \in {"cmd_81", "cmd_84"} => op' = "round"
      /\ op = "leave" => op' = "menu"
      /\ op' \in {"enable", "release", "check", "round", "menu"}
  BY <1>1, <1>2 DEF Control!After, Control!Assignments
<1>5. Control!TypeOK'
  <2>1. {srst_st', line_low', button', asked', long'} \subseteq BOOLEAN
    BY <1>T, <1>S
  <2>2. op' \in Control!Assignments \cup {"check", "run", "round", "menu"}
    BY <1>4 DEF Control!Assignments
  <2>3. gap' \in 0 .. MaxGap
    BY <1>T, <1>1
  <2> QED
    BY <1>1, <1>3, <1>S, <2>1, <2>2, <2>3 DEF Control!TypeOK
<1>6. Control!NoSpuriousExit'
  <2>1. Control!Leaving' => op = "leave"
    BY <1>2, <1>4 DEF Control!Leaving, Control!Assignments
  <2> QED
    BY <2>1, <1>S, <1>T DEF Control!NoSpuriousExit, Control!Leaving
<1>7. Control!LineRises'
  <2>1. Control!Released' => ~v.md_rst
    <3>1. CASE op = "release"
      BY <3>1, <1>3
    <3>2. CASE op \in {"hold", "enable"}
      BY <3>2, <1>4 DEF Control!Released
    <3>3. CASE op \in {"clear", "cmd_81", "cmd_84", "leave"}
      BY <3>3, <1>1, <1>3 DEF Control!LineRises, Control!Released
    <3> QED
      BY <3>1, <3>2, <3>3, <1>2 DEF Control!Assignments
  <2> QED
    BY <2>1, <1>1, <1>S DEF Control!LineRises
<1>8. Control!LoopSees'
  BY <1>1 DEF Control!LoopSees
<1>9. Control!LatchClear'
  <2> SUFFICES ASSUME Control!Started', ~asked'
               PROVE  ~line_low' /\ ~srst_st' /\ ~ctrl'.md_rst_status
    BY <1>1 DEF Control!LatchClear
  <2>1. op \in {"cmd_81", "cmd_84"}
    BY <1>2, <1>4 DEF Control!Started, Control!Assignments
  <2>2. ~asked /\ ~button'
    BY <2>1, <1>S
  <2>3. Control!Started /\ Control!Released
    BY <2>1 DEF Control!Started, Control!Released
  <2>4. ~line_low /\ ~tmp.md_rst_status /\ ~tmp.md_rst
    BY <2>2, <2>3, <1>1 DEF Control!LatchClear, Control!LineRises
  <2> QED
    BY <2>1, <2>2, <2>4, <1>3, <1>S
<1>10. Control!PressArrives'
  <2>1. held' > 0 => button' /\ line_low'
    BY <1>S
  <2>2. held' > 1 => srst_st'
    BY <1>T, <1>S DEF Control!PressArrives
  <2> QED
    BY <2>1, <2>2, <1>1 DEF Control!PressArrives
<1>11. Control!LongLatched'
  <2> SUFFICES ASSUME long'
               PROVE  srst_st' \/ ctrl'.md_rst_status
    BY <1>1 DEF Control!LongLatched
  <2>1. CASE held' = LongPress
    <3>1. held' > 0 /\ held' <= held + 1
      BY <2>1, <1>T, <1>S
    <3>2. held > 0
      BY <2>1, <3>1, <1>T
    <3> QED
      BY <3>2, <1>S DEF Control!PressArrives
  <2>2. CASE long /\ op # "clear"
    BY <2>2, <1>1, <1>3, <1>S DEF Control!LongLatched
  <2> QED
    BY <2>1, <2>2, <1>S
<1> QED
  BY <1>5, <1>6, <1>7, <1>8, <1>9, <1>10, <1>11

\* Every step keeps the invariant.
LEMMA NextControl == Control!IInv /\ [Control!Next]_controlVars => Control!IInv'
<1> SUFFICES ASSUME Control!IInv, [Control!Next]_controlVars PROVE Control!IInv'
  OBVIOUS
<1>1. CASE UNCHANGED controlVars
  BY <1>1 DEF controlVars, Control!IInv, Control!TypeOK, Control!NoSpuriousExit, Control!Leaving,
     Control!LineRises, Control!Released, Control!LoopSees, Control!LatchClear, Control!Started,
     Control!PressArrives, Control!LongLatched
<1>2. CASE Control!Next
  BY <1>2, WaitControl, LoadControl, StoreControl, CheckResetControl, CheckRunningControl,
     CommandControl DEF Control!Next
<1> QED
  BY <1>1, <1>2

\* Whenever the loop looks, the latch of a long press is there: what an
\* assignment under way had not loaded of it has been latched again.
LEMMA LatchTold == Control!IInv => LatchMeansPress
<1> SUFFICES ASSUME Control!IInv PROVE LatchMeansPress
  OBVIOUS
<1>1. LoopGap \in Nat /\ LoopGap >= 2
  BY RegistersAssumption DEF Control!ResetAssumption
<1>2. ASSUME op \in {"run", "round"}, gap >= LoopGap, long
      PROVE  ctrl.md_rst_status
  <2>1. tmp = NoTmp
    BY <1>2 DEF Control!IInv, Control!TypeOK, Control!Assignments
  <2>2. gap # 0
    BY <1>1, <1>2
  <2> QED
    BY <1>2, <2>1, <2>2 DEF Control!IInv, Control!LongLatched
<1> QED
  BY <1>2 DEF Control!IInv, LatchMeansPress, Control!Inv, Control!LongPressSeen
-----------------------------------------------------------------------------
(***************************************************************************)
(* Both registers.                                                         *)
(***************************************************************************)
RegistersIInv == IInv /\ Control!IInv

\* The two share no state: a step of the one leaves the invariant of the other.
THEOREM RegistersInvariant == RegistersSpec => []RegistersIInv
<1>1. RegistersInit => RegistersIInv
  BY InitIInv, InitControl DEF RegistersInit, RegistersIInv
<1>2. RegistersIInv /\ [RegistersNext]_allVars => RegistersIInv'
  <2>1. [RegistersNext]_allVars => [Next]_vars /\ [Control!Next]_controlVars
    BY DEF RegistersNext, CommandStep, ControlClock, allVars
  <2> QED
    BY <2>1, NextIInv, NextControl DEF RegistersIInv
<1> QED
  BY <1>1, <1>2, PTL DEF RegistersSpec

\* The latch of the reset line means what it should, at every step, however
\* long the line takes to rise and however the presses fall between the load
\* and the store of an assignment: the loop neither leaves without a press
\* nor overlooks a long one.
THEOREM LatchIsPress == RegistersSpec => []LatchMeansPress
<1>1. RegistersIInv => LatchMeansPress
  BY LatchTold DEF RegistersIInv
<1> QED
  BY <1>1, RegistersInvariant, PTL

\* Both registers at once: what the drive was asked for is what it does, in
\* the order it was asked, and only after it was silenced.
THEOREM DriveObeys == RegistersSpec => [](LatestDone /\ SilencedFirst)
<1>1. RegistersIInv => LatestDone /\ SilencedFirst
  BY DEF RegistersIInv, IInv, TypeOK, Latest, LatestDone, Silenced, SilencedFirst
<1> QED
  BY <1>1, RegistersInvariant, PTL
=============================================================================
