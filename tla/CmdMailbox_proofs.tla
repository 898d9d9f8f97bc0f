------------------------- MODULE CmdMailbox_proofs --------------------------
(***************************************************************************)
(* Proofs about the command mailbox, for every set of opcodes and of       *)
(* arguments and every number of commands.                                 *)
(***************************************************************************)
EXTENDS CmdMailbox, TLAPS

\* The three words the protocol names are words, and they differ.
LEMMA WordFacts ==
    /\ Free \in Word /\ Ping \in Word /\ Pong \in Word
    /\ Free # Ping /\ Free # Pong /\ Ping # Pong
    /\ \A w \in Word : w[1] \in Op /\ w[2] \in Arg /\ w = <<w[1], w[2]>>
BY MailboxAssumption DEF Word, Free, Ping, Pong

USE DEF mcuVars, history, Handling, Polling

\* The inductive invariant holds initially.
LEMMA InitIInv == Init => IInv
BY WordFacts DEF Init, IInv, TypeOK, StartUp, RegisterOwner, LocalCopies, Flags, Outstanding

\* Type correctness is inductive on its own.
LEMMA NextTypeOK == TypeOK /\ [Next]_vars => TypeOK'
<1> SUFFICES ASSUME TypeOK, [Next]_vars PROVE TypeOK'
  OBVIOUS
<1> USE WordFacts DEF TypeOK
<1>0. CASE UNCHANGED vars
  BY <1>0 DEF vars
<1>1. CASE CopyRom \/ ClearRegs \/ ReleaseGame
  BY <1>1 DEF CopyRom, ClearRegs, ReleaseGame
<1>2. CASE PollIdle \/ PollCommand \/ SetStatus1 \/ SetBusy
  BY <1>2 DEF PollIdle, PollCommand, SetStatus1, SetBusy
<1>3. CASE Fetch
  BY <1>3 DEF Fetch
<1>4. CASE Dispatch
  BY <1>4 DEF Dispatch, Response, Word
<1>5. CASE ClearStatus1 \/ ClearBusy \/ Reply
  BY <1>5 DEF ClearStatus1, ClearBusy, Reply
<1>6. CASE Tick \/ RstCheck
  BY <1>6 DEF Tick, RstCheck
<1>7. CASE GameSeesFree \/ ResetButton
  BY <1>7 DEF GameSeesFree, ResetButton
<1>8. CASE \E w \in Word : GameSends(w)
  BY <1>8 DEF GameSends
<1> QED
  BY <1>0, <1>1, <1>2, <1>3, <1>4, <1>5, <1>6, <1>7, <1>8 DEF Next, MCU, Game, Menu

\* Every step preserves the inductive invariant.
LEMMA NextIInv == IInv /\ [Next]_vars => IInv'
<1> SUFFICES ASSUME IInv, [Next]_vars PROVE IInv'
  OBVIOUS
<1>0. TypeOK /\ TypeOK'
  BY NextTypeOK DEF IInv
<1> DEFINE J == StartUp /\ RegisterOwner /\ LocalCopies /\ Flags /\ Outstanding
<1>J. J
  BY DEF IInv
<1> USE WordFacts, <1>0, <1>J
    DEF TypeOK, J, StartUp, RegisterOwner, LocalCopies, Flags, Outstanding
<1>1. CASE UNCHANGED vars
  BY <1>1 DEF vars, IInv
<1>2. CASE CopyRom \/ ClearRegs
  BY <1>2 DEF CopyRom, ClearRegs, IInv
<1>3. CASE ReleaseGame
  BY <1>3 DEF ReleaseGame, IInv
<1>4. CASE PollIdle \/ PollCommand
  BY <1>4 DEF PollIdle, PollCommand, IInv
<1>5. CASE SetStatus1 \/ SetBusy
  BY <1>5 DEF SetStatus1, SetBusy, IInv
<1>6. CASE Fetch
  BY <1>6 DEF Fetch, IInv
<1>7. CASE Dispatch
  BY <1>7 DEF Dispatch, Response, Ping, IInv
<1>8. CASE ClearStatus1 \/ ClearBusy
  BY <1>8 DEF ClearStatus1, ClearBusy, IInv
<1>9. CASE Reply
  BY <1>9 DEF Reply, IInv
<1>10. CASE Tick \/ RstCheck
  BY <1>10 DEF Tick, RstCheck, IInv
<1>11. CASE GameSeesFree \/ ResetButton
  BY <1>11 DEF GameSeesFree, ResetButton, IInv
<1>12. CASE \E w \in Word : GameSends(w)
  BY <1>12 DEF GameSends, IInv
<1> QED
  BY <1>1, <1>2, <1>3, <1>4, <1>5, <1>6, <1>7, <1>8, <1>9, <1>10, <1>11, <1>12
     DEF Next, MCU, Game, Menu

\* The inductive invariant is an invariant of the mailbox.
THEOREM Invariance == Spec => []IInv
<1>1. Init => IInv
  BY InitIInv
<1>2. IInv /\ [Next]_vars => IInv'
  BY NextIInv
<1> QED
  BY <1>1, <1>2, PTL DEF Spec

\* Type correctness of the mailbox.
THEOREM TypeCorrect == Spec => []TypeOK
<1>1. IInv => TypeOK
  BY DEF IInv
<1> QED
  BY <1>1, Invariance, PTL

\* A game that reads 0 from reg_cmd knows that every command it issued was
\* executed once, in order and untorn (ppm_cmd_handler).
THEOREM FreeRegisterMeansDone == Spec => []FreeMeansDone
<1>1. IInv => FreeMeansDone
  BY DEF IInv, FreeMeansDone, StartUp, RegisterOwner, Outstanding
<1> QED
  BY <1>1, Invariance, PTL

\* Nothing but the commands of the game is executed, and none twice.
THEOREM ExecutesOnlyOnce == Spec => []OnlySentOnce
<1>1. IInv => OnlySentOnce
  BY DEF IInv, OnlySentOnce, StartUp, RegisterOwner, Outstanding
<1> QED
  BY <1>1, Invariance, PTL

\* The firmware's own answer is only ever dispatched as cmd_00.
THEOREM AnswerDispatchIsHarmless == Spec => []AnswerIsHarmless
<1>1. IInv => AnswerIsHarmless
  BY WordFacts DEF IInv, AnswerIsHarmless, RegisterOwner, LocalCopies, Pong, Free
<1> QED
  BY <1>1, Invariance, PTL

\* The loop leaves for the menu only between two commands.
THEOREM LeavesBetweenCommands == Spec => []ExitBetweenCommands
<1>1. IInv => ExitBetweenCommands
  <2> SUFFICES ASSUME IInv, pc = "menu" PROVE ExitBetweenCommands
    BY DEF ExitBetweenCommands
  <2>1. ~busy /\ ~status_1
    BY DEF IInv, Flags
  <2>2. ASSUME writer = "game" PROVE executed # sent
    <3>1. sent = Append(executed, reg_cmd)
      BY <2>2 DEF IInv, Outstanding
    <3>2. Len(sent) = Len(executed) + 1
      BY <3>1 DEF IInv, TypeOK
    <3> QED
      BY <3>2 DEF IInv, TypeOK
  <2> QED
    BY <2>1, <2>2 DEF ExitBetweenCommands
<1> QED
  BY <1>1, Invariance, PTL

\* The mailbox implements the one-word channel of CommandChannel.
THEOREM Refinement == Spec => ImplementsChannel
<1>1. Init => Channel!Init
  BY DEF Init, Channel!Init
<1>2. IInv /\ IInv' /\ [Next]_vars => [Channel!Next]_(Channel!vars)
  <2> SUFFICES ASSUME IInv, IInv', [Next]_vars
               PROVE [Channel!Next]_(Channel!vars)
    OBVIOUS
  <2> USE WordFacts
      DEF IInv, TypeOK, StartUp, RegisterOwner, LocalCopies, Outstanding, Channel!vars
  <2>1. CASE UNCHANGED vars
    BY <2>1 DEF vars
  <2>2. CASE CopyRom \/ ClearRegs \/ ReleaseGame
    BY <2>2 DEF CopyRom, ClearRegs, ReleaseGame
  <2>3. CASE PollIdle \/ PollCommand \/ SetStatus1 \/ SetBusy \/ Fetch
    BY <2>3 DEF PollIdle, PollCommand, SetStatus1, SetBusy, Fetch
  <2>4. CASE Dispatch
    <3>1. CASE writer = "mcu"
      BY <2>4, <3>1 DEF Dispatch
    <3>2. CASE writer = "game"
      <4>1. executed' = Append(executed, reg_cmd) /\ ~md_rst
        BY <2>4, <3>2 DEF Dispatch
      <4>2. Len(executed) < Len(sent)
        BY <2>4, <3>2 DEF Dispatch
      <4>3. Channel!Execute
        BY <2>4, <3>2, <4>1, <4>2 DEF Dispatch, Channel!Execute
      <4> QED
        BY <4>3 DEF Channel!Next
    <3> QED
      BY <2>4, <3>1, <3>2 DEF Dispatch
  <2>5. CASE ClearStatus1 \/ ClearBusy \/ Tick \/ RstCheck
    BY <2>5 DEF ClearStatus1, ClearBusy, Tick, RstCheck
  <2>6. CASE Reply
    <3>1. CASE writer = "mcu"
      <4>1. Channel!TakeBack
        BY <2>6, <3>1 DEF Reply, Channel!TakeBack
      <4> QED
        BY <4>1 DEF Channel!Next
    <3>2. CASE writer = "game"
      <4>1. Channel!Reply
        BY <2>6, <3>2 DEF Reply, Channel!Reply
      <4> QED
        BY <4>1 DEF Channel!Next
    <3> QED
      BY <2>6, <3>1, <3>2 DEF Reply
  <2>7. CASE GameSeesFree \/ ResetButton
    BY <2>7 DEF GameSeesFree, ResetButton
  <2>8. ASSUME NEW w \in Word, GameSends(w) PROVE Channel!Send(w)
    BY <2>8 DEF GameSends, Channel!Send
  <2> QED
    BY <2>1, <2>2, <2>3, <2>4, <2>5, <2>6, <2>7, <2>8
       DEF Next, MCU, Game, Menu, Channel!Next
<1> QED
  BY <1>1, <1>2, Invariance, PTL DEF Spec, ImplementsChannel, Channel!Spec
=============================================================================
