--------------------------- MODULE CommandChannel ---------------------------
(***************************************************************************)
(* What the command register promises to the game: a one-word channel.    *)
(* A word is put into it only when it is free, it is executed once, with   *)
(* the operands it was written with, and only then is the register freed,  *)
(* at once or by way of an answer that the firmware takes back later.      *)
(***************************************************************************)
EXTENDS Naturals, Sequences

CONSTANTS
    Word,       \* the values of the command register
    Free,       \* the value that says "no command"
    Answer,     \* the only non-zero answer the firmware gives
    Ping        \* the command that is given this answer

VARIABLES
    register,   \* the command register
    taken,      \* the register holds an answer, not a command
    sent,       \* every command the game has issued, in order
    executed    \* every command the firmware has executed, in order

vars == <<register, taken, sent, executed>>

Init ==
    /\ register = Free
    /\ taken = FALSE
    /\ sent = << >>
    /\ executed = << >>

Send(w) ==
    /\ register = Free
    /\ w \in Word \ {Free}
    /\ register' = w
    /\ sent' = Append(sent, w)
    /\ UNCHANGED <<taken, executed>>

Execute ==
    /\ register # Free
    /\ ~taken
    /\ Len(executed) < Len(sent)
    /\ executed' = Append(executed, register)
    /\ UNCHANGED <<register, taken, sent>>

Reply ==
    /\ register # Free
    /\ ~taken
    /\ executed = sent
    /\ register' = IF register = Ping THEN Answer ELSE Free
    /\ taken' = (register = Ping)
    /\ UNCHANGED <<sent, executed>>

TakeBack ==
    /\ taken
    /\ register' = Free
    /\ taken' = FALSE
    /\ UNCHANGED <<sent, executed>>

Next ==
    \/ \E w \in Word : Send(w)
    \/ Execute
    \/ Reply
    \/ TakeBack

Spec == Init /\ [][Next]_vars
=============================================================================
