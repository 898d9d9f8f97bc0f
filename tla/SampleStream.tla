---------------------------- MODULE SampleStream ----------------------------
(***************************************************************************)
(* What the audio ring of the MD+ drive promises: bytes go in, samples of  *)
(* four bytes come out, in the order of the bytes, none lost, repeated or  *)
(* put together of two, until everything is thrown away for a new start.   *)
(***************************************************************************)
EXTENDS Naturals, Sequences

CONSTANTS Byte, Capacity

VARIABLES
    queue,      \* bytes put in that did not come out yet
    sample      \* the last sample that came out

Init == queue = << >> /\ sample = << >>

Put(b) ==
    /\ Len(queue) < Capacity
    /\ queue' = Append(queue, b)
    /\ UNCHANGED sample

Take ==
    /\ Len(queue) >= 4
    /\ sample' = SubSeq(queue, 1, 4)
    /\ queue' = SubSeq(queue, 5, Len(queue))

Clear == queue' = << >> /\ UNCHANGED sample

Next == (\E b \in Byte : Put(b)) \/ Take \/ Clear

Spec == Init /\ [][Next]_<<queue, sample>>
=============================================================================
