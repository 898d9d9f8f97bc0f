------------------------------- MODULE Unpack -------------------------------
(***************************************************************************)
(* The unpacker and the first thing it is used for, the files put one      *)
(* after the other into the graphics memory (ppm_unpack_scal and           *)
(* ppm_setup_data of mcu/mame.c).  Both formats are runs of bytes: as they *)
(* are, of one value, or taken from what is already unpacked, which may be *)
(* a run that reaches into itself.  How a code is laid out in bits is left *)
(* out: a packet is the runs that it asks for.                             *)
(***************************************************************************)
EXTENDS Naturals, Sequences

CONSTANTS
    Values,     \* values of a byte
    MaxRun,     \* bound on the bytes of a run
    MaxFile,    \* bound on the bytes of a file
    Files,      \* files unpacked, one after the other
    Start       \* where the first one goes, PPM_DATA_START_ADDR

UnpackAssumption ==
    /\ Values \subseteq 0 .. 255 /\ 0 \in Values
    /\ MaxRun \in Nat \ {0} /\ MaxFile \in Nat \ {0} /\ Files \in Nat \ {0}
    /\ Start \in Nat /\ Start % 2 = 0

VARIABLES
    unpacked_data,  \* the graphics memory, byte by byte
    format,         \* of this file; "none" between two
    initial_dest_addr, dest_addr, copy_addr,
    runs,           \* what the packet still asks for
    unpack_addr,    \* where the next file goes
    want,           \* history: what this file ought to be, by the packets so far
    files           \* history: where the files before are and what they ought to be

vars == <<unpacked_data, format, initial_dest_addr, dest_addr, copy_addr, runs, unpack_addr,
          want, files>>

Top == Start + Files * (MaxFile + 2)
Unset == 256 \* no byte: not written yet

Run(kind, count) == [kind |-> kind, count |-> count, value |-> 0, distance |-> 0]
Literal(bytes) == [k \in 1 .. Len(bytes) |-> [Run("value", 1) EXCEPT !.value = bytes[k]]]
Fill(count, v) == [Run("value", count) EXCEPT !.value = v]
Copy(count, d) == [Run("copy", count) EXCEPT !.distance = d]

Strings(n) == UNION {[1 .. k -> Values] : k \in 1 .. n}

Init ==
    /\ unpacked_data = [a \in 0 .. Top - 1 |-> Unset]
    /\ format = "none" /\ runs = << >>
    /\ initial_dest_addr = 0 /\ dest_addr = 0 /\ copy_addr = 0
    /\ unpack_addr = Start
    /\ want = << >> /\ files = << >>
-----------------------------------------------------------------------------
\* the byte of a word that the processor has at the other place, address ^ 1
Swapped(addr) == IF addr % 2 = 0 THEN addr + 1 ELSE addr - 1

(***************************************************************************)
(* The packets that follow each other in a file.                           *)
(***************************************************************************)
\* as they are, one value, from before, zeros
Packets80 ==
    {Literal(s) : s \in Strings(MaxRun)}
        \cup {<<Fill(n, v)>> : n \in 1 .. MaxRun, v \in Values}
        \cup {<<Copy(n, d)>> : n \in 1 .. MaxRun, d \in 1 .. Len(want)}

\* from before and then as they are; the second may be missing, and the first
CopyThenLiteral ==
    {<<Copy(n, d)>> \o Literal(s) : n \in 1 .. MaxRun, d \in 1 .. Len(want),
                                   s \in {<< >>} \cup Strings(1)}

Packets81 == {Literal(s) : s \in Strings(MaxRun)} \cup CopyThenLiteral

\* what a run adds to what was unpacked before: a run from before goes round
\* when it is longer than its distance
Added(out, run) ==
    out \o [k \in 1 .. run.count |->
               IF run.kind = "value" THEN run.value
               ELSE out[Len(out) - run.distance + 1 + ((k - 1) % run.distance)]]

Expanded(packet) ==
    LET out[k \in 0 .. Len(packet)] == IF k = 0 THEN want ELSE Added(out[k - 1], packet[k])
    IN  out[Len(packet)]

Begin ==
    /\ format = "none" /\ Len(files) < Files
    /\ format' \in {"80", "81"}
    /\ initial_dest_addr' = unpack_addr /\ dest_addr' = unpack_addr
    /\ want' = << >>
    /\ UNCHANGED <<unpacked_data, copy_addr, runs, unpack_addr, files>>

Packet ==
    /\ format # "none" /\ runs = << >>
    /\ \E packet \in IF format = "80" THEN Packets80 ELSE Packets81 :
           LET out == Expanded(packet)
           IN  Len(out) <= MaxFile /\ want' = out /\ runs' = packet
               /\ copy_addr' = IF packet[1].kind = "copy" THEN dest_addr - packet[1].distance
                               ELSE copy_addr
    /\ UNCHANGED <<unpacked_data, format, initial_dest_addr, dest_addr, unpack_addr, files>>

\* Variant for the checks: the bytes are swapped on the way in, and not when a
\* run is taken from what is unpacked.
Source_AsItIs == unpacked_data[copy_addr]

Source == unpacked_data[Swapped(copy_addr)]

\* one round of a loop
Byte ==
    /\ runs # << >>
    /\ LET run == Head(runs)
       IN  /\ unpacked_data' = [unpacked_data EXCEPT ![Swapped(dest_addr)] =
                                   IF run.kind = "value" THEN run.value ELSE Source]
           /\ runs' = IF run.count > 1 THEN <<[run EXCEPT !.count = @ - 1]>> \o Tail(runs)
                      ELSE Tail(runs)
           /\ copy_addr' = IF run.kind = "copy" THEN copy_addr + 1 ELSE copy_addr
    /\ dest_addr' = dest_addr + 1
    /\ UNCHANGED <<format, initial_dest_addr, unpack_addr, want, files>>

Aligned(addr) == addr + 1 - ((addr + 1) % 2)

\* the code that ends a file, and the step to the next even address
End ==
    /\ format # "none" /\ runs = << >>
    /\ format' = "none"
    /\ unpack_addr' = Aligned(unpack_addr + (dest_addr - initial_dest_addr))
    /\ files' = Append(files, [at |-> initial_dest_addr, bytes |-> want])
    /\ want' = << >>
    /\ UNCHANGED <<unpacked_data, initial_dest_addr, dest_addr, copy_addr, runs>>

Finished == format = "none" /\ Len(files) = Files /\ UNCHANGED vars

Next == Begin \/ Packet \/ Byte \/ End \/ Finished

Spec == Init /\ [][Next]_vars
-----------------------------------------------------------------------------
TypeOK ==
    /\ unpacked_data \in [0 .. Top - 1 -> Values \cup {Unset}]
    /\ unpack_addr \in Start .. Top /\ unpack_addr % 2 = 0
    /\ dest_addr <= initial_dest_addr + MaxFile
    /\ runs # << >> => dest_addr < initial_dest_addr + Len(want)

\* A byte as the console has it, the first of a word in its upper half.
Byte16(addr) == unpacked_data[2 * (addr \div 2) + 1 - (addr % 2)]

Holds(at, bytes) == \A k \in 1 .. Len(bytes) : Byte16(at + k - 1) = bytes[k]

\* After each packet the console finds in memory what the packets so far mean,
\* also where a run is taken from what it is just writing.
Decoded == format # "none" /\ runs = << >> => Holds(initial_dest_addr, want)

\* What was unpacked before stays as it is, though the last byte of a file of
\* an odd length is written beyond its end.
FilesKept == \A k \in DOMAIN files : Holds(files[k].at, files[k].bytes)
=============================================================================
