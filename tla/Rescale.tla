------------------------------ MODULE Rescale -------------------------------
(***************************************************************************)
(* The scaled picture: command F4 unpacks a stamp of 64 columns, and F5    *)
(* stretches or shrinks a part of it to a window of 128 columns and lays   *)
(* that out in the shared memory for the video chip (ppm_stamp_rescale of  *)
(* mcu/mame.c).  A point is known by its column and line in the stamp;     *)
(* the areas of the shared memory are those of mcu/mame.h.                 *)
(***************************************************************************)
EXTENDS Integers, Sequences

CONSTANTS
    Windows,    \* windows the game asks for: first column, and the one after the last
    Factors,    \* columns of the stamp for one of the window, in 64ths
    Offsets     \* the column of the stamp that begins the window

Columns == 128
Lines == 32
StampColumns == 64

\* what a call takes from the stamp is in it: that the game asks for no more is
\* assumed of it, here and for the window below; the code checks neither
Fits(window, factor, offset) ==
    window[1] < window[2] =>
        64 * offset + (window[2] - 1 - window[1]) * factor < 64 * StampColumns

RescaleAssumption ==
    /\ \A w \in Windows : w[1] \in 0 .. Columns /\ w[2] \in 0 .. Columns
    /\ Factors \subseteq Nat /\ Offsets \subseteq 0 .. StampColumns - 1

(***************************************************************************)
(* The shared memory, ppm_ramdp: its areas and their sizes in bytes.       *)
(***************************************************************************)
Area(name, bytes) == [name |-> name, bytes |-> bytes]

dma_cmd_size == 8 * 2       \* ppm_dma_cmd
sat_item_size == 4 * 2      \* ppm_sat_item
intf_obj_size == 8 * 2      \* ppm_intf_obj

ramdp ==
    <<Area("vectors", 128 * 2), Area("rom_hdr", 128 * 2), Area("scaling_buff", 768 * 2),
      Area("save_buff", 256 * 2), Area("_pad1", 128 * 2), Area("sat_data", 144 * sat_item_size),
      Area("obj_data", 64 * intf_obj_size), Area("_pad2", 64 * 2),
      Area("dma_cmd", 121 * dma_cmd_size), Area("audio_data", 112), Area("net_data", 264 * 2),
      Area("cmd_args", 128 * 2), Area("counters", 8 * 2), Area("buff", 96 * 2),
      Area("reg_unk0", 4), Area("reg_status_1", 2), Area("reg_status_2", 2), Area("reg_unk4", 2),
      Area("reg_cmd", 2), Area("reg_wdog", 2), Area("reg_unk_1fee", 18)>>

\* the address of the k-th area
Address[k \in 1 .. Len(ramdp) + 1] ==
    IF k = 1 THEN 0 ELSE Address[k - 1] + ramdp[k - 1].bytes
AddressOf(name) == Address[CHOOSE k \in 1 .. Len(ramdp) : ramdp[k].name = name]
scaling_buff == AddressOf("scaling_buff")

VARIABLES
    window, factor, stamp_offset,   \* the arguments of the command
    pc,
    y, offset,      \* the next column of the window, and of the stamp, in 64ths
    scaled_stamp,   \* the column of the stamp that each of the window was copied from
    s,              \* the next strip of four columns
    written         \* what is in the words of the shared memory, by address

vars == <<window, factor, stamp_offset, pc, y, offset, scaled_stamp, s, written>>

Blank == -1     \* a column that was not copied is zero
Untouched == << >>

Init ==
    /\ window \in Windows /\ factor \in Factors /\ stamp_offset \in Offsets
    /\ Fits(window, factor, stamp_offset)
    /\ pc = "copy"
    /\ y = window[1]
    /\ offset = 64 * stamp_offset
    /\ scaled_stamp = [c \in 0 .. Columns - 1 |-> Blank]
    /\ s = 0 /\ written = Untouched

\* Variant for the checks: the column of the stamp is rounded up.
CopyColumn_Up ==
    /\ pc = "copy" /\ y < window[2]
    /\ scaled_stamp' = [scaled_stamp EXCEPT ![y] = (offset + 63) \div 64]
    /\ y' = y + 1 /\ offset' = offset + factor
    /\ UNCHANGED <<window, factor, stamp_offset, pc, s, written>>

\* the float is a multiple of a 64th below 2^24 / 64, so exact; (int) cuts it
CopyColumn ==
    /\ pc = "copy" /\ y < window[2]
    /\ scaled_stamp' = [scaled_stamp EXCEPT ![y] = offset \div 64]
    /\ y' = y + 1 /\ offset' = offset + factor
    /\ UNCHANGED <<window, factor, stamp_offset, pc, s, written>>

CopyEnd ==
    /\ pc = "copy" /\ y >= window[2]
    /\ pc' = "translate"
    /\ UNCHANGED <<window, factor, stamp_offset, y, offset, scaled_stamp, s, written>>

\* a function over what it replaces
Over(new, old) ==
    [a \in DOMAIN new \cup DOMAIN old |-> IF a \in DOMAIN new THEN new[a] ELSE old[a]]

\* the words of a strip begin here
clmn == (s - (s % 2)) * 16 + (s % 2) * 512

\* A word: the four columns, two to a byte, and the byte of the stamp they
\* are taken from, which is swapped with its neighbour.
Word(line) ==
    [columns |-> [n \in 1 .. 4 |-> scaled_stamp[4 * s + n - 1]],
     byte |-> IF line % 2 = 0 THEN line + 1 ELSE line - 1]

Strip ==
    /\ pc = "translate" /\ s < 32
    /\ written' = Over([a \in {scaling_buff + 2 * (clmn + line) : line \in 0 .. Lines - 1} |->
                      Word((a - scaling_buff) \div 2 - clmn)], written)
    /\ s' = s + 1
    /\ UNCHANGED <<window, factor, stamp_offset, pc, y, offset, scaled_stamp>>

Done ==
    /\ pc = "translate" /\ s = 32
    /\ UNCHANGED vars

Next == CopyColumn \/ CopyEnd \/ Strip \/ Done

Spec == Init /\ [][Next]_vars
-----------------------------------------------------------------------------
TypeOK ==
    /\ pc \in {"copy", "translate"} /\ s \in 0 .. 32
    /\ y \in 0 .. Columns
    /\ offset \in Nat

\* The column of the stamp to be seen in column c of the window.
Nearest(c) ==
    IF c \in window[1] .. window[2] - 1
    THEN stamp_offset + ((c - window[1]) * factor) \div 64
    ELSE Blank

\* The video chip takes the words of a tile from both halves of the buffer in
\* turn, the tiles of a column one after the other: where it finds a point,
\* and what it has to be, the bytes of the stamp being swapped in pairs.
Shown(c, line) ==
    LET a == scaling_buff + 2 * ((IF c % 8 < 4 THEN 0 ELSE 512) + (c \div 8) * 32 + line)
    IN  /\ a \in DOMAIN written
        /\ written[a].columns[(c % 4) + 1] = Nearest(c)
        /\ written[a].byte = (line + 1) - 2 * (line % 2)

\* The whole window shows the stamp at its scale, each point where the video
\* chip looks for it.
Scaled ==
    s = 32 => \A c \in 0 .. Columns - 1, line \in 0 .. Lines - 1 : Shown(c, line)

\* It takes the buffer and the one behind it, to the word, and leaves the
\* tables and registers behind those alone; these are where the game has them.
InItsArea ==
    /\ LET end == AddressOf("_pad1")
       IN  \A a \in DOMAIN written : scaling_buff <= a /\ a < end
    /\ AddressOf("sat_data") = 2816 /\ AddressOf("dma_cmd") = 5120
    /\ AddressOf("reg_status_1") = 8164 /\ AddressOf("reg_cmd") = 8170
    /\ Address[Len(ramdp) + 1] = 8192
=============================================================================
