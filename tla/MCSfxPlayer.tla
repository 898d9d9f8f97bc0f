---------------------------- MODULE MCSfxPlayer -----------------------------
(***************************************************************************)
(* A sound of two bytes and one of three half bytes.                       *)
(***************************************************************************)
EXTENDS SfxPlayer

CONSTANTS hit, horn, hum

MCSizeOf == [s \in Sound |-> IF s = horn THEN 3 ELSE 2]
=============================================================================
