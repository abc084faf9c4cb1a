--------------------------- MODULE MCBitSliceIndex ---------------------------
(***************************************************************************)
(* The index of a field declared int[1,7] (three bits), over three ids, with *)
(* puts of values inside and just outside the range.                       *)
(***************************************************************************)
EXTENDS BitSliceIndex

MCInput == 0..8
=============================================================================
