----------------------------- MODULE MCSegments -----------------------------
(***************************************************************************)
(* Bodies up to three GSM-7 segments and a little more (seven in UTF-16),  *)
(* of characters of every kind in any order.                               *)
(***************************************************************************)
EXTENDS Segments

ThreeSegments == 3 * 153 + 2
=============================================================================
