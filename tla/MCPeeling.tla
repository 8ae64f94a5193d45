------------------------------ MODULE MCPeeling ------------------------------
(***************************************************************************)
(* Instances of Peeling for TLC.  The five parts need three sheets.  With   *)
(* the first part frozen, the second iteration, which is not the last one, *)
(* repacks a renumbered subset: parts are lost, or placed twice, even on   *)
(* one sheet.  With the fourth one frozen too, the last sheet loses a part.*)
(* The four parts are the smallest instance that loses one.                *)
(***************************************************************************)
EXTENDS Peeling

Areas(sizes) == [S \in SUBSET (DOMAIN sizes) |-> MapThenSumSet(LAMBDA p : sizes[p], S)]

FiveParts == Areas(<<4, 1, 1, 2, 1>>)
FourParts == Areas(<<3, 1, 1, 1>>)
=============================================================================
