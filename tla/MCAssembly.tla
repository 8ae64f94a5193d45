------------------------------ MODULE MCAssembly ------------------------------
(***************************************************************************)
(* Instances of Assembly for TLC: two stocks share a usable size, a third  *)
(* has another one; of the instances one fits nothing, one only the shared *)
(* size and the others both sizes.                                         *)
(***************************************************************************)
EXTENDS Assembly

CONSTANTS i1, i2, i3, i4, i5

Items == {i1, i2, i3, i4, i5}
StockSizes == <<"large", "large", "small">>

Fits ==
    [i \in Items |->
        CASE i = i4 -> {}
          [] i = i3 -> {"large"}
          [] OTHER -> {"large", "small"}]
=============================================================================
