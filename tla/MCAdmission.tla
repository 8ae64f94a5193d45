----------------------------- MODULE MCAdmission -----------------------------
(***************************************************************************)
(* Small instances of Admission for TLC.  Connections are model values.    *)
(* Nothing in the specification tells two of them apart, but one run       *)
(* checks liveness too, for which a symmetry set is not sound.             *)
(***************************************************************************)
EXTENDS Admission

CONSTANTS c1, c2, c3, c4

FourSlots == {c1, c2, c3, c4}
ThreeSlots == {c1, c2, c3}
AllKinds == {"slice", "post"}
PostOnly == {"post"}
=============================================================================
