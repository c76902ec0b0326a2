----------------------------- MODULE MCAdmission -----------------------------
(***************************************************************************)
(* Admission with interchangeable visitors.                                *)
(***************************************************************************)
EXTENDS Admission, TLC

VisitorSymmetry == Permutations(Visitors)
=============================================================================
