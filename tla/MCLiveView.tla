------------------------------ MODULE MCLiveView ------------------------------
(***************************************************************************)
(* Small instances of LiveView for TLC.                                    *)
(***************************************************************************)
EXTENDS LiveView, TLC

Symmetry == Permutations(Lots)
=============================================================================
