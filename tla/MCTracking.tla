----------------------------- MODULE MCTracking -----------------------------
(* Symmetry for Tracking: all trackers but number 0 are alike. *)
EXTENDS Tracking, TLC

TrackerSymmetry == Permutations(Uids \ {Zero})
=============================================================================
