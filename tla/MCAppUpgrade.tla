---------------------------- MODULE MCAppUpgrade ----------------------------
(* AppUpgrade on a small instance: clients that send two different builds. *)
EXTENDS AppUpgrade, TLC

CONSTANTS a, b
ImageSymmetry == Permutations({a, b})
=============================================================================
