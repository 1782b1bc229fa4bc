---------------------------- MODULE MCOtaSystem ----------------------------
(* OtaSystem on a small instance: the delivered build and one new one.     *)
EXTENDS OtaSystem

CONSTANT a
=============================================================================
