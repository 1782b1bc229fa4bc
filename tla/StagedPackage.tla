---------------------------- MODULE StagedPackage ----------------------------
(***************************************************************************)
(* What update.flag stands for: a package that is complete when the flag   *)
(* appears and that nobody touches while the flag is there.                *)
(***************************************************************************)
CONSTANTS Possible,  \* whatever may be there at the start
          Complete,  \* the complete packages
          None       \* nothing staged

VARIABLE package

StagedInit == package \in Possible \cup {None}

Stage ==
  /\ package = None
  /\ package' \in Complete

Withdraw == package' = None

StagedSpec == StagedInit /\ [][Stage \/ Withdraw]_package
==============================================================================
