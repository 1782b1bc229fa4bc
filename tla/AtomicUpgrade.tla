---------------------------- MODULE AtomicUpgrade ----------------------------
(***************************************************************************)
(* What the upgrade promises: the installed system changes from one        *)
(* complete set of files to another in a single step, whenever that step   *)
(* takes place and whatever happens on the way.  A package is offered,     *)
(* may be withdrawn, and is adopted as it was offered or not at all.       *)
(*                                                                         *)
(* The promise is void while the device is broken (OtaSystem's harm).      *)
(***************************************************************************)
CONSTANTS Packages,            \* directories: what may be offered or installed
          None,                \* no package on offer
          OverlayOf(_, _)      \* a package laid over the installed files

VARIABLES installed, offer, broken

atomicVars == <<installed, offer, broken>>

AtomicInit ==
  /\ installed \in Packages
  /\ offer = None
  /\ broken = FALSE

Offer ==
  /\ offer = None
  /\ offer' \in Packages
  /\ UNCHANGED <<installed, broken>>

Withdraw ==
  /\ offer' = None
  /\ UNCHANGED <<installed, broken>>

Adopt ==
  /\ offer # None
  /\ installed' = OverlayOf(offer, installed)
  /\ offer' = None
  /\ UNCHANGED broken

Break ==
  /\ broken' = TRUE
  /\ installed' \in Packages
  /\ offer' \in Packages \cup {None}

Broken ==
  /\ broken
  /\ broken' \in BOOLEAN
  /\ installed' \in Packages
  /\ offer' \in Packages \cup {None}

AtomicNext == Offer \/ Withdraw \/ Adopt \/ Break \/ Broken

AtomicSpec == AtomicInit /\ [][AtomicNext]_atomicVars
==============================================================================
