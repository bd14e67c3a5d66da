--------------------------- MODULE MCApplications ---------------------------
(***************************************************************************)
(* The instance of Applications for TLC: one user of each kind in turn and *)
(* two administrators, who may work on an account that came through        *)
(* OnboardingService at the same time.                                     *)
(***************************************************************************)
EXTENDS Applications
=============================================================================
