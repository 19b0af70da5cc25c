------------------------------- MODULE MCLease -------------------------------
(***************************************************************************)
(* Instances of Lease for TLC.                                             *)
(***************************************************************************)
EXTENDS Lease, TLC

CONSTANTS a, b

\* Two calls for two leases.
TwoRoutes == (a :> "r1") @@ (b :> "r2")

==============================================================================
