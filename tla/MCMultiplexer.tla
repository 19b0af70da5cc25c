----------------------------- MODULE MCMultiplexer -----------------------------
(***************************************************************************)
(* Instances of Multiplexer for TLC.                                       *)
(***************************************************************************)
EXTENDS Multiplexer, TLC

\* Requests behave alike and no property names one.
RequestSymmetry == Permutations(Requests)

================================================================================
