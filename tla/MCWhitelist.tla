---- MODULE MCWhitelist ----
(***************************************************************************)
(* Whitelist for TLC.                                                      *)
(***************************************************************************)
EXTENDS Whitelist, TLC

\* Milestone ids are only compared for equality.
Symmetry == Permutations(IDs)

====
