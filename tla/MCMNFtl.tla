------------------------------- MODULE MCMNFtl -------------------------------
(***************************************************************************)
(* Instances of MNFtl for TLC, and the mutants of its definitions.         *)
(***************************************************************************)
EXTENDS MNFtl, TLC

\* MNFTL never looks at a payload, so exchanging two of them changes nothing.
PayloadSymmetry == Permutations(Payloads)
==============================================================================
