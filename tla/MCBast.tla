-------------------------------- MODULE MCBast --------------------------------
(***************************************************************************)
(* Instances of Bast for TLC.                                              *)
(***************************************************************************)
EXTENDS Bast, TLC, FiniteSetsExt

\* BAST never looks at a payload.
PayloadSymmetry == Permutations(Payloads)

\* Bound: the erases looked at on one path, over all blocks.
MaxErases == 3
ErasesBounded ==
  MapThenSumSet(LAMBDA b : BLOCK_ERASES - flash.erases_remaining[b], Blocks) <= MaxErases

\* What a page holds is of no consequence unless it is VALID: merges copy, and
\* mapped reads reach, VALID pages only.
View ==
  <<[flash EXCEPT !.data = [p \in Ppns |-> IF flash.page[p] = "VALID"
                                             THEN flash.data[p] ELSE NoData]],
    bm, data_list, log_map, abort, stored>>
===============================================================================
