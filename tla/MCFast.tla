-------------------------------- MODULE MCFast --------------------------------
(***************************************************************************)
(* Instances of Fast for TLC.                                              *)
(***************************************************************************)
EXTENDS Fast, TLC, FiniteSetsExt

\* Bound: the erases looked at on one path, over all blocks.
MaxErases == 2
Erases == MapThenSumSet(LAMBDA b : BLOCK_ERASES - flash.erases_remaining[b], Blocks)
ErasesBounded == Erases <= MaxErases

\* Each page is only written with a payload of its own: whose content a page
\* holds is told apart, which version of it is not.
OwnPayload == \A lpn \in Lpns : stored[lpn] \in {NoData, lpn}

\* Bound: the pages programmed on a path with a trim, which is followed up to
\* its first erase (no property but LogFillsInOrder is promised after a trim).
MaxPagesAfterTrim == 6
TrimsBounded ==
  trimmed => /\ MapThenSumSet(LAMBDA b : flash.pages_valid[b], Blocks) <= MaxPagesAfterTrim
             /\ Erases = 0

Bounds == ErasesBounded /\ OwnPayload /\ TrimsBounded

PayloadSymmetry == Permutations(Payloads)
===============================================================================
