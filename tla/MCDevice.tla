------------------------------ MODULE MCDevice ------------------------------
(***************************************************************************)
(* An instance of Device for TLC.                                          *)
(***************************************************************************)
EXTENDS Device

\* The pages of a block, and the first of its siblings and of one at every level.
TouchedPages == {0, 1, 2, 4, 6, 12, 24}

\* Bounds, over all blocks: erases, and erases together with the page
\* operations counted since the last erase of their block.
MaxErases == 2
MaxOperations == 3
Erases == MapThenSumSet(LAMBDA b : BLOCK_ERASES - dev.block[b].erases_remaining, Blocks)
PageOperations ==
  MapThenSumSet(LAMBDA b : dev.block[b].pages_valid + dev.block[b].pages_invalid, Blocks)
Bounds == Erases <= MaxErases /\ Erases + PageOperations <= MaxOperations
=============================================================================
