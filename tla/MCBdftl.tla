------------------------------- MODULE MCBdftl -------------------------------
(***************************************************************************)
(* Instances of Bdftl for TLC.                                             *)
(***************************************************************************)
EXTENDS Bdftl, TLC

\* Bounds: erases and programmed pages on one path, over all blocks.
MaxErases == 1
MaxProgrammed == 6
Erases == MapThenSumSet(LAMBDA b : BLOCK_ERASES - flash.erases_remaining[b], Blocks)
Programmed ==
  MapThenSumSet(LAMBDA b : flash.pages_valid[b], Blocks) + BLOCK_SIZE * Erases

\* Each page is only written with a payload of its own: whose content a page
\* holds is told apart, which version of it is not.
OwnPayload ==
  /\ \A l \in Lpns : stored[l] \in {NoData, l}
  /\ \A f \in Range(stack) : f.proc \in {"first", "bwrite"} => f.payload = f.lpn

\* Only pages of logical block 0 are trimmed.  Of what trim_map may hold at the
\* start for them, all and nothing.
TrimsHere ==
  /\ \A l \in Lpns \ LpnsOf(0) : ~trim_map[l]
  /\ flash = FlashInit /\ stack = << >> => \A l, m \in LpnsOf(0) : trim_map[l] = trim_map[m]

\* Nothing is followed once spoiled.
Bounds ==
  /\ Erases <= MaxErases
  /\ Programmed <= MaxProgrammed
  /\ OwnPayload
  /\ TrimsHere
  /\ ~spoiled

\* What the future depends on until the FTL is spoiled: the content of a page
\* is only served or copied for the logical page it belongs to, and only such
\* a page is looked up in the reverse map.  With a cached mapping table as
\* large as the map nothing depends on what is cached.
Placed == {PageRead(l) : l \in Lpns} \cup {PageOf(l) : l \in Lpns}

BdftlView ==
  <<[flash EXCEPT !.data = [p \in Ppns \ Placed |-> NoData] @@ flash.data],
    [p \in Ppns \ Placed |-> NoLpn] @@ reverse_trans_map,
    bm, ppn, currentDataPage, stack, abort, block_map, trim_map, pool, history>>
===============================================================================
