-------------------------------- MODULE MCDftl --------------------------------
(***************************************************************************)
(* Instances of Dftl for TLC.                                              *)
(***************************************************************************)
EXTENDS Dftl, TLC

\* What the future depends on as long as collections do not nest: then the
\* content of a page that is not VALID is never copied or served again, and
\* nobody asks whose page it is.
DeadPages == {p \in Ppns : flash.page[p] # "VALID"}

DftlView ==
  <<[flash EXCEPT !.data = [p \in DeadPages |-> NoData] @@ flash.data],
    [p \in DeadPages |-> NoLpn] @@ reverse_trans_map,
    bm, ppn, cache, currentDataPage, stack, abort>>
===============================================================================
