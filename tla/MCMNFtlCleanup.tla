---------------------------- MODULE MCMNFtlCleanup ----------------------------
(***************************************************************************)
(* The instance of MNFtlCleanup for TLC.                                   *)
(***************************************************************************)
EXTENDS MNFtlCleanup, TLC

\* What the future depends on.  The content of a page that is not VALID is
\* never copied nor served again, and global_buffer is written but not read,
\* so states that differ in those alone behave alike, and every property of
\* the run (none names them) holds in both or in neither.
DeadPages == {p \in Ppns : flash.page[p] # "VALID"}

CleanupView ==
  <<[flash EXCEPT !.data = [p \in DeadPages |-> NoData] @@ flash.data],
    bm, tables, current_block, current_page_offset, abort, cleanup>>
===============================================================================
