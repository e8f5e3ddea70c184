------------------------------- MODULE FtlSteps -------------------------------
(***************************************************************************)
(* The steps a log-block FTL is built from, as operators on one record.    *)
(* BAST and FAST handle a request with a chain of calls to Block_manager   *)
(* and to Controller::issue; each call is here an operator from a record   *)
(* with the fields                                                         *)
(*   flash, bm   the array and the Block_manager,                          *)
(*   taken       the block the last get_free_block returned,               *)
(*   abort       the failed assert or exception that ended the program     *)
(* (and whatever tables the FTL adds) to the next one.  After an abort no  *)
(* step changes anything.  "undefined" marks undefined behaviour: the      *)
(* models follow the program no further.                                   *)
(***************************************************************************)
EXTENDS BlockLists

Aborts ==
  {"none", "no_free_block", "erase_failed", "bad_alloc", "page_not_empty",
   "no_free_page", "undefined"}

Alive(s) == s.abort = "none"
Fails(s, site) == [s EXCEPT !.abort = site]

\* get_free_block(type); the block is s.taken afterwards.
TakeBlock(s, type) ==
  IF ~Alive(s) THEN s
  ELSE IF ServiceFails(s.bm, s.flash) THEN Fails(s, "erase_failed")
  ELSE IF OutOfBlocks(s.bm) THEN Fails(s, "no_free_block")
  ELSE IF type = "LOG" /\ LogBlockRefused(s.bm) THEN Fails(s, "bad_alloc")
  ELSE [s EXCEPT !.flash = ServicedFlash(s.bm, s.flash),
                 !.bm    = GetFreeBlock(s.bm, type),
                 !.taken = NextBlock(s.bm)]

\* erase_and_invalidate(block, type): erased now, free at once.
EraseBlock(s, b, type) ==
  IF ~Alive(s) THEN s
  ELSE IF ~CanErase(s.flash, b) THEN Fails(s, "erase_failed")
  ELSE [s EXCEPT !.flash = Erase(s.flash, {b}),
                 !.bm    = EraseAndInvalidate(s.bm, b, type)]

\* invalidate(block, type): the block waits in invalid_list.
GiveBack(s, b, type) ==
  IF Alive(s) THEN [s EXCEPT !.bm = InvalidateBlock(s.bm, b, type)] ELSE s

\* insert_events called by the FTL itself.
EraseInvalidBlocks(s) ==
  IF ~Alive(s) THEN s
  ELSE IF InsertEventsFails(s.bm, s.flash) THEN Fails(s, "erase_failed")
  ELSE [s EXCEPT !.flash = InsertEventsFlash(s.bm, s.flash),
                 !.bm    = InsertEvents(s.bm)]

\* Controller::issue of a write of payload d to page p that replaces page old.
WritePage(s, p, d, old) ==
  IF ~Alive(s) THEN s
  ELSE IF ~CanProgram(s.flash, p) THEN Fails(s, "page_not_empty")
  ELSE [s EXCEPT !.flash = Replace(Program(s.flash, p, d), old)]

\* A merge reads page p and writes its payload to page q, replacing old.
CopyTo(s, p, q, old) == WritePage(s, q, s.flash.data[p], old)

InvalidatePage(s, p) ==
  IF Alive(s) THEN [s EXCEPT !.flash = Invalidate(s.flash, p)] ELSE s

\* Block::invalidate_page leaves the block INACTIVE when nothing in it counts.
Inactive(f, b) == f.pages_invalid[b] >= BLOCK_SIZE
===============================================================================
