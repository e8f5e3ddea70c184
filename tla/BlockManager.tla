----------------------------- MODULE BlockManager -----------------------------
(***************************************************************************)
(* Block_manager (ssd_bm.cpp) under a log-block FTL.  The client stands    *)
(* for BAST and FAST: it asks for data and log blocks, programs them page  *)
(* by page, promotes log blocks, and gives blocks back either to be erased *)
(* later (invalidate) or at once (erase_and_invalidate).  Every call runs  *)
(* to its end before the next one: the simulator is sequential.            *)
(***************************************************************************)
EXTENDS BlockLists, FiniteSets

\* Erasing starts before every block is in use, and then erases something:
\* ssd_bm.cpp has 0.90 and 5.
ASSUME ReclaimAssumption ==
  /\ GC_PERCENT < 100
  /\ NUM_TO_ERASE > 0

VARIABLES
  flash,   \* the array the blocks belong to
  bm,      \* the Block_manager
  held,    \* which blocks the client holds, and as what
  abort    \* the failed assert or uncaught exception that ended the program

vars == <<flash, bm, held, abort>>

Aborts == {"none", "no_free_block", "erase_failed", "bad_alloc"}

TypeOK ==
  /\ flash \in FlashType
  /\ bm \in BlockManagerType
  /\ held \in [Blocks -> BlockTypes \cup {"none"}]
  /\ abort \in Aborts

Init ==
  /\ flash = FlashInit
  /\ bm = BlockManagerInit
  /\ held = [b \in Blocks |-> "none"]
  /\ abort = "none"

Running == abort = "none"

Fail(site) ==
  /\ abort' = site
  /\ UNCHANGED <<flash, bm, held>>

(***************************************************************************)
(* get_free_block(type).                                                   *)
(***************************************************************************)
get_free_block(type) ==
  /\ Running
  /\ ~ServiceFails(bm, flash)
  /\ ~OutOfBlocks(bm)
  /\ type = "LOG" => ~LogBlockRefused(bm)
  /\ bm' = GetFreeBlock(bm, type)
  /\ flash' = ServicedFlash(bm, flash)
  /\ held' = [held EXCEPT ![NextBlock(bm)] = type]
  /\ UNCHANGED abort

get_free_block_aborts(type) ==
  /\ Running
  /\ \/ ServiceFails(bm, flash) /\ Fail("erase_failed")
     \/ ~ServiceFails(bm, flash) /\ OutOfBlocks(bm) /\ Fail("no_free_block")
     \/ /\ ~ServiceFails(bm, flash) /\ ~OutOfBlocks(bm)
        /\ type = "LOG" /\ LogBlockRefused(bm)
        /\ Fail("bad_alloc")

(***************************************************************************)
(* The first step of insert_events, called directly (FAST and DFTL do).    *)
(***************************************************************************)
insert_events ==
  /\ Running
  /\ IF InsertEventsFails(bm, flash)
       THEN Fail("erase_failed")
       ELSE /\ bm' = InsertEvents(bm)
            /\ flash' = InsertEventsFlash(bm, flash)
            /\ UNCHANGED <<held, abort>>

invalidate(b) ==
  /\ Running
  /\ held[b] \in BlockTypes
  /\ bm' = InvalidateBlock(bm, b, held[b])
  /\ held' = [held EXCEPT ![b] = "none"]
  /\ UNCHANGED <<flash, abort>>

erase_and_invalidate(b) ==
  /\ Running
  /\ held[b] \in BlockTypes
  /\ IF ~CanErase(flash, b)
       THEN Fail("erase_failed")
       ELSE /\ flash' = Erase(flash, {b})
            /\ bm' = EraseAndInvalidate(bm, b, held[b])
            /\ held' = [held EXCEPT ![b] = "none"]
            /\ UNCHANGED abort

\* promote_block(DATA), the only direction the FTLs use.
promote_block(b) ==
  /\ Running
  /\ held[b] = "LOG"
  /\ bm' = PromoteBlock(bm, "DATA")
  /\ held' = [held EXCEPT ![b] = "DATA"]
  /\ UNCHANGED <<flash, abort>>

\* The client programs the next page of a block it holds.
program(b, d) ==
  /\ Running
  /\ held[b] \in BlockTypes
  /\ HasFreePage(flash, b)
  /\ flash' = Program(flash, FreePage(flash, b), d)
  /\ UNCHANGED <<bm, held, abort>>

Next ==
  \/ \E type \in BlockTypes : get_free_block(type) \/ get_free_block_aborts(type)
  \/ insert_events
  \/ \E b \in Blocks :
       \/ invalidate(b)
       \/ erase_and_invalidate(b)
       \/ promote_block(b)
       \/ \E d \in Payloads : program(b, d)

Spec == Init /\ [][Next]_vars

(***************************************************************************)
(* Properties.                                                             *)
(***************************************************************************)
\* Every block is in exactly one place: never handed out, held by the client,
\* waiting in invalid_list or ready in free_list; no list names it twice.  A
\* block in two places would be handed out while its owner still uses it.
BlocksAccountedFor ==
  LET free    == Members(bm.free_list)
      invalid == Members(bm.invalid_list)
      taken   == {b \in Blocks : held[b] \in BlockTypes}
      fresh   == bm.fresh .. NUMBER_OF_ADDRESSABLE_BLOCKS - 1
  IN /\ NoRepeat(bm.free_list) /\ NoRepeat(bm.invalid_list)
     /\ free \cap invalid = {}
     /\ taken \cap (free \cup invalid) = {}
     /\ fresh \cap (free \cup invalid \cup taken) = {}
     /\ free \cup invalid \cup taken \cup fresh = Blocks

\* Whatever get_free_block can hand out has been erased: every page of it is
\* EMPTY, so the asserts of Page::_write and get_free_page hold for its owner.
FreeBlocksErased ==
  \A p \in Ppns :
    p[1] >= bm.fresh \/ p[1] \in Members(bm.free_list) => flash.page[p] = "EMPTY"

\* The counters insert_events decides on never drift from the blocks in use.
CountersMatchHeldBlocks ==
  /\ bm.data_active = Cardinality({b \in Blocks : held[b] = "DATA"})
  /\ bm.log_active = Cardinality({b \in Blocks : held[b] = "LOG"})

\* get_free_block gives up only when nothing is left to erase: whenever a
\* block waits in invalid_list, the ratio test of insert_events lets the erase
\* through before the assert on free_list is reached.
GivesUpOnlyWhenAllHeld ==
  abort = "no_free_block" => \A b \in Blocks : held[b] \in BlockTypes

\* No operation of the manager erases a page of a block the client keeps.
HeldPagesSurvive ==
  [][\A p \in Ppns :
        held[p[1]] \in BlockTypes /\ held'[p[1]] \in BlockTypes
          => (flash.page[p] = "VALID" => flash'.page[p] = "VALID")]_vars
===============================================================================
