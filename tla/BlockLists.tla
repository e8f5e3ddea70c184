------------------------------ MODULE BlockLists ------------------------------
(***************************************************************************)
(* The bookkeeping of Block_manager (ssd_bm.cpp) as operators on a record: *)
(* which blocks were never used, which are free, which await an erase, and *)
(* the counters that decide when erasing starts.                           *)
(*                                                                         *)
(* Only the first step of insert_events is here (the invalid list); the    *)
(* second one calls back into the DFTL and BIMODAL FTLs and belongs to     *)
(* their modules.                                                          *)
(***************************************************************************)
EXTENDS NandFlash, Sequences

CONSTANTS
  GC_PERCENT,      \* share of blocks in use that starts erasing: 90
  NUM_TO_ERASE,    \* blocks erased by one insert_events: 5
  MAX_LOG_BLOCKS   \* max_log_blocks: the device, or FAST_LOG_BLOCK_LIMIT

ASSUME BlockListsAssumption ==
  /\ GC_PERCENT \in Nat
  /\ NUM_TO_ERASE \in Nat
  /\ MAX_LOG_BLOCKS \in Nat

BlockTypes == {"DATA", "LOG"}

\* What a list holds, and that it names nothing twice.
Members(list) == {list[i] : i \in 1 .. Len(list)}
NoRepeat(list) == \A i, j \in 1 .. Len(list) : list[i] = list[j] => i = j

(***************************************************************************)
(* fresh is simpleCurrentFree / BLOCK_SIZE: blocks fresh and above were    *)
(* never handed out.  The two counters are unsigned in the code; the ratio *)
(* of insert_events casts them back to int, the limit on log blocks does   *)
(* not.                                                                    *)
(***************************************************************************)
BlockManagerType ==
  [fresh                 : 0 .. NUMBER_OF_ADDRESSABLE_BLOCKS,
   free_list             : Seq(Blocks),
   invalid_list          : Seq(Blocks),
   data_active           : Int,
   log_active            : Int,
   current_writing_block : Blocks \cup {NoBlock},
   out_of_blocks         : BOOLEAN]

BlockManagerInit ==
  [fresh                 |-> 0,
   free_list             |-> << >>,
   invalid_list          |-> << >>,
   data_active           |-> 0,
   log_active            |-> 0,
   current_writing_block |-> NoBlock,
   out_of_blocks         |-> FALSE]

FreshBlockLeft(bm) == bm.fresh < NUMBER_OF_ADDRESSABLE_BLOCKS

\* Mutant: the blocks waiting for an erase are not counted as used.
BlocksUsed_NoInvalid(bm) == bm.log_active + bm.data_active - Len(bm.free_list)

BlocksUsed(bm) ==
  Len(bm.invalid_list) + bm.log_active + bm.data_active - Len(bm.free_list)

\* insert_events returns while used/total < 0.90.  0.90 is a double and the
\* ratio a float, so a ratio of exactly nine tenths also returns.
EraseDue(bm) == 100 * BlocksUsed(bm) > GC_PERCENT * NUMBER_OF_ADDRESSABLE_BLOCKS

NumErased(bm) ==
  IF ~EraseDue(bm) THEN 0
  ELSE IF Len(bm.invalid_list) < NUM_TO_ERASE THEN Len(bm.invalid_list)
  ELSE NUM_TO_ERASE

\* The blocks insert_events erases, in order: from the back of invalid_list.
ErasedBlocks(bm) ==
  [i \in 1 .. NumErased(bm) |-> bm.invalid_list[Len(bm.invalid_list) + 1 - i]]

ErasedSet(bm) == {ErasedBlocks(bm)[i] : i \in 1 .. NumErased(bm)}

\* Mutant: the erased blocks are not popped from invalid_list.
InsertEvents_NoPop(bm) == [bm EXCEPT !.free_list = bm.free_list \o ErasedBlocks(bm)]

\* insert_events: each erased block moves from invalid_list to free_list ...
InsertEvents(bm) ==
  [bm EXCEPT
    !.free_list    = bm.free_list \o ErasedBlocks(bm),
    !.invalid_list = SubSeq(bm.invalid_list, 1, Len(bm.invalid_list) - NumErased(bm))]

\* Mutant: the erase event is never issued.
InsertEventsFlash_NoErase(bm, f) == f

\* ... after the hardware erased it, ...
InsertEventsFlash(bm, f) == Erase(f, ErasedSet(bm))

\* ... which a worn-out block refuses: assert(false).
InsertEventsFails(bm, f) == \E b \in ErasedSet(bm) : ~CanErase(f, b)

\* get_page_block calls insert_events when it is about to take the last block.
RunsLow(bm) ==
  ~FreshBlockLeft(bm) /\ Len(bm.free_list) <= 1 /\ ~bm.out_of_blocks

Serviced(bm) == IF RunsLow(bm) THEN InsertEvents(bm) ELSE bm
ServicedFlash(bm, f) == IF RunsLow(bm) THEN InsertEventsFlash(bm, f) ELSE f
ServiceFails(bm, f) == RunsLow(bm) /\ InsertEventsFails(bm, f)

\* get_page_block: assert(free_list.size() != 0).
OutOfBlocks(bm) == ~FreshBlockLeft(bm) /\ Serviced(bm).free_list = << >>

\* The block get_page_block returns, and the lists it leaves behind.
NextBlock(bm) ==
  IF FreshBlockLeft(bm) THEN bm.fresh ELSE Head(Serviced(bm).free_list)

TakeFree(bm) ==
  [bm EXCEPT !.free_list             = Tail(bm.free_list),
             !.current_writing_block = Head(bm.free_list),
             !.out_of_blocks         = FALSE]

GetPageBlock(bm) ==
  IF FreshBlockLeft(bm)
    THEN [bm EXCEPT !.fresh                 = bm.fresh + 1,
                    !.current_writing_block = bm.fresh]
    ELSE TakeFree(Serviced(bm))

\* get_free_block(type): the active counter of the type goes up.
CountActive(bm, type, n) ==
  IF type = "DATA" THEN [bm EXCEPT !.data_active = bm.data_active + n]
                   ELSE [bm EXCEPT !.log_active = bm.log_active + n]

GetFreeBlock(bm, type) == CountActive(GetPageBlock(bm), type, 1)

\* get_free_block(LOG) throws bad_alloc, after get_page_block took a block.
\* log_active is unsigned: a count below zero compares as a huge one.
LogBlockRefused(bm) == bm.log_active > MAX_LOG_BLOCKS \/ bm.log_active < 0

is_log_full(bm) == bm.log_active = MAX_LOG_BLOCKS

\* get_num_free_blocks: while fresh blocks are left it adds the used ones.
get_num_free_blocks(bm) ==
  Len(bm.free_list) + IF FreshBlockLeft(bm) THEN bm.fresh ELSE 0

\* invalidate(block, type): the block waits for an erase.
InvalidateBlock(bm, b, type) ==
  CountActive([bm EXCEPT !.invalid_list = Append(bm.invalid_list, b)], type, -1)

\* Mutant: the active counter is not decremented.
EraseAndInvalidate_NoCount(bm, b, type) ==
  [bm EXCEPT !.free_list = Append(bm.free_list, b)]

\* erase_and_invalidate(block, type): the erased block is free at once.
EraseAndInvalidate(bm, b, type) ==
  CountActive([bm EXCEPT !.free_list = Append(bm.free_list, b)], type, -1)

\* promote_block(type): a log block becomes a data block, or the reverse.
PromoteBlock(bm, type) ==
  CountActive(CountActive(bm, type, 1), IF type = "DATA" THEN "LOG" ELSE "DATA", -1)
===============================================================================
