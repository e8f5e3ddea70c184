--------------------------------- MODULE Dftl ---------------------------------
(***************************************************************************)
(* DFTL (dftl_parent.cpp, dftl_ftl.cpp): a page mapping of which a part is *)
(* cached, with garbage collection by cleanup_block.                       *)
(*                                                                         *)
(* Collection is where the functions call each other in a circle: a page   *)
(* needs a block (get_free_data_page, get_free_block), the last block      *)
(* starts a collection (insert_events), which moves pages (cleanup_block), *)
(* which need a block.  The nesting is modelled as it is, with a stack of  *)
(* frames, one step of a function at a time; while the stack is not empty  *)
(* the host waits.                                                         *)
(*                                                                         *)
(* Times are left out.  They decide which cached entry is evicted, which   *)
(* is an arbitrary one here, and whether its eviction is charged a write.  *)
(***************************************************************************)
EXTENDS BlockLists, FiniteSetsExt

CONSTANTS
  NumLpns,           \* logical pages the host uses
  totalCMTentries,   \* entries the cached mapping table is meant to hold
  MAX_UNDERCOUNT     \* bound: how far Trim may take cmt below what is cached

ASSUME DftlAssumption ==
  /\ NumLpns \in Nat
  /\ totalCMTentries \in Nat \ {0}
  /\ MAX_UNDERCOUNT \in Nat

Lpns == 0 .. NumLpns - 1
NoLpn == -1

VARIABLES
  flash,              \* the array
  bm,                 \* the Block_manager
  ppn,                \* MPage::ppn of each entry of trans_map
  reverse_trans_map,  \* the logical page last written to each physical page
  cached,             \* the entries with MPage::cached
  cmt,                \* the number of cached entries, as the code counts it
  currentDataPage,    \* the page handed out last
  stack,              \* the functions under way, innermost first
  abort               \* the failed assert that ended the program, or "none"

maps == <<ppn, reverse_trans_map>>
cache == <<cached, cmt>>
vars == <<flash, bm, maps, cache, currentDataPage, stack, abort>>

(***************************************************************************)
(* Frames.  "page": get_free_data_page, before it looks for a page.        *)
(* "take": get_page_block, after the insert_events it called.  "insert"    *)
(* and "erase": insert_events, before and after the cleanup_block of `it'. *)
(* "cleanup" and "copy": cleanup_block, before and after it was given a    *)
(* page to copy page i to.  "write": FtlImpl_Dftl::write, with its page.   *)
(***************************************************************************)
PageFrame == [proc : {"page", "take"}]
InsertFrame == [proc : {"insert", "erase"}, num_to_erase : 0 .. NUM_TO_ERASE, it : Blocks]
CleanupFrame ==
  [proc : {"cleanup", "copy"}, block : Blocks, i : 0 .. BLOCK_SIZE,
   invalidated_translation : UNION {[L -> Ppns] : L \in SUBSET Lpns}]
WriteFrame == [proc : {"write"}, lpn : Lpns, payload : Payloads]

Frames == PageFrame \cup InsertFrame \cup CleanupFrame \cup WriteFrame

Aborts == {"none", "no_free_block", "erase_failed", "victim_page_empty", "page_not_empty"}

TypeOK ==
  /\ flash \in FlashType
  /\ bm \in BlockManagerType
  /\ ppn \in [Lpns -> Ppns \cup {NoPpn}]
  /\ reverse_trans_map \in [Ppns -> Lpns \cup {NoLpn}]
  /\ cached \in SUBSET Lpns
  /\ cmt \in Int
  /\ currentDataPage \in Ppns \cup {NoPpn}
  /\ stack \in Seq(Frames)
  /\ abort \in Aborts

Init ==
  /\ flash = FlashInit
  /\ bm = BlockManagerInit
  /\ ppn = [l \in Lpns |-> NoPpn]
  /\ reverse_trans_map = [p \in Ppns |-> NoLpn]
  /\ cached = {}
  /\ cmt = 0
  /\ currentDataPage = NoPpn
  /\ stack = << >>
  /\ abort = "none"

Running == abort = "none"
Idle == Running /\ stack = << >>
At(proc) == Running /\ stack # << >> /\ Head(stack).proc = proc

top == Head(stack)
Return == stack' = Tail(stack)
Become(f) == stack' = <<f>> \o Tail(stack)
Call(f, caller) == stack' = <<f, caller>> \o Tail(stack)

\* Mutant: the end of a block is seen one page early.
AtEnd_Early == currentDataPage = NoPpn \/ currentDataPage[2] = BLOCK_SIZE - 2

AtEnd == currentDataPage = NoPpn \/ currentDataPage[2] = BLOCK_SIZE - 1

(***************************************************************************)
(* insert_events picks its victims by active_cost, a list of all blocks    *)
(* sorted by pages_invalid.  Blocks with as many stand in an order that    *)
(* depends on their history; any order is allowed here.                    *)
(***************************************************************************)
Costliest(f, B) == {b \in B : \A c \in B : f.pages_invalid[c] <= f.pages_invalid[b]}

\* The first victim is looked at even if it is the block being written ...
InsertEventsThen(rest) ==
  IF EraseDue(bm)
    THEN \E b \in Costliest(flash, Blocks) :
           stack' = <<[proc |-> "insert", num_to_erase |-> NUM_TO_ERASE, it |-> b]>> \o rest
    ELSE stack' = rest

\* ... later ones are not.
NextVictims(f) ==
  UNION {IF b = bm.current_writing_block THEN Costliest(f, Blocks \ {b}) ELSE {b} :
           b \in Costliest(f, Blocks)}

\* The loop of insert_events goes on with a wholly written block only.
Collectable(b) == flash.pages_invalid[b] > 0 /\ flash.pages_valid[b] = BLOCK_SIZE

(***************************************************************************)
(* The host's requests.                                                    *)
(***************************************************************************)
\* evict_page_from_cache: as many entries as bring cmt below its limit.
Evictions == IF cmt >= totalCMTentries THEN cmt - totalCMTentries + 1 ELSE 0

resolve_mapping(l) ==
  IF l \in cached
    THEN UNCHANGED cache
    ELSE \E E \in kSubset(Evictions, cached) :
           /\ cached' = (cached \ E) \cup {l}
           /\ cmt' = cmt - Evictions + 1

\* What the host sees of a read is the content of ppn[l], or a no-op.
Read(l) ==
  /\ Idle
  /\ resolve_mapping(l)
  /\ UNCHANGED <<flash, bm, maps, currentDataPage, stack, abort>>

\* A write at the end of a block collects before it takes the next one.
Write(l, d) ==
  /\ Idle
  /\ resolve_mapping(l)
  /\ LET pageThenWrite == <<[proc |-> "page"], [proc |-> "write", lpn |-> l, payload |-> d]>>
     IN  IF AtEnd THEN InsertEventsThen(pageThenWrite) ELSE stack' = pageThenWrite
  /\ UNCHANGED <<flash, bm, maps, currentDataPage, abort>>

\* The mapping is read after the collection, which may have moved the page.
FinishWrite ==
  /\ At("write")
  /\ CanProgram(flash, currentDataPage)
  /\ flash' = Replace(Program(flash, currentDataPage, top.payload), ppn[top.lpn])
  /\ ppn' = [ppn EXCEPT ![top.lpn] = currentDataPage]
  /\ reverse_trans_map' = [reverse_trans_map EXCEPT ![currentDataPage] = top.lpn]
  /\ Return
  /\ UNCHANGED <<bm, cache, currentDataPage, abort>>

\* evict_specific_page_from_cache takes the entry out of the cache, counts it
\* out, and then trim stores its own copy of the entry, still marked cached.
\* The write to reverse_trans_map[-1] falls outside the array.
Trim(l) ==
  /\ Idle
  /\ ppn[l] # NoPpn
  /\ flash' = Invalidate(flash, ppn[l])
  /\ ppn' = [ppn EXCEPT ![l] = NoPpn]
  /\ \/ l \in cached /\ Cardinality(cached) - cmt < MAX_UNDERCOUNT /\ cmt' = cmt - 1
     \/ l \notin cached /\ UNCHANGED cmt
  /\ UNCHANGED <<bm, reverse_trans_map, cached, currentDataPage, stack, abort>>

(***************************************************************************)
(* get_free_data_page and the get_page_block it calls.                     *)
(***************************************************************************)
NextPage ==
  /\ At("page")
  /\ ~AtEnd
  /\ currentDataPage' = <<currentDataPage[1], currentDataPage[2] + 1>>
  /\ Return
  /\ UNCHANGED <<flash, bm, maps, cache, abort>>

FreshBlock ==
  /\ At("page")
  /\ AtEnd
  /\ FreshBlockLeft(bm)
  /\ bm' = GetFreeBlock(bm, "DATA")
  /\ currentDataPage' = <<bm.fresh, 0>>
  /\ Return
  /\ UNCHANGED <<flash, maps, cache, abort>>

\* The flag keeps the collection from asking for another one, until a block
\* is taken.
CollectForLastBlock ==
  /\ At("page")
  /\ AtEnd
  /\ RunsLow(bm)
  /\ bm' = [bm EXCEPT !.out_of_blocks = TRUE]
  /\ InsertEventsThen(<<[proc |-> "take"]>> \o Tail(stack))
  /\ UNCHANGED <<flash, maps, cache, currentDataPage, abort>>

TakesFreeBlock ==
  \/ At("take")
  \/ At("page") /\ AtEnd /\ ~FreshBlockLeft(bm) /\ ~RunsLow(bm)

\* The block becomes the current one, whatever one a collection inside
\* get_page_block had begun to fill.
FreeBlock ==
  /\ TakesFreeBlock
  /\ bm.free_list # << >>
  /\ bm' = CountActive(TakeFree(bm), "DATA", 1)
  /\ currentDataPage' = <<Head(bm.free_list), 0>>
  /\ Return
  /\ UNCHANGED <<flash, maps, cache, abort>>

(***************************************************************************)
(* The second step of insert_events.  DFTL puts no block on invalid_list,  *)
(* so the first one finds nothing to do.                                   *)
(***************************************************************************)
LoopOn == top.num_to_erase # 0 /\ Collectable(top.it)

EndInsert ==
  /\ At("insert")
  /\ ~LoopOn
  /\ Return
  /\ UNCHANGED <<flash, bm, maps, cache, currentDataPage, abort>>

SkipVictim ==
  /\ At("insert")
  /\ LoopOn
  /\ top.it = bm.current_writing_block
  /\ \E b \in NextVictims(flash) : Become([top EXCEPT !.it = b, !.num_to_erase = @ - 1])
  /\ UNCHANGED <<flash, bm, maps, cache, currentDataPage, abort>>

StartCleanup ==
  /\ At("insert")
  /\ LoopOn
  /\ top.it # bm.current_writing_block
  /\ Call([proc |-> "cleanup", block |-> top.it, i |-> 0, invalidated_translation |-> << >>],
          [top EXCEPT !.proc = "erase"])
  /\ UNCHANGED <<flash, bm, maps, cache, currentDataPage, abort>>

\* The victim is erased and freed.
EraseVictim ==
  /\ At("erase")
  /\ CanErase(flash, top.it)
  /\ flash' = Erase(flash, {top.it})
  /\ bm' = [bm EXCEPT !.free_list = Append(bm.free_list, top.it)]
  /\ \E b \in NextVictims(flash') :
       Become([top EXCEPT !.proc = "insert", !.it = b, !.num_to_erase = @ - 1])
  /\ UNCHANGED <<maps, cache, currentDataPage, abort>>

(***************************************************************************)
(* cleanup_block.                                                          *)
(***************************************************************************)
OldPpn == <<top.block, top.i>>
InLoop == At("cleanup") /\ top.i < BLOCK_SIZE

\* Mutant: the loop does not advance over an INVALID page.
SkipPage_Stays ==
  /\ InLoop
  /\ flash.page[OldPpn] = "INVALID"
  /\ UNCHANGED vars

SkipPage ==
  /\ InLoop
  /\ flash.page[OldPpn] = "INVALID"
  /\ Become([top EXCEPT !.i = @ + 1])
  /\ UNCHANGED <<flash, bm, maps, cache, currentDataPage, abort>>

StartCopy ==
  /\ InLoop
  /\ flash.page[OldPpn] = "VALID"
  /\ Call([proc |-> "page"], [top EXCEPT !.proc = "copy"])
  /\ UNCHANGED <<flash, bm, maps, cache, currentDataPage, abort>>

\* Whose page p is.  An entry never written holds what new[] left there.
OwnerOf(p) == IF reverse_trans_map[p] = NoLpn THEN Lpns ELSE {reverse_trans_map[p]}

\* A map after its entries for DOMAIN new were set.
Updated(new, map) ==
  [k \in DOMAIN new \cup DOMAIN map |-> IF k \in DOMAIN new THEN new[k] ELSE map[k]]

\* Mutant: the write event carries no payload.
FinishCopy_NoPayload ==
  /\ At("copy")
  /\ CanProgram(flash, currentDataPage)
  /\ flash' = Replace(Program(flash, currentDataPage, flash.data[currentDataPage]), OldPpn)
  /\ \E l \in OwnerOf(OldPpn) :
       Become([top EXCEPT !.proc = "cleanup", !.i = @ + 1,
                          !.invalidated_translation = Updated([k \in {l} |-> currentDataPage], @)])
  /\ UNCHANGED <<bm, maps, cache, currentDataPage, abort>>

FinishCopy ==
  /\ At("copy")
  /\ CanProgram(flash, currentDataPage)
  /\ flash' = Replace(Program(flash, currentDataPage, flash.data[OldPpn]), OldPpn)
  /\ \E l \in OwnerOf(OldPpn) :
       Become([top EXCEPT !.proc = "cleanup", !.i = @ + 1,
                          !.invalidated_translation = Updated([k \in {l} |-> currentDataPage], @)])
  /\ UNCHANGED <<bm, maps, cache, currentDataPage, abort>>

\* Mutants: an entry already cached is counted again; the reverse map keeps
\* the pages' old places only.
FinishCleanup_CountsAll ==
  /\ At("cleanup")
  /\ top.i = BLOCK_SIZE
  /\ LET moved == top.invalidated_translation IN
       /\ ppn' = Updated(moved, ppn)
       /\ reverse_trans_map' = Updated(AntiFunction(moved), reverse_trans_map)
       /\ cached' = cached \cup DOMAIN moved
       /\ cmt' = cmt + Cardinality(DOMAIN moved)
  /\ Return
  /\ UNCHANGED <<flash, bm, currentDataPage, abort>>

FinishCleanup_NoReverse ==
  /\ At("cleanup")
  /\ top.i = BLOCK_SIZE
  /\ LET moved == top.invalidated_translation IN
       /\ ppn' = Updated(moved, ppn)
       /\ cached' = cached \cup DOMAIN moved
       /\ cmt' = cmt + Cardinality(DOMAIN moved \ cached)
  /\ Return
  /\ UNCHANGED <<flash, bm, reverse_trans_map, currentDataPage, abort>>

\* The mappings of all pages that were moved follow in one batch, and their
\* entries count as cached, over the limit if need be.
FinishCleanup ==
  /\ At("cleanup")
  /\ top.i = BLOCK_SIZE
  /\ LET moved == top.invalidated_translation IN
       /\ ppn' = Updated(moved, ppn)
       /\ reverse_trans_map' = Updated(AntiFunction(moved), reverse_trans_map)
       /\ cached' = cached \cup DOMAIN moved
       /\ cmt' = cmt + Cardinality(DOMAIN moved \ cached)
  /\ Return
  /\ UNCHANGED <<flash, bm, currentDataPage, abort>>

(***************************************************************************)
(* A failed assert ends the program: get_page_block finds no free block,   *)
(* the block to erase is worn out, cleanup_block meets an EMPTY page, or   *)
(* the page to program is not EMPTY.                                       *)
(***************************************************************************)
FailedAssert ==
  IF TakesFreeBlock /\ bm.free_list = << >> THEN "no_free_block"
  ELSE IF At("erase") /\ ~CanErase(flash, top.it) THEN "erase_failed"
  ELSE IF InLoop /\ flash.page[OldPpn] = "EMPTY" THEN "victim_page_empty"
  ELSE IF (At("copy") \/ At("write")) /\ ~CanProgram(flash, currentDataPage) THEN "page_not_empty"
  ELSE "none"

AssertFails ==
  /\ FailedAssert # "none"
  /\ abort' = FailedAssert
  /\ UNCHANGED <<flash, bm, maps, cache, currentDataPage, stack>>

Request ==
  \E l \in Lpns :
    \/ Read(l)
    \/ \E d \in Payloads : Write(l, d)
    \/ Trim(l)

Step ==
  \/ NextPage \/ FreshBlock \/ CollectForLastBlock \/ FreeBlock
  \/ EndInsert \/ SkipVictim \/ StartCleanup \/ EraseVictim
  \/ SkipPage \/ StartCopy \/ FinishCopy \/ FinishCleanup
  \/ FinishWrite \/ AssertFails

Next == Request \/ Step

Spec == Init /\ [][Next]_vars

\* One thread runs a request to its end.
FairSpec == Spec /\ WF_vars(Step)

(***************************************************************************)
(* Properties.                                                             *)
(***************************************************************************)
\* evict_page_from_cache asserts that the entry it evicts is cached.  It is
\* one as long as the counter never exceeds what is cached, through hits,
\* evictions, trims and the entries a nested collection loads.
EvictionFindsEntry == cmt <= Cardinality(cached)

\* Every request ends, in collections within collections too, or in an assert.
RequestsEnd == stack # << >> ~> (stack = << >> \/ ~Running)

Moves == {f \in Range(stack) : f.proc \in {"cleanup", "copy"}}

\* Where a logical page is while its mapping waits for the end of a cleanup.
PageOf(l) ==
  IF \E f \in Moves : l \in DOMAIN f.invalidated_translation
    THEN (CHOOSE f \in Moves : l \in DOMAIN f.invalidated_translation).invalidated_translation[l]
    ELSE ppn[l]

\* Between any two steps of a request the VALID pages are those the logical
\* pages are on, one each: none is lost, and none is kept for nobody.  The
\* reverse map, by which the next cleanup finds whose page it moves, agrees.
MappingExact ==
  /\ {PageOf(l) : l \in Lpns} \ {NoPpn} = {p \in Ppns : flash.page[p] = "VALID"}
  /\ \A l \in Lpns :
       PageOf(l) = ppn[l] /\ ppn[l] # NoPpn => reverse_trans_map[ppn[l]] = l

\* A free block is there once and wholly EMPTY; any other block the FTL wrote
\* to and left is full, or it would never be collected.
BlocksFreeOrFull ==
  /\ Cardinality(Range(bm.free_list)) = Len(bm.free_list)
  /\ \A b \in Blocks \ {bm.current_writing_block} :
       \/ b < bm.fresh /\ b \notin Range(bm.free_list) /\ \A o \in Offsets : flash.page[<<b, o>>] # "EMPTY"
       \/ (b < bm.fresh => b \in Range(bm.free_list)) /\ \A o \in Offsets : flash.page[<<b, o>>] = "EMPTY"

disk == [l \in Lpns |-> IF ppn[l] = NoPpn THEN NoData ELSE flash.data[ppn[l]]]

\* Each request does to the logical disk what it asks for, when it ends, and
\* the collections on the way do nothing to it.
RequestsMeetDisk ==
  [][/\ At("write") /\ Running' => disk' = [disk EXCEPT ![top.lpn] = top.payload]
     /\ stack # << >> /\ ~At("write") => disk' = disk
     /\ \A l \in Lpns :
          /\ Trim(l) => disk' = [disk EXCEPT ![l] = NoData]
          /\ Read(l) => disk' = disk]_vars
===============================================================================
