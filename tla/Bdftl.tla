--------------------------------- MODULE Bdftl ---------------------------------
(***************************************************************************)
(* BDFTL (bdftl_ftl.cpp): DFTL for the logical blocks written out of order *)
(* and a block mapping for the others.  A logical block is "optimal" while *)
(* its pages were written from the first one on; it then has one physical  *)
(* block.  The first write out of order converts it: its other pages are   *)
(* meant to enter trans_map, and the rest of its block is filled with      *)
(* pages of anyone.  Pages, cache and collections are those of Dftl.       *)
(*                                                                         *)
(* A conversion enters nothing in trans_map (it only replaces mappings     *)
(* that are there, and there are none): the pages are lost.  `lost' holds  *)
(* them.  Three more steps take the FTL out of what its maps can describe; *)
(* `spoiled' marks the first.                                              *)
(***************************************************************************)
EXTENDS Dftl

VARIABLES
  block_map,   \* BPage of each logical block
  trim_map,    \* the logical pages trimmed last, in any order
  inuseBlock,  \* the converted block being filled
  blockQueue,  \* the converted blocks to fill next
  stored,      \* history: what the host last wrote to a page, NoData after a trim
  lost,        \* history: the pages a conversion lost
  spoiled      \* history: a step moved or invalidated a page, or filled a block, of another

pool == <<inuseBlock, blockQueue>>
history == <<stored, lost, spoiled>>
bvars == <<block_map, trim_map, pool, history>>
allvars == <<vars, bvars>>

ASSUME WholeLogicalBlocks == NumLpns % BLOCK_SIZE = 0

Lbns == 0 .. (NumLpns \div BLOCK_SIZE) - 1
Lbn(l) == l \div BLOCK_SIZE
Off(l) == l % BLOCK_SIZE
LpnsOf(k) == {l \in Lpns : Lbn(l) = k}

UnmappedBlock == [pbn |-> NoBlock, nextPage |-> 0, optimal |-> TRUE]

\* "block" and "btake": get_page_block for a logical block's first page, before
\* and after its collection.  "first" and "bwrite": write, with the block or
\* page it asked for (NoPpn stands for currentDataPage).
BlockFrame == [proc : {"block", "btake"}, lbn : Lbns]
FirstFrame == [proc : {"first"}, lpn : Lpns, payload : Payloads]
BWriteFrame == [proc : {"bwrite"}, lpn : Lpns, payload : Payloads, page : Ppns \cup {NoPpn}]

BTypeOK ==
  /\ flash \in FlashType
  /\ bm \in BlockManagerType
  /\ ppn \in [Lpns -> Ppns \cup {NoPpn}]
  /\ cached \in SUBSET Lpns
  /\ currentDataPage \in Ppns \cup {NoPpn}
  /\ stack \in Seq(Frames \cup BlockFrame \cup FirstFrame \cup BWriteFrame)
  /\ block_map \in [Lbns -> [pbn : Blocks \cup {NoBlock}, nextPage : 0 .. BLOCK_SIZE,
                             optimal : BOOLEAN]]
  /\ trim_map \in [Lpns -> BOOLEAN]
  /\ inuseBlock \in Blocks \cup {NoBlock}
  /\ blockQueue \in Seq(Blocks)

\* trim_map is allocated and never initialised.
BInit ==
  /\ Init
  /\ block_map = [k \in Lbns |-> UnmappedBlock]
  /\ trim_map \in [Lpns -> BOOLEAN]
  /\ inuseBlock = NoBlock
  /\ blockQueue = << >>
  /\ stored = [l \in Lpns |-> NoData]
  /\ lost = {}
  /\ spoiled = FALSE

\* The blocks the block map names, each filled from its first page on.
BlocksOf == {block_map[k].pbn : k \in {j \in Lbns : block_map[j].optimal}} \ {NoBlock}

Store(l, d) ==
  /\ stored' = [stored EXCEPT ![l] = d]
  /\ lost' = lost \ {l}
-----------------------------------------------------------------------------
\* Mutant: the page map is not asked about a block that was converted.
PageRead_Block(l) ==
  LET m == block_map[Lbn(l)]
  IN  IF m.pbn # NoBlock THEN <<m.pbn, Off(l)>> ELSE ppn[l]

\* The page read serves, NoPpn for a no-op.
PageRead(l) ==
  LET m == block_map[Lbn(l)]
  IN  IF ~m.optimal THEN ppn[l]
      ELSE IF m.pbn # NoBlock THEN <<m.pbn, Off(l)>> ELSE NoPpn

\* A read of an optimal block changes nothing.
read(l) == ~block_map[Lbn(l)].optimal /\ Read(l) /\ UNCHANGED bvars

\* The page of an optimal block that is due next.
InOrder(l) ==
  LET m == block_map[Lbn(l)]
  IN  m.optimal /\ m.pbn # NoBlock /\ m.nextPage = Off(l)

NeedsBlock(l) ==
  LET m == block_map[Lbn(l)]
  IN  m.optimal /\ m.pbn = NoBlock /\ Off(l) = 0

\* write of the page due next, d at the place the block map gives it.
ProgramInOrder(l, d) ==
  LET p == <<block_map[Lbn(l)].pbn, Off(l)>>
  IN  /\ CanProgram(flash, p)
      /\ flash' = Program(flash, p, d)
      /\ block_map' = [block_map EXCEPT ![Lbn(l)].nextPage = @ + 1]
      /\ Store(l, d)

WriteInOrder(l, d) ==
  /\ Idle
  /\ InOrder(l)
  /\ ProgramInOrder(l, d)
  /\ trim_map' = [trim_map EXCEPT ![l] = FALSE]
  /\ UNCHANGED <<bm, maps, cache, currentDataPage, stack, abort, pool, spoiled>>

WriteFirst(l, d) ==
  /\ Idle
  /\ NeedsBlock(l)
  /\ stack' = <<[proc |-> "block", lbn |-> Lbn(l)],
                [proc |-> "first", lpn |-> l, payload |-> d]>>
  /\ trim_map' = [trim_map EXCEPT ![l] = FALSE]
  /\ UNCHANGED <<flash, bm, maps, cache, currentDataPage, abort, block_map, pool, history>>

FinishFirst ==
  /\ At("first")
  /\ ProgramInOrder(top.lpn, top.payload)
  /\ Return
  /\ UNCHANGED <<bm, maps, cache, currentDataPage, abort, trim_map, pool, spoiled>>

\* Dftl takes its next page from block b.
Filling(b) == ~AtEnd /\ currentDataPage[1] = b

\* get_next_page: the first EMPTY page of a block.
EmptyIn(b) == IF b = NoBlock THEN {} ELSE {o \in Offsets : flash.page[<<b, o>>] = "EMPTY"}
NextEmpty(b) == <<b, Min(EmptyIn(b))>>

\* get_free_biftl_page, with the pool as the conversion leaves it: a page of
\* the block in use, of the next one in the queue, or one of Dftl's.
get_free_biftl_page(inuse, queue, l, d) ==
  LET given(p) == <<[proc |-> "bwrite", lpn |-> l, payload |-> d, page |-> p]>>
  IN  \/ /\ EmptyIn(inuse) # {}
         /\ stack' = given(NextEmpty(inuse))
         /\ inuseBlock' = inuse /\ blockQueue' = queue
         /\ UNCHANGED abort
      \/ /\ inuse # NoBlock /\ EmptyIn(inuse) = {} /\ queue # << >>
         /\ inuseBlock' = Head(queue) /\ blockQueue' = Tail(queue)
         /\ IF EmptyIn(Head(queue)) = {}
              THEN abort' = "queued_block_full" /\ UNCHANGED stack
              ELSE stack' = given(NextEmpty(Head(queue))) /\ UNCHANGED abort
      \/ /\ EmptyIn(inuse) = {}
         /\ inuse = NoBlock \/ queue = << >>
         /\ inuseBlock' = NoBlock /\ blockQueue' = queue
         /\ LET pageThenWrite == <<[proc |-> "page"]>> \o given(NoPpn)
            IN  IF AtEnd THEN InsertEventsThen(pageThenWrite) ELSE stack' = pageThenWrite
         /\ UNCHANGED abort

\* The conversion looks at the states of the pages of block k, the number of
\* the logical block, and enters those that have a mapping already.
Entered(k) ==
  {i \in 0 .. block_map[k].nextPage - 1 :
     flash.page[<<k, i>>] = "VALID" /\ ppn[k * BLOCK_SIZE + i] # NoPpn}

Convert(k) ==
  LET pages == {k * BLOCK_SIZE + i : i \in Entered(k)}
      place == [l \in pages |-> <<block_map[k].pbn, Off(l)>>]
  IN  /\ ppn' = Updated(place, ppn)
      /\ reverse_trans_map' = Updated(AntiFunction(place), reverse_trans_map)
      /\ cached' = cached \cup pages
      /\ cmt' = cmt + Cardinality(pages)
      /\ lost' = lost \cup {l \in LpnsOf(k) \ pages : stored[l] # NoData}

\* write through the page map, up to the page it is given.
WriteByPage(l, d) ==
  /\ Idle
  /\ ~InOrder(l) /\ ~NeedsBlock(l)
  /\ LET m == block_map[Lbn(l)]
         converts == m.optimal /\ m.pbn # NoBlock
         joins == converts /\ flash.pages_valid[m.pbn] # BLOCK_SIZE
     IN  /\ IF converts THEN Convert(Lbn(l)) ELSE UNCHANGED <<maps, cache, lost>>
         /\ get_free_biftl_page(
              IF joins /\ inuseBlock = NoBlock THEN m.pbn ELSE inuseBlock,
              IF joins /\ inuseBlock # NoBlock THEN Append(blockQueue, m.pbn) ELSE blockQueue,
              l, d)
  /\ block_map' = [block_map EXCEPT ![Lbn(l)].optimal = FALSE]
  /\ trim_map' = [trim_map EXCEPT ![l] = FALSE]
  /\ UNCHANGED <<flash, bm, currentDataPage, stored, spoiled>>

\* The block in use may have been collected: it is free then, or has another
\* user, the block map or the pages Dftl hands out.
FinishWriteByPage ==
  /\ At("bwrite")
  /\ LET p == IF top.page = NoPpn THEN currentDataPage ELSE top.page IN
       /\ CanProgram(flash, p)
       /\ resolve_mapping(top.lpn)
       /\ flash' = Replace(Program(flash, p, top.payload), ppn[top.lpn])
       /\ ppn' = [ppn EXCEPT ![top.lpn] = p]
       /\ reverse_trans_map' = [reverse_trans_map EXCEPT ![p] = top.lpn]
       /\ spoiled' = (spoiled \/ p[1] \in Range(bm.free_list) \cup BlocksOf
                              \/ (top.page # NoPpn /\ Filling(p[1])))
  /\ Store(top.lpn, top.payload)
  /\ Return
  /\ UNCHANGED <<bm, currentDataPage, abort, block_map, trim_map, pool>>
-----------------------------------------------------------------------------
\* Where trim looks for a page of an optimal block: without a block, pbn + off
\* wraps around 2^32 (the number of pages is a power of two).
TrimmedPage(l) ==
  LET m == block_map[Lbn(l)]
  IN  IF m.pbn # NoBlock THEN <<m.pbn, Off(l)>>
      ELSE IF Off(l) = 0 THEN <<NUMBER_OF_ADDRESSABLE_BLOCKS - 1, BLOCK_SIZE - 1>>
      ELSE <<0, Off(l) - 1>>

\* Mutant: the block map still names the block that was erased.
ForgetBlock_Keeps(k) == UNCHANGED block_map

ForgetBlock(k) == block_map' = [block_map EXCEPT ![k] = UnmappedBlock]

\* trim in an optimal block: the last page takes the block with it.
TrimOptimal(l) ==
  LET p == TrimmedPage(l)
      f == Invalidate(flash, p)
  IN  /\ Idle
      /\ block_map[Lbn(l)].optimal
      /\ IF f.pages_invalid[p[1]] < BLOCK_SIZE
           THEN flash' = f /\ UNCHANGED <<bm, block_map, abort>>
           ELSE /\ ForgetBlock(Lbn(l))
                /\ IF CanErase(f, p[1])
                     THEN /\ flash' = Erase(f, {p[1]})
                          /\ bm' = EraseAndInvalidate(bm, p[1], "DATA")
                          /\ UNCHANGED abort
                     ELSE flash' = f /\ abort' = "erase_failed" /\ UNCHANGED bm
      /\ trim_map' = [trim_map EXCEPT ![l] = TRUE]
      /\ Store(l, NoData)
      /\ spoiled' = (spoiled \/ (block_map[Lbn(l)].pbn = NoBlock /\ flash' # flash))
      /\ UNCHANGED <<maps, cache, currentDataPage, stack, pool>>

\* Mutant: one trimmed page is enough.
AllTrimmed_One(k) == \E l \in LpnsOf(k) : trim_map'[l]

AllTrimmed(k) == \A l \in LpnsOf(k) : trim_map'[l]

\* trim in the page map; a block whose pages are all trimmed is optimal again.
TrimByPage(l) ==
  /\ ~block_map[Lbn(l)].optimal
  /\ \/ Trim(l)
     \/ Idle /\ ppn[l] = NoPpn /\ UNCHANGED vars
  /\ trim_map' = [trim_map EXCEPT ![l] = TRUE]
  /\ IF AllTrimmed(Lbn(l)) THEN ForgetBlock(Lbn(l)) ELSE UNCHANGED block_map
  /\ Store(l, NoData)
  /\ UNCHANGED <<pool, spoiled>>
-----------------------------------------------------------------------------
\* get_free_block for the first page of a logical block: as for Dftl, but the
\* block goes to the block map.
GiveBlock(b) ==
  /\ block_map' = [block_map EXCEPT ![top.lbn].pbn = b]
  /\ Return
  /\ UNCHANGED <<flash, maps, cache, currentDataPage, abort, trim_map, pool, history>>

FreshForBlock ==
  /\ At("block")
  /\ FreshBlockLeft(bm)
  /\ bm' = GetFreeBlock(bm, "DATA")
  /\ GiveBlock(bm.fresh)

CollectForBlock ==
  /\ At("block")
  /\ RunsLow(bm)
  /\ bm' = [bm EXCEPT !.out_of_blocks = TRUE]
  /\ InsertEventsThen(<<[top EXCEPT !.proc = "btake"]>> \o Tail(stack))
  /\ UNCHANGED <<flash, maps, cache, currentDataPage, abort, bvars>>

TakesFreeForBlock == At("btake") \/ (At("block") /\ ~FreshBlockLeft(bm) /\ ~RunsLow(bm))

FreeForBlock ==
  /\ TakesFreeForBlock
  /\ bm.free_list # << >>
  /\ bm' = CountActive(TakeFree(bm), "DATA", 1)
  /\ GiveBlock(Head(bm.free_list))

\* The pages cleanup_block can attribute: those of the page map.
Owned(p) == \E l \in Lpns : PageOf(l) = p

\* cleanup_block also moves pages of the block map or of nobody, for whichever
\* logical page reverse_trans_map holds; and collections may nest.
Collect ==
  \/ NextPage /\ UNCHANGED bvars
  \/ FreshBlock /\ UNCHANGED bvars
  \/ CollectForLastBlock /\ UNCHANGED bvars
  \/ FreeBlock /\ UNCHANGED bvars
  \/ EndInsert /\ UNCHANGED bvars
  \/ SkipVictim /\ UNCHANGED bvars
  \/ /\ StartCleanup
     /\ spoiled' = (spoiled \/ Moves # {})
     /\ UNCHANGED <<block_map, trim_map, pool, stored, lost>>
  \/ EraseVictim /\ UNCHANGED bvars
  \/ SkipPage /\ UNCHANGED bvars
  \/ /\ StartCopy
     /\ spoiled' = (spoiled \/ ~Owned(OldPpn))
     /\ UNCHANGED <<block_map, trim_map, pool, stored, lost>>
  \/ FinishCopy /\ UNCHANGED bvars
  \/ FinishCleanup /\ UNCHANGED bvars

\* The asserts of Dftl, and the same ones met on BDFTL's own paths.
AssertFailsHere ==
  \/ AssertFails /\ UNCHANGED bvars
  \/ /\ TakesFreeForBlock /\ bm.free_list = << >>
     /\ abort' = "no_free_block"
     /\ UNCHANGED <<flash, bm, maps, cache, currentDataPage, stack, bvars>>
  \/ /\ \/ \E l \in Lpns : Idle /\ InOrder(l) /\ ~CanProgram(flash, PageRead(l))
        \/ At("first") /\ ~CanProgram(flash, PageRead(top.lpn))
        \/ /\ At("bwrite")
           /\ ~CanProgram(flash, IF top.page = NoPpn THEN currentDataPage ELSE top.page)
     /\ abort' = "page_not_empty"
     /\ UNCHANGED <<flash, bm, maps, cache, currentDataPage, stack, bvars>>

BNext ==
  \/ \E l \in Lpns : read(l) \/ TrimOptimal(l) \/ TrimByPage(l)
  \/ \E l \in Lpns, d \in Payloads : WriteInOrder(l, d) \/ WriteFirst(l, d) \/ WriteByPage(l, d)
  \/ FinishFirst \/ FinishWriteByPage
  \/ FreshForBlock \/ CollectForBlock \/ FreeForBlock
  \/ Collect
  \/ AssertFailsHere

BSpec == BInit /\ [][BNext]_allvars
-----------------------------------------------------------------------------
\* Until the first spoiling step a logical block has its pages in one map only:
\* while it is optimal, trans_map has nothing of it (so that a conversion finds
\* nothing to enter), whatever was converted, trimmed and written again before.
OptimalNotInPageMap ==
  ~spoiled => \A l \in Lpns : block_map[Lbn(l)].optimal => PageOf(l) = NoPpn

\* Until then no block has two users: a block of the block
\* map is not free, not the one Dftl fills and holds no page of the page map,
\* and no two logical blocks share one.
BlockMapExclusive ==
  ~spoiled =>
    /\ BlocksOf \cap Range(bm.free_list) = {}
    /\ ~AtEnd => currentDataPage[1] \notin BlocksOf
    /\ \A l \in Lpns : PageOf(l) # NoPpn => PageOf(l)[1] \notin BlocksOf
    /\ \A j, k \in Lbns :
         block_map[j].optimal /\ block_map[k].optimal /\ block_map[j].pbn = block_map[k].pbn
           => j = k \/ block_map[j].pbn = NoBlock

Intact(l) ==
  LET p == PageRead(l)
  IN  stored[l] # NoData => p # NoPpn /\ flash.page[p] = "VALID" /\ flash.data[p] = stored[l]

\* Until then a page that no conversion lost is read back as it was written,
\* between the requests, through collections and further conversions.
UnlostPagesIntact == ~spoiled /\ stack = << >> => \A l \in Lpns \ lost : Intact(l)

\* write (bdftl_ftl.cpp): "3. Write mappings to trans_map", so that a block
\* that is converted keeps its pages.
ConversionKeepsPages == ~spoiled /\ stack = << >> => \A l \in Lpns : Intact(l)
===============================================================================
