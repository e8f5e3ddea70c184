------------------------- MODULE BlockManager_proofs -------------------------
(***************************************************************************)
(* Proofs about BlockManager for every device and every client: no block   *)
(* is lost or shared, what is handed out is erased, the counters are       *)
(* exact, and get_page_block gives up last.                                *)
(***************************************************************************)
EXTENDS BlockManager, FtlLemmas

---------------------------------------------------------------------------
(* The client.                                                             *)

\* Programming the next page of a block changes that page only.
LEMMA NextPageProgrammed ==
  ASSUME NEW f \in FlashType, NEW b \in Blocks, HasFreePage(f, b), NEW d \in Payloads
  PROVE  /\ Program(f, FreePage(f, b), d) \in FlashType
         /\ \A p \in Ppns :
              Program(f, FreePage(f, b), d).page[p]
                = IF p = FreePage(f, b) THEN "VALID" ELSE f.page[p]
  <1>. DEFINE q == FreePage(f, b)
  <1>1. q \in Ppns /\ q[1] = b
    BY GeometryAssumption DEF FreePage, HasFreePage, FlashType, Ppns, Offsets
  <1>2. /\ [f.page EXCEPT ![q] = "VALID"] \in [Ppns -> PageStates]
        /\ [f.data EXCEPT ![q] = d] \in [Ppns -> Contents]
        /\ [f.pages_valid EXCEPT ![q[1]] = f.pages_valid[q[1]] + 1] \in [Blocks -> Nat]
    BY <1>1 DEF FlashType, PageStates, Contents
  <1>3. Program(f, q, d).page = [f.page EXCEPT ![q] = "VALID"]
    BY DEF Program, FlashType
  <1>4. Program(f, q, d) \in FlashType
    BY <1>2 DEF Program, FlashType
  <1>. QED
    BY <1>3, <1>4 DEF FlashType

DataHeld == {b \in Blocks : held[b] = "DATA"}
LogHeld == {b \in Blocks : held[b] = "LOG"}

\* A block that becomes held, or is no longer, counts one.
LEMMA HeldCount ==
  ASSUME NEW S \in SUBSET Blocks, NEW b
  PROVE  /\ Cardinality(S) \in Nat
         /\ b \notin S => Cardinality(S \cup {b}) = Cardinality(S) + 1
         /\ b \in S => Cardinality(S \ {b}) = Cardinality(S) - 1
  <1>1. IsFiniteSet(S) /\ Cardinality(S) \in Nat
    BY BlocksFinite, FS_Subset, FS_CardinalityType
  <1>2. b \notin S => Cardinality(S \cup {b}) = Cardinality(S) + 1
    BY <1>1, FS_AddElement
  <1>3. b \in S => Cardinality(S \ {b}) = Cardinality(S) - 1
    BY <1>1, FS_RemoveElement
  <1>. QED
    BY <1>1, <1>2, <1>3

---------------------------------------------------------------------------
(* The inductive invariant: the checked invariants, and that out_of_blocks *)
(* is never set, so that the last block is never taken without an attempt  *)
(* to erase.                                                               *)

IInv ==
  /\ TypeOK
  /\ BlocksAccountedFor
  /\ FreeBlocksErased
  /\ CountersMatchHeldBlocks
  /\ GivesUpOnlyWhenAllHeld
  /\ ~bm.out_of_blocks

Taken == {b \in Blocks : held[b] \in BlockTypes}

LEMMA InvListsSound == IInv => ListsSound(bm)
  <1>. SUFFICES ASSUME IInv
                PROVE  ListsSound(bm)
    OBVIOUS
  <1>1. /\ bm \in BlockManagerType
        /\ bm.fresh \in Nat
        /\ Members(bm.free_list) \subseteq Blocks
        /\ Members(bm.invalid_list) \subseteq Blocks
    BY ListMembers, GeometryAssumption DEF IInv, TypeOK, BlockManagerType
  <1>2. ASSUME NEW b \in Members(bm.free_list) \cup Members(bm.invalid_list)
        PROVE  b < bm.fresh
    <2>1. b \notin bm.fresh .. NUMBER_OF_ADDRESSABLE_BLOCKS - 1
      BY <1>2 DEF IInv, BlocksAccountedFor
    <2>. QED
      BY <1>1, <1>2, <2>1, GeometryAssumption DEF Blocks
  <1>. QED
    BY <1>1, <1>2 DEF ListsSound, IInv, BlocksAccountedFor

\* At first no block was handed out and both lists are empty.
THEOREM InitInv == Init => IInv
  <1>. SUFFICES ASSUME Init
                PROVE  IInv
    OBVIOUS
  <1>1. /\ bm.fresh = 0 /\ bm.free_list = << >> /\ bm.invalid_list = << >>
        /\ bm.data_active = 0 /\ bm.log_active = 0 /\ bm.out_of_blocks = FALSE
    BY DEF Init, BlockManagerInit
  <1>2. TypeOK
    BY GeometryAssumption DEF Init, TypeOK, FlashInit, FlashType, BlockManagerInit,
       BlockManagerType, PageStates, Contents, Aborts
  <1>3. Members(<< >>) = {} /\ NoRepeat(<< >>)
    BY DEF Members, NoRepeat
  <1>4. \A b \in Blocks : held[b] \notin BlockTypes
    BY DEF Init, BlockTypes
  <1>5. BlocksAccountedFor
    BY <1>1, <1>3, <1>4 DEF BlocksAccountedFor, Blocks
  <1>6. FreeBlocksErased
    BY DEF FreeBlocksErased, Init, FlashInit
  <1>7. CountersMatchHeldBlocks
    <2>1. {b \in Blocks : held[b] = "DATA"} = {} /\ {b \in Blocks : held[b] = "LOG"} = {}
      BY <1>4 DEF BlockTypes
    <2>. QED
      BY <1>1, <2>1, FS_EmptySet DEF CountersMatchHeldBlocks
  <1>8. GivesUpOnlyWhenAllHeld
    BY DEF GivesUpOnlyWhenAllHeld, Init
  <1>. QED
    BY <1>1, <1>2, <1>5, <1>6, <1>7, <1>8 DEF IInv

\* get_free_block: one more block is held, and it was in no other hands.
LEMMA GetFreeBlockStep ==
  ASSUME IInv, NEW type \in BlockTypes, get_free_block(type)
  PROVE  IInv'
  <1>. DEFINE n == NextBlock(bm)
              g == GetPageBlock(bm)
  <1>1. ListsSound(bm) /\ bm \in BlockManagerType /\ flash \in FlashType
    BY InvListsSound DEF IInv, TypeOK
  <1>2. /\ ~ServiceFails(bm, flash) /\ ~OutOfBlocks(bm)
        /\ bm' = CountActive(g, type, 1)
        /\ flash' = ServicedFlash(bm, flash)
        /\ held' = [held EXCEPT ![n] = type]
        /\ abort' = abort /\ abort = "none"
    BY DEF get_free_block, GetFreeBlock, Running
  <1>3. /\ ListsSound(g)
        /\ n \in Blocks
        /\ Members(g.invalid_list) = Members(bm.invalid_list) \ Reclaimed(bm)
        /\ Members(g.free_list) = (Members(bm.free_list) \cup Reclaimed(bm)) \ {n}
        /\ \/ n = bm.fresh /\ g.fresh = bm.fresh + 1
           \/ n \in Members(bm.free_list) \cup Reclaimed(bm) /\ g.fresh = bm.fresh
        /\ g.data_active = bm.data_active
        /\ g.log_active = bm.log_active
    BY <1>1, <1>2, PageBlockEffect
  <1>4. /\ bm' \in BlockManagerType
        /\ bm'.fresh = g.fresh
        /\ bm'.free_list = g.free_list
        /\ bm'.invalid_list = g.invalid_list
        /\ bm'.out_of_blocks = g.out_of_blocks
        /\ bm'.data_active = g.data_active + IF type = "DATA" THEN 1 ELSE 0
        /\ bm'.log_active = g.log_active + IF type = "LOG" THEN 1 ELSE 0
    BY <1>2, <1>3, CountActiveEffect DEF ListsSound
  <1>5. /\ Reclaimed(bm) \subseteq Members(bm.invalid_list)
        /\ flash' \in FlashType
        /\ \A p \in Ppns :
             flash'.page[p] = IF p[1] \in Reclaimed(bm) THEN "EMPTY" ELSE flash.page[p]
    BY <1>1, <1>2, ServicedEffect
  <1>6. /\ bm.fresh \in 0 .. NUMBER_OF_ADDRESSABLE_BLOCKS
        /\ held \in [Blocks -> BlockTypes \cup {"none"}]
    BY DEF IInv, TypeOK, BlockManagerType
  <1>7. held[n] = "none"
    <2>1. n \notin Taken
      BY <1>3, <1>5, <1>6, GeometryAssumption DEF IInv, BlocksAccountedFor, Taken, Blocks
    <2>. QED
      BY <1>3, <1>6, <2>1 DEF Taken
  <1>8. TypeOK'
    BY <1>2, <1>3, <1>4, <1>5, <1>6 DEF TypeOK, IInv
  <1>9. BlocksAccountedFor'
    <2>1. Taken' = Taken \cup {n}
      BY <1>2, <1>3, <1>6 DEF Taken
    <2>2. \/ bm'.fresh .. NUMBER_OF_ADDRESSABLE_BLOCKS - 1
               = (bm.fresh .. NUMBER_OF_ADDRESSABLE_BLOCKS - 1) \ {n} /\ n = bm.fresh
          \/ bm'.fresh = bm.fresh /\ n \in Members(bm.free_list) \cup Members(bm.invalid_list)
      BY <1>3, <1>4, <1>5, <1>6, GeometryAssumption
    <2>3. n = bm.fresh => n \in bm.fresh .. NUMBER_OF_ADDRESSABLE_BLOCKS - 1
      BY <1>3, <1>6 DEF Blocks
    <2>4. NoRepeat(bm'.free_list) /\ NoRepeat(bm'.invalid_list)
      BY <1>3, <1>4 DEF ListsSound
    <2>. QED
      BY <1>3, <1>4, <1>5, <2>1, <2>2, <2>3, <2>4 DEF BlocksAccountedFor, IInv, Taken
  <1>10. FreeBlocksErased'
    <2>. SUFFICES ASSUME NEW p \in Ppns,
                         p[1] >= bm'.fresh \/ p[1] \in Members(bm'.free_list)
                  PROVE  flash'.page[p] = "EMPTY"
      BY DEF FreeBlocksErased
    <2>1. p[1] \in Blocks
      BY DEF Ppns
    <2>2. \/ p[1] >= bm.fresh
          \/ p[1] \in Members(bm.free_list)
          \/ p[1] \in Reclaimed(bm)
      BY <1>3, <1>4, <1>6, <2>1 DEF Blocks
    <2>. QED
      BY <1>5, <2>2 DEF IInv, FreeBlocksErased
  <1>11. CountersMatchHeldBlocks'
    <2>. SUFFICES /\ bm'.data_active = Cardinality(DataHeld')
                  /\ bm'.log_active = Cardinality(LogHeld')
      BY DEF CountersMatchHeldBlocks, DataHeld, LogHeld
    <2>0. /\ bm.data_active = Cardinality(DataHeld)
          /\ bm.log_active = Cardinality(LogHeld)
          /\ bm.data_active \in Int /\ bm.log_active \in Int
      BY DEF IInv, CountersMatchHeldBlocks, DataHeld, LogHeld, TypeOK, BlockManagerType
    <2>1. CASE type = "DATA"
      <3>1. DataHeld' = DataHeld \cup {n} /\ n \notin DataHeld /\ LogHeld' = LogHeld
        BY <1>2, <1>3, <1>6, <1>7, <2>1 DEF DataHeld, LogHeld
      <3>2. Cardinality(DataHeld') = Cardinality(DataHeld) + 1
        BY <3>1, HeldCount DEF DataHeld
      <3>. QED
        BY <1>3, <1>4, <2>1, <2>0, <3>1, <3>2
    <2>2. CASE type = "LOG"
      <3>1. LogHeld' = LogHeld \cup {n} /\ n \notin LogHeld /\ DataHeld' = DataHeld
        BY <1>2, <1>3, <1>6, <1>7, <2>2 DEF DataHeld, LogHeld
      <3>2. Cardinality(LogHeld') = Cardinality(LogHeld) + 1
        BY <3>1, HeldCount DEF LogHeld
      <3>. QED
        BY <1>3, <1>4, <2>2, <2>0, <3>1, <3>2
    <2>. QED
      BY <2>1, <2>2 DEF BlockTypes
  <1>12. GivesUpOnlyWhenAllHeld' /\ ~bm'.out_of_blocks
    BY <1>2, <1>3, <1>4 DEF GivesUpOnlyWhenAllHeld, ListsSound
  <1>. QED
    BY <1>8, <1>9, <1>10, <1>11, <1>12 DEF IInv

\* insert_events: blocks move from one list to the other, erased.
LEMMA InsertEventsStep ==
  ASSUME IInv, ~InsertEventsFails(bm, flash), bm' = InsertEvents(bm),
         flash' = InsertEventsFlash(bm, flash), UNCHANGED <<held, abort>>
  PROVE  IInv'
  <1>1. /\ ListsSound(bm')
        /\ ErasedSet(bm) \subseteq Members(bm.invalid_list)
        /\ Members(bm'.free_list) = Members(bm.free_list) \cup ErasedSet(bm)
        /\ Members(bm'.invalid_list) = Members(bm.invalid_list) \ ErasedSet(bm)
        /\ bm'.fresh = bm.fresh
        /\ bm'.data_active = bm.data_active
        /\ bm'.log_active = bm.log_active
    BY InvListsSound, InsertEventsEffect
  <1>2. /\ flash' \in FlashType
        /\ \A p \in Ppns :
             flash'.page[p] = IF p[1] \in ErasedSet(bm) THEN "EMPTY" ELSE flash.page[p]
    <2>1. ErasedSet(bm) \in SUBSET Blocks
      BY <1>1, ListMembers DEF IInv, TypeOK, BlockManagerType
    <2>2. \A b \in ErasedSet(bm) : CanErase(flash, b)
      BY DEF InsertEventsFails
    <2>3. flash' = Erase(flash, ErasedSet(bm))
      BY DEF InsertEventsFlash
    <2>. QED
      BY <2>1, <2>2, <2>3, EraseEffect DEF IInv, TypeOK
  <1>3. TypeOK'
    BY <1>1, <1>2 DEF IInv, TypeOK, ListsSound
  <1>4. BlocksAccountedFor'
    BY <1>1 DEF IInv, BlocksAccountedFor, ListsSound
  <1>5. FreeBlocksErased'
    BY <1>1, <1>2 DEF IInv, FreeBlocksErased
  <1>6. CountersMatchHeldBlocks' /\ GivesUpOnlyWhenAllHeld' /\ ~bm'.out_of_blocks
    BY <1>1 DEF IInv, CountersMatchHeldBlocks, GivesUpOnlyWhenAllHeld, ListsSound
  <1>. QED
    BY <1>3, <1>4, <1>5, <1>6 DEF IInv

\* The end of the program.
LEMMA FailStep ==
  ASSUME IInv, NEW site \in Aborts, Fail(site),
         site = "no_free_block" => \A b \in Blocks : held[b] \in BlockTypes
  PROVE  IInv'
  <1>1. flash' = flash /\ bm' = bm /\ held' = held /\ abort' = site
    BY DEF Fail
  <1>. QED
    BY <1>1 DEF IInv, TypeOK, BlocksAccountedFor, FreeBlocksErased, CountersMatchHeldBlocks,
                GivesUpOnlyWhenAllHeld

\* When nothing is left to hand out after insert_events had its chance, the
\* invalid list is empty: with a block in it more than GC_PERCENT of the
\* blocks count as used, since the list and the blocks held are all there is.
LEMMA NothingLeft ==
  ASSUME IInv, OutOfBlocks(bm)
  PROVE  \A b \in Blocks : held[b] \in BlockTypes
  <1>. DEFINE N == NUMBER_OF_ADDRESSABLE_BLOCKS
              l == bm.invalid_list
  <1>1. /\ bm \in BlockManagerType
        /\ bm.free_list \in Seq(Blocks)
        /\ l \in Seq(Blocks)
        /\ bm.fresh \in 0 .. N
        /\ bm.data_active \in Int /\ bm.log_active \in Int
        /\ held \in [Blocks -> BlockTypes \cup {"none"}]
        /\ N \in Nat \ {0} /\ GC_PERCENT \in Nat /\ NUM_TO_ERASE \in Nat
    BY GeometryAssumption, BlockListsAssumption DEF IInv, TypeOK, BlockManagerType
  <1>2. ~FreshBlockLeft(bm) /\ bm.fresh = N /\ Serviced(bm).free_list = << >>
    BY <1>1 DEF OutOfBlocks, FreshBlockLeft
  <1>3. RunsLow(bm) /\ bm.free_list \o ErasedBlocks(bm) = << >>
    <2>1. CASE RunsLow(bm)
      BY <1>1, <1>2, <2>1 DEF Serviced, InsertEvents, BlockManagerType
    <2>2. CASE ~RunsLow(bm)
      <3>1. bm.free_list = << >>
        BY <1>2, <2>2 DEF Serviced
      <3>2. Len(bm.free_list) = 0
        BY <3>1
      <3>. QED
        BY <1>2, <2>2, <3>2 DEF RunsLow, IInv
    <2>. QED
      BY <2>1, <2>2
  <1>4. Len(bm.free_list) = 0 /\ bm.free_list = << >> /\ NumErased(bm) = 0
    <2>1. Len(bm.free_list \o ErasedBlocks(bm)) = 0
      BY <1>3
    <2>2. /\ ErasedBlocks(bm) \in Seq(Blocks)
          /\ Len(ErasedBlocks(bm)) = NumErased(bm)
          /\ NumErased(bm) \in 0 .. Len(l)
      BY <1>1, ErasedType
    <2>3. Len(bm.free_list) + NumErased(bm) = 0 /\ Len(l) \in Nat
      BY <1>1, <2>1, <2>2
    <2>. QED
      BY <1>1, <2>2, <2>3
  <1>5. Len(l) = Cardinality(Members(l)) /\ IsFiniteSet(Members(l)) /\ Len(l) \in Nat
    BY <1>1, CountedList DEF IInv, BlocksAccountedFor
  <1>6. bm.data_active + bm.log_active + Len(l) = N
    <2>1. /\ IsFiniteSet(DataHeld) /\ IsFiniteSet(LogHeld)
          /\ Cardinality(DataHeld) \in Nat /\ Cardinality(LogHeld) \in Nat
      BY BlocksFinite, FS_Subset, FS_CardinalityType DEF DataHeld, LogHeld
    <2>2. /\ bm.data_active = Cardinality(DataHeld)
          /\ bm.log_active = Cardinality(LogHeld)
      BY DEF IInv, CountersMatchHeldBlocks, DataHeld, LogHeld
    <2>3. DataHeld \cap LogHeld = {} /\ Taken = DataHeld \cup LogHeld
      BY DEF DataHeld, LogHeld, Taken, BlockTypes
    <2>4. Members(bm.free_list) = {} /\ bm.fresh .. N - 1 = {}
      BY <1>1, <1>2, <1>4 DEF Members
    <2>5. /\ Members(l) \cap Taken = {}
          /\ Members(l) \cup Taken = Blocks
      BY <2>4 DEF IInv, BlocksAccountedFor, Taken
    <2>6. IsFiniteSet(Taken) /\ Cardinality(Taken) = bm.data_active + bm.log_active
      <3>1. /\ IsFiniteSet(DataHeld \cup LogHeld)
            /\ Cardinality(DataHeld \cup LogHeld) = Cardinality(DataHeld) + Cardinality(LogHeld)
        BY <2>1, <2>3, DisjointUnion
      <3>. QED
        BY <2>2, <2>3, <3>1
    <2>7. Cardinality(Members(l) \cup Taken) = Cardinality(Members(l)) + Cardinality(Taken)
      BY <1>5, <2>5, <2>6, DisjointUnion
    <2>8. N = Len(l) + (bm.data_active + bm.log_active)
      BY <1>5, <2>5, <2>6, <2>7, BlocksFinite
    <2>. QED
      BY <1>1, <1>5, <2>8
  <1>7. EraseDue(bm)
    <2>1. BlocksUsed(bm) = N
      BY <1>1, <1>4, <1>5, <1>6 DEF BlocksUsed
    <2>2. GC_PERCENT * N < 100 * N
      BY <1>1, ReclaimAssumption
    <2>. QED
      BY <1>1, <2>1, <2>2 DEF EraseDue
  <1>8. Len(l) = 0
    BY <1>1, <1>4, <1>5, <1>7, ReclaimAssumption DEF NumErased
  <1>9. Members(l) = {} /\ Members(bm.free_list) = {}
    BY <1>4, <1>8 DEF Members
  <1>10. bm.fresh .. N - 1 = {}
    BY <1>1, <1>2
  <1>. QED
    BY <1>9, <1>10 DEF IInv, BlocksAccountedFor

\* A block the client gives up counts one less for its type.
LEMMA GivenUpCount ==
  ASSUME IInv, NEW b \in Blocks, held[b] \in BlockTypes,
         held' = [held EXCEPT ![b] = "none"],
         bm'.data_active = bm.data_active + IF held[b] = "DATA" THEN -1 ELSE 0,
         bm'.log_active = bm.log_active + IF held[b] = "LOG" THEN -1 ELSE 0
  PROVE  CountersMatchHeldBlocks'
  <1>. SUFFICES /\ bm'.data_active = Cardinality(DataHeld')
                /\ bm'.log_active = Cardinality(LogHeld')
    BY DEF CountersMatchHeldBlocks, DataHeld, LogHeld
  <1>1. /\ bm.data_active = Cardinality(DataHeld)
        /\ bm.log_active = Cardinality(LogHeld)
        /\ bm.data_active \in Int /\ bm.log_active \in Int
        /\ held \in [Blocks -> BlockTypes \cup {"none"}]
    BY DEF IInv, CountersMatchHeldBlocks, DataHeld, LogHeld, TypeOK, BlockManagerType
  <1>2. CASE held[b] = "DATA"
    <2>1. DataHeld' = DataHeld \ {b} /\ b \in DataHeld /\ LogHeld' = LogHeld
      BY <1>1, <1>2 DEF DataHeld, LogHeld
    <2>2. Cardinality(DataHeld') = Cardinality(DataHeld) - 1
      BY <2>1, HeldCount DEF DataHeld
    <2>. QED
      BY <1>1, <1>2, <2>1, <2>2
  <1>3. CASE held[b] = "LOG"
    <2>1. LogHeld' = LogHeld \ {b} /\ b \in LogHeld /\ DataHeld' = DataHeld
      BY <1>1, <1>3 DEF DataHeld, LogHeld
    <2>2. Cardinality(LogHeld') = Cardinality(LogHeld) - 1
      BY <2>1, HeldCount DEF LogHeld
    <2>. QED
      BY <1>1, <1>3, <2>1, <2>2
  <1>. QED
    BY <1>2, <1>3 DEF BlockTypes

\* invalidate: the block goes to the end of invalid_list.
LEMMA InvalidateStep ==
  ASSUME IInv, NEW b \in Blocks, invalidate(b)
  PROVE  IInv'
  <1>. DEFINE m == [bm EXCEPT !.invalid_list = Append(bm.invalid_list, b)]
  <1>1. /\ held[b] \in BlockTypes
        /\ bm' = CountActive(m, held[b], -1)
        /\ held' = [held EXCEPT ![b] = "none"]
        /\ flash' = flash /\ abort' = abort /\ abort = "none"
    BY DEF invalidate, InvalidateBlock, Running
  <1>2. /\ bm \in BlockManagerType
        /\ bm.free_list \in Seq(Blocks)
        /\ bm.invalid_list \in Seq(Blocks)
        /\ held \in [Blocks -> BlockTypes \cup {"none"}]
    BY DEF IInv, TypeOK, BlockManagerType
  <1>3. b \notin Members(bm.free_list) \cup Members(bm.invalid_list)
    BY <1>1 DEF IInv, BlocksAccountedFor
  <1>4. /\ Append(bm.invalid_list, b) \in Seq(Blocks)
        /\ Members(Append(bm.invalid_list, b)) = Members(bm.invalid_list) \cup {b}
        /\ NoRepeat(Append(bm.invalid_list, b))
    BY <1>2, <1>3, AppendedList DEF IInv, BlocksAccountedFor
  <1>5. m \in BlockManagerType
    BY <1>2, <1>4 DEF BlockManagerType
  <1>6. /\ m.fresh = bm.fresh
        /\ m.free_list = bm.free_list
        /\ m.invalid_list = Append(bm.invalid_list, b)
        /\ m.data_active = bm.data_active
        /\ m.log_active = bm.log_active
        /\ m.out_of_blocks = bm.out_of_blocks
    BY <1>2 DEF BlockManagerType
  <1>. HIDE DEF m
  <1>7. /\ bm' \in BlockManagerType
        /\ bm'.fresh = bm.fresh
        /\ bm'.free_list = bm.free_list
        /\ bm'.invalid_list = Append(bm.invalid_list, b)
        /\ bm'.out_of_blocks = bm.out_of_blocks
        /\ bm'.data_active = bm.data_active + IF held[b] = "DATA" THEN -1 ELSE 0
        /\ bm'.log_active = bm.log_active + IF held[b] = "LOG" THEN -1 ELSE 0
    <2>1. -1 \in Int /\ held[b] \in BlockTypes
      BY <1>1
    <2>2. /\ CountActive(m, held[b], -1) \in BlockManagerType
          /\ CountActive(m, held[b], -1).fresh = m.fresh
          /\ CountActive(m, held[b], -1).free_list = m.free_list
          /\ CountActive(m, held[b], -1).invalid_list = m.invalid_list
          /\ CountActive(m, held[b], -1).out_of_blocks = m.out_of_blocks
          /\ CountActive(m, held[b], -1).data_active
               = m.data_active + IF held[b] = "DATA" THEN -1 ELSE 0
          /\ CountActive(m, held[b], -1).log_active
               = m.log_active + IF held[b] = "LOG" THEN -1 ELSE 0
      BY <1>5, <2>1, CountActiveEffect
    <2>. QED
      BY <1>1, <1>6, <2>2
  <1>8. TypeOK'
    BY <1>1, <1>2, <1>7 DEF IInv, TypeOK
  <1>9. BlocksAccountedFor'
    <2>1. Taken' = Taken \ {b} /\ b \in Taken
      BY <1>1, <1>2 DEF Taken, BlockTypes
    <2>. QED
      BY <1>3, <1>4, <1>7, <2>1 DEF IInv, BlocksAccountedFor, Taken
  <1>10. FreeBlocksErased'
    BY <1>1, <1>7 DEF IInv, FreeBlocksErased
  <1>11. CountersMatchHeldBlocks'
    BY <1>1, <1>7, GivenUpCount
  <1>12. GivesUpOnlyWhenAllHeld' /\ ~bm'.out_of_blocks
    BY <1>1, <1>7 DEF GivesUpOnlyWhenAllHeld, IInv
  <1>. QED
    BY <1>8, <1>9, <1>10, <1>11, <1>12 DEF IInv

\* erase_and_invalidate: the block, now erased, goes to the end of free_list.
LEMMA EraseAndInvalidateStep ==
  ASSUME IInv, NEW b \in Blocks, held[b] \in BlockTypes, CanErase(flash, b), Running,
         flash' = Erase(flash, {b}), bm' = EraseAndInvalidate(bm, b, held[b]),
         held' = [held EXCEPT ![b] = "none"], abort' = abort
  PROVE  IInv'
  <1>. DEFINE m == [bm EXCEPT !.free_list = Append(bm.free_list, b)]
  <1>1. bm' = CountActive(m, held[b], -1)
    BY DEF EraseAndInvalidate
  <1>2. /\ bm \in BlockManagerType
        /\ bm.free_list \in Seq(Blocks)
        /\ bm.invalid_list \in Seq(Blocks)
        /\ held \in [Blocks -> BlockTypes \cup {"none"}]
        /\ flash \in FlashType
    BY DEF IInv, TypeOK, BlockManagerType
  <1>3. b \notin Members(bm.free_list) \cup Members(bm.invalid_list)
    BY DEF IInv, BlocksAccountedFor
  <1>4. /\ Append(bm.free_list, b) \in Seq(Blocks)
        /\ Members(Append(bm.free_list, b)) = Members(bm.free_list) \cup {b}
        /\ NoRepeat(Append(bm.free_list, b))
    BY <1>2, <1>3, AppendedList DEF IInv, BlocksAccountedFor
  <1>5. m \in BlockManagerType
    BY <1>2, <1>4 DEF BlockManagerType
  <1>6. /\ m.fresh = bm.fresh
        /\ m.free_list = Append(bm.free_list, b)
        /\ m.invalid_list = bm.invalid_list
        /\ m.data_active = bm.data_active
        /\ m.log_active = bm.log_active
        /\ m.out_of_blocks = bm.out_of_blocks
    BY <1>2 DEF BlockManagerType
  <1>. HIDE DEF m
  <1>7. /\ bm' \in BlockManagerType
        /\ bm'.fresh = bm.fresh
        /\ bm'.free_list = Append(bm.free_list, b)
        /\ bm'.invalid_list = bm.invalid_list
        /\ bm'.out_of_blocks = bm.out_of_blocks
        /\ bm'.data_active = bm.data_active + IF held[b] = "DATA" THEN -1 ELSE 0
        /\ bm'.log_active = bm.log_active + IF held[b] = "LOG" THEN -1 ELSE 0
    <2>1. -1 \in Int /\ held[b] \in BlockTypes
      BY <1>1
    <2>2. /\ CountActive(m, held[b], -1) \in BlockManagerType
          /\ CountActive(m, held[b], -1).fresh = m.fresh
          /\ CountActive(m, held[b], -1).free_list = m.free_list
          /\ CountActive(m, held[b], -1).invalid_list = m.invalid_list
          /\ CountActive(m, held[b], -1).out_of_blocks = m.out_of_blocks
          /\ CountActive(m, held[b], -1).data_active
               = m.data_active + IF held[b] = "DATA" THEN -1 ELSE 0
          /\ CountActive(m, held[b], -1).log_active
               = m.log_active + IF held[b] = "LOG" THEN -1 ELSE 0
      BY <1>5, <2>1, CountActiveEffect
    <2>. QED
      BY <1>1, <1>6, <2>2
  <1>8. /\ flash' \in FlashType
        /\ \A p \in Ppns :
             flash'.page[p] = IF p[1] \in {b} THEN "EMPTY" ELSE flash.page[p]
    BY <1>2, EraseEffect
  <1>9. TypeOK'
    BY <1>2, <1>7, <1>8 DEF IInv, TypeOK
  <1>10. BlocksAccountedFor'
    <2>1. Taken' = Taken \ {b} /\ b \in Taken
      BY <1>2 DEF Taken, BlockTypes
    <2>. QED
      BY <1>3, <1>4, <1>7, <2>1 DEF IInv, BlocksAccountedFor, Taken
  <1>11. FreeBlocksErased'
    BY <1>4, <1>7, <1>8 DEF IInv, FreeBlocksErased
  <1>12. CountersMatchHeldBlocks'
    BY <1>7, GivenUpCount
  <1>13. GivesUpOnlyWhenAllHeld' /\ ~bm'.out_of_blocks
    BY <1>7 DEF GivesUpOnlyWhenAllHeld, IInv, Running
  <1>. QED
    BY <1>9, <1>10, <1>11, <1>12, <1>13 DEF IInv

\* promote_block: a log block is now counted as a data block.
LEMMA PromoteBlockStep ==
  ASSUME IInv, NEW b \in Blocks, promote_block(b)
  PROVE  IInv'
  <1>. DEFINE m == CountActive(bm, "DATA", 1)
  <1>1. /\ held[b] = "LOG"
        /\ bm' = CountActive(m, "LOG", -1)
        /\ held' = [held EXCEPT ![b] = "DATA"]
        /\ flash' = flash /\ abort' = abort /\ abort = "none"
    BY DEF promote_block, PromoteBlock, Running
  <1>2. /\ bm \in BlockManagerType
        /\ bm.data_active \in Int /\ bm.log_active \in Int
        /\ held \in [Blocks -> BlockTypes \cup {"none"}]
        /\ "DATA" \in BlockTypes /\ "LOG" \in BlockTypes
    BY DEF IInv, TypeOK, BlockManagerType, BlockTypes
  <1>3. /\ m \in BlockManagerType
        /\ m.fresh = bm.fresh
        /\ m.free_list = bm.free_list
        /\ m.invalid_list = bm.invalid_list
        /\ m.out_of_blocks = bm.out_of_blocks
        /\ m.data_active = bm.data_active + 1
        /\ m.log_active = bm.log_active
    <2>1. 1 \in Int
      OBVIOUS
    <2>2. /\ m \in BlockManagerType
          /\ m.fresh = bm.fresh
          /\ m.free_list = bm.free_list
          /\ m.invalid_list = bm.invalid_list
          /\ m.out_of_blocks = bm.out_of_blocks
          /\ m.data_active = bm.data_active + IF "DATA" = "DATA" THEN 1 ELSE 0
          /\ m.log_active = bm.log_active + IF "DATA" = "LOG" THEN 1 ELSE 0
      BY <1>2, <2>1, CountActiveEffect
    <2>. QED
      BY <1>2, <2>2
  <1>. HIDE DEF m
  <1>4. /\ bm' \in BlockManagerType
        /\ bm'.fresh = bm.fresh
        /\ bm'.free_list = bm.free_list
        /\ bm'.invalid_list = bm.invalid_list
        /\ bm'.out_of_blocks = bm.out_of_blocks
        /\ bm'.data_active = bm.data_active + 1
        /\ bm'.log_active = bm.log_active - 1
    <2>1. -1 \in Int
      OBVIOUS
    <2>2. /\ CountActive(m, "LOG", -1) \in BlockManagerType
          /\ CountActive(m, "LOG", -1).fresh = m.fresh
          /\ CountActive(m, "LOG", -1).free_list = m.free_list
          /\ CountActive(m, "LOG", -1).invalid_list = m.invalid_list
          /\ CountActive(m, "LOG", -1).out_of_blocks = m.out_of_blocks
          /\ CountActive(m, "LOG", -1).data_active = m.data_active + 0
          /\ CountActive(m, "LOG", -1).log_active = m.log_active + (-1)
      BY <1>2, <1>3, <2>1, CountActiveEffect, ZenonT(30)
    <2>. QED
      BY <1>1, <1>2, <1>3, <2>2
  <1>5. TypeOK'
    BY <1>1, <1>2, <1>4 DEF IInv, TypeOK
  <1>6. BlocksAccountedFor'
    <2>1. Taken' = Taken
      BY <1>1, <1>2 DEF Taken
    <2>. QED
      BY <1>4, <2>1 DEF IInv, BlocksAccountedFor, Taken
  <1>7. FreeBlocksErased'
    BY <1>1, <1>4 DEF IInv, FreeBlocksErased
  <1>8. CountersMatchHeldBlocks'
    <2>1. /\ DataHeld' = DataHeld \cup {b} /\ b \notin DataHeld
          /\ LogHeld' = LogHeld \ {b} /\ b \in LogHeld
      BY <1>1, <1>2 DEF DataHeld, LogHeld
    <2>2. /\ Cardinality(DataHeld') = Cardinality(DataHeld) + 1
          /\ Cardinality(LogHeld') = Cardinality(LogHeld) - 1
      BY <2>1, HeldCount DEF DataHeld, LogHeld
    <2>3. /\ bm.data_active = Cardinality(DataHeld)
          /\ bm.log_active = Cardinality(LogHeld)
      BY DEF IInv, CountersMatchHeldBlocks, DataHeld, LogHeld
    <2>4. /\ bm'.data_active = Cardinality(DataHeld')
          /\ bm'.log_active = Cardinality(LogHeld')
      BY <1>4, <2>2, <2>3
    <2>. QED
      BY <2>4 DEF CountersMatchHeldBlocks, DataHeld, LogHeld
  <1>9. GivesUpOnlyWhenAllHeld' /\ ~bm'.out_of_blocks
    BY <1>1, <1>4 DEF GivesUpOnlyWhenAllHeld, IInv
  <1>. QED
    BY <1>5, <1>6, <1>7, <1>8, <1>9 DEF IInv

\* The client writes only to blocks it holds.
LEMMA ProgramStep ==
  ASSUME IInv, NEW b \in Blocks, NEW d \in Payloads, program(b, d)
  PROVE  IInv'
  <1>1. /\ held[b] \in BlockTypes
        /\ HasFreePage(flash, b)
        /\ flash' = Program(flash, FreePage(flash, b), d)
        /\ bm' = bm /\ held' = held /\ abort' = abort
    BY DEF program
  <1>2. /\ flash' \in FlashType
        /\ \A p \in Ppns :
             flash'.page[p] = IF p = FreePage(flash, b) THEN "VALID" ELSE flash.page[p]
    BY <1>1, NextPageProgrammed DEF IInv, TypeOK
  <1>3. TypeOK'
    BY <1>1, <1>2 DEF IInv, TypeOK
  <1>4. FreeBlocksErased'
    <2>. SUFFICES ASSUME NEW p \in Ppns,
                         p[1] >= bm.fresh \/ p[1] \in Members(bm.free_list)
                  PROVE  flash'.page[p] = "EMPTY"
      BY <1>1 DEF FreeBlocksErased
    <2>1. p[1] # b
      <3>1. b \notin bm.fresh .. NUMBER_OF_ADDRESSABLE_BLOCKS - 1
            /\ b \notin Members(bm.free_list)
        BY <1>1 DEF IInv, BlocksAccountedFor
      <3>. QED
        BY <3>1, GeometryAssumption DEF Blocks, IInv, TypeOK, BlockManagerType
    <2>. QED
      BY <1>2, <2>1 DEF IInv, FreeBlocksErased, FreePage
  <1>. QED
    BY <1>1, <1>3, <1>4 DEF IInv, BlocksAccountedFor, CountersMatchHeldBlocks,
                            GivesUpOnlyWhenAllHeld

\* One case per operation of Block_manager.
THEOREM NextInv == IInv /\ [Next]_vars => IInv'
  <1>. SUFFICES ASSUME IInv, [Next]_vars
                PROVE  IInv'
    OBVIOUS
  <1>1. ASSUME NEW type \in BlockTypes, get_free_block(type)
        PROVE  IInv'
    BY <1>1, GetFreeBlockStep
  <1>2. ASSUME NEW type \in BlockTypes, get_free_block_aborts(type)
        PROVE  IInv'
    <2>1. CASE Fail("no_free_block") /\ OutOfBlocks(bm)
      BY <2>1, NothingLeft, FailStep DEF Aborts
    <2>2. CASE Fail("erase_failed") \/ Fail("bad_alloc")
      BY <2>2, FailStep DEF Aborts
    <2>. QED
      BY <1>2, <2>1, <2>2 DEF get_free_block_aborts
  <1>3. CASE insert_events
    <2>1. CASE InsertEventsFails(bm, flash)
      BY <1>3, <2>1, FailStep DEF insert_events, Aborts
    <2>2. CASE ~InsertEventsFails(bm, flash)
      BY <1>3, <2>2, InsertEventsStep DEF insert_events
    <2>. QED
      BY <2>1, <2>2
  <1>4. ASSUME NEW b \in Blocks, invalidate(b)
        PROVE  IInv'
    BY <1>4, InvalidateStep
  <1>5. ASSUME NEW b \in Blocks, erase_and_invalidate(b)
        PROVE  IInv'
    <2>1. CASE ~CanErase(flash, b)
      BY <1>5, <2>1, FailStep DEF erase_and_invalidate, Aborts
    <2>2. CASE CanErase(flash, b)
      BY <1>5, <2>2, EraseAndInvalidateStep DEF erase_and_invalidate
    <2>. QED
      BY <2>1, <2>2
  <1>6. ASSUME NEW b \in Blocks, promote_block(b)
        PROVE  IInv'
    BY <1>6, PromoteBlockStep
  <1>7. ASSUME NEW b \in Blocks, NEW d \in Payloads, program(b, d)
        PROVE  IInv'
    BY <1>7, ProgramStep
  <1>8. CASE UNCHANGED vars
    BY <1>8 DEF vars, IInv, TypeOK, BlocksAccountedFor, FreeBlocksErased,
                CountersMatchHeldBlocks, GivesUpOnlyWhenAllHeld
  <1>. QED
    BY <1>1, <1>2, <1>3, <1>4, <1>5, <1>6, <1>7, <1>8 DEF Next

---------------------------------------------------------------------------
(* The results.                                                            *)

\* The inductive invariant of Block_manager.
THEOREM Invariance == Spec => []IInv
  BY InitInv, NextInv, PTL DEF Spec

\* Type correctness: the lists hold blocks, and no block is erased more often
\* than it may be.
THEOREM TypeCorrect == Spec => []TypeOK
  <1>1. IInv => TypeOK
    BY DEF IInv
  <1>. QED
    BY <1>1, Invariance, PTL

\* get_free_block, invalidate, erase_and_invalidate and insert_events neither
\* lose a block nor give it a second owner.
THEOREM NoBlockLost == Spec => []BlocksAccountedFor
  <1>1. IInv => BlocksAccountedFor
    BY DEF IInv
  <1>. QED
    BY <1>1, Invariance, PTL

\* Every block that can be handed out is erased.
THEOREM HandsOutErased == Spec => []FreeBlocksErased
  <1>1. IInv => FreeBlocksErased
    BY DEF IInv
  <1>. QED
    BY <1>1, Invariance, PTL

\* The two counters agree with the blocks in use, promotions included.
THEOREM CountersExact == Spec => []CountersMatchHeldBlocks
  <1>1. IInv => CountersMatchHeldBlocks
    BY DEF IInv
  <1>. QED
    BY <1>1, Invariance, PTL

\* The assert of get_page_block on free_list fails only when every block is
\* held, whatever share of the blocks starts erasing and however many one
\* call erases.
THEOREM GivesUpLast == Spec => []GivesUpOnlyWhenAllHeld
  <1>1. IInv => GivesUpOnlyWhenAllHeld
    BY DEF IInv
  <1>. QED
    BY <1>1, Invariance, PTL

\* No step of the manager erases a page of a block the client keeps: what is
\* erased is in invalid_list, or is given up in the same step.
THEOREM HeldPagesKept == Spec => HeldPagesSurvive
  <1>1. ASSUME IInv, [Next]_vars, NEW p \in Ppns, flash.page[p] = "VALID",
               held[p[1]] \in BlockTypes, held'[p[1]] \in BlockTypes
        PROVE  flash'.page[p] = "VALID"
    <2>0. p[1] \in Blocks /\ flash \in FlashType /\ held \in [Blocks -> BlockTypes \cup {"none"}]
      BY <1>1 DEF Ppns, IInv, TypeOK
    <2>1. p[1] \notin Members(bm.invalid_list) /\ p[1] \notin Members(bm.free_list)
      BY <1>1, <2>0 DEF IInv, BlocksAccountedFor
    <2>2. ASSUME NEW type \in BlockTypes, get_free_block(type)
          PROVE  flash'.page[p] = "VALID"
      <3>1. /\ Reclaimed(bm) \subseteq Members(bm.invalid_list)
            /\ flash'.page[p] = IF p[1] \in Reclaimed(bm) THEN "EMPTY" ELSE flash.page[p]
        BY <1>1, <2>0, <2>2, InvListsSound, ServicedEffect DEF get_free_block
      <3>. QED
        BY <1>1, <2>1, <3>1
    <2>3. CASE insert_events /\ ~InsertEventsFails(bm, flash)
      <3>1. ErasedSet(bm) \subseteq Members(bm.invalid_list)
        BY <1>1, InvListsSound, InsertEventsEffect
      <3>2. ErasedSet(bm) \in SUBSET Blocks
        BY <1>1, <3>1, ListMembers DEF IInv, TypeOK, BlockManagerType
      <3>3. flash' = Erase(flash, ErasedSet(bm)) /\ \A b \in ErasedSet(bm) : CanErase(flash, b)
        BY <2>3 DEF insert_events, InsertEventsFlash, InsertEventsFails
      <3>. QED
        BY <1>1, <2>0, <2>1, <3>1, <3>2, <3>3, EraseEffect
    <2>4. ASSUME NEW b \in Blocks, erase_and_invalidate(b), CanErase(flash, b)
          PROVE  flash'.page[p] = "VALID"
      <3>1. p[1] # b
        BY <1>1, <2>0, <2>4 DEF erase_and_invalidate, BlockTypes
      <3>2. flash' = Erase(flash, {b}) /\ \A c \in {b} : CanErase(flash, c)
        BY <2>4 DEF erase_and_invalidate
      <3>3. {b} \in SUBSET Blocks
        OBVIOUS
      <3>. QED
        BY <1>1, <2>0, <3>1, <3>2, <3>3, EraseEffect
    <2>5. ASSUME NEW b \in Blocks, NEW d \in Payloads, program(b, d)
          PROVE  flash'.page[p] = "VALID"
      BY <1>1, <2>0, <2>5, NextPageProgrammed DEF program
    <2>6. CASE flash' = flash
      BY <1>1, <2>6
    <2>7. \/ \E type \in BlockTypes : get_free_block(type)
          \/ insert_events /\ ~InsertEventsFails(bm, flash)
          \/ \E b \in Blocks : erase_and_invalidate(b) /\ CanErase(flash, b)
          \/ \E b \in Blocks, d \in Payloads : program(b, d)
          \/ flash' = flash
      BY <1>1 DEF Next, vars, Fail, get_free_block_aborts, insert_events, invalidate,
                  erase_and_invalidate, promote_block
    <2>. QED
      BY <2>2, <2>3, <2>4, <2>5, <2>6, <2>7
  <1>2. IInv /\ [Next]_vars
          => [\A p \in Ppns :
                held[p[1]] \in BlockTypes /\ held'[p[1]] \in BlockTypes
                  => (flash.page[p] = "VALID" => flash'.page[p] = "VALID")]_vars
    BY <1>1
  <1>. QED
    BY <1>2, Invariance, PTL DEF Spec, HeldPagesSurvive
=============================================================================
