------------------------------ MODULE MNFtl_proofs ------------------------------
(***************************************************************************)
(* Proofs about MNFtl for every geometry of the device and every table     *)
(* size.  IInv is the inductive invariant; the safety invariants, the      *)
(* property of steps and the refinement of LogicalDisk follow from it.     *)
(***************************************************************************)
EXTENDS MNFtlCleanup, FtlLemmas

---------------------------------------------------------------------------
(* The split of a logical page number stays inside the tables the          *)
(* constructor and write() allocate, and no two logical pages share a slot,*)
(* for every block size and every table size.                              *)

\* read(), write() and trim() never index outside the PMD vector of a logical
\* block nor outside one of its page mapping tables.
THEOREM SlotInRange ==
  ASSUME NEW lpn \in Lpns
  PROVE  Slot(lpn) \in Slots /\ Anchor(lpn) \in Anchors
  <1>. USE IndexAssumption, GeometryAssumption DEF P
  <1>1. lpn \in Nat /\ lpn < P * NumLbns
    BY DEF Lpns
  <1>2. lbn(lpn) \in Lbns
    <2>1. lpn \div P < NumLbns
      BY <1>1, DivBound
    <2>2. lpn \div P \in Nat
      BY <1>1, DivMod
    <2>. QED
      BY <2>1, <2>2 DEF lbn, Lbns
  <1>3. bo(lpn) \in 0 .. P - 1
    BY <1>1, DivMod DEF bo
  <1>4. map_slot(lpn) \in MapSlots
    BY <1>3, DivMod DEF map_slot, MapSlots
  <1>5. pmd_index(lpn) \in PmdIndexes
    <2>1. num_pmd \in Nat /\ P <= Q * num_pmd
      <3>1. P + Q - 1 \in Nat
        OBVIOUS
      <3>2. /\ num_pmd \in Nat
            /\ (P + Q - 1) % Q \in 0 .. Q - 1
            /\ P + Q - 1 = Q * num_pmd + ((P + Q - 1) % Q)
        BY <3>1, DivMod DEF num_pmd
      <3>. QED
        BY <3>2
    <2>2. bo(lpn) < Q * num_pmd
      BY <1>3, <2>1
    <2>3. bo(lpn) \div Q < num_pmd
      BY <1>3, <2>1, <2>2, DivBound
    <2>4. bo(lpn) \div Q \in Nat
      BY <1>3, DivMod
    <2>. QED
      BY <2>1, <2>3, <2>4 DEF pmd_index, PmdIndexes
  <1>. QED
    BY <1>2, <1>4, <1>5 DEF Slot, Anchor, Slots, Anchors

\* Two logical pages never share a mapping slot: a write to one cannot move
\* the other.
THEOREM SlotInjective ==
  ASSUME NEW l \in Lpns, NEW m \in Lpns, Slot(l) = Slot(m)
  PROVE  l = m
  <1>. USE IndexAssumption, GeometryAssumption DEF P
  <1>1. l \in Nat /\ m \in Nat
    BY DEF Lpns
  <1>2. lbn(l) = lbn(m) /\ pmd_index(l) = pmd_index(m) /\ map_slot(l) = map_slot(m)
    BY DEF Slot
  <1>3. bo(l) \in Nat /\ bo(m) \in Nat
    BY <1>1, DivMod DEF bo
  <1>4. bo(l) = bo(m)
    <2>1. bo(l) = Q * pmd_index(l) + map_slot(l)
      BY <1>3, DivMod DEF pmd_index, map_slot
    <2>2. bo(m) = Q * pmd_index(m) + map_slot(m)
      BY <1>3, DivMod DEF pmd_index, map_slot
    <2>. QED
      BY <1>2, <2>1, <2>2
  <1>5. l = P * lbn(l) + bo(l)
    BY <1>1, DivMod DEF lbn, bo
  <1>6. m = P * lbn(m) + bo(m)
    BY <1>1, DivMod DEF lbn, bo
  <1>. QED
    BY <1>2, <1>4, <1>5, <1>6

---------------------------------------------------------------------------
(* The inductive invariant: the checked invariants and what they need.     *)

\* MNFTL never gives a block back, so nothing is ever erased.
NoBlockReturned ==
  /\ bm.free_list = << >>
  /\ bm.invalid_list = << >>
  /\ current_block # NoBlock => current_block < bm.fresh

\* A mapped page that is an anchor anchors its own table: the replacement of
\* that page always comes with a new anchor.
AnchorsOwnTable ==
  \A a \in Anchors, s \in Slots :
    Mapped(s) /\ PMD[a] = PMT[s] => AnchorOf(s) = a

\* What a host can be given was written by a host.
MappedPagesHavePayload ==
  \A s \in Slots : Mapped(s) => flash.data[PMT[s]] \in Payloads

\* The page the host was last given is never programmed again.
BufferProgrammed ==
  global_buffer # NoPpn => flash.page[global_buffer] # "EMPTY"

IInv ==
  /\ TypeOK
  /\ NoBlockReturned
  /\ MappingInjective
  /\ MappedPagesValid
  /\ MappedPagesReadable
  /\ AnchorsValid
  /\ AnchorsOwnTable
  /\ MappedPagesHavePayload
  /\ BufferProgrammed
  /\ PagesFilledInOrder
  /\ AbortsOnlyWhenAllProgrammed

---------------------------------------------------------------------------
(* The Block_manager while both its lists are empty.                       *)

\* With both lists empty insert_events erases nothing, so get_page_block fails
\* exactly when no fresh block is left.
LEMMA NothingToErase ==
  ASSUME NEW f \in FlashType, NEW m \in BlockManagerType,
         m.free_list = << >>, m.invalid_list = << >>
  PROVE  /\ ServicedFlash(m, f) = f
         /\ ~ServiceFails(m, f)
         /\ Serviced(m).free_list = << >>
  <1>1. NumErased(m) = 0
    BY BlockListsAssumption DEF NumErased
  <1>2. ErasedSet(m) = {}
    BY <1>1 DEF ErasedSet
  <1>3. ErasedBlocks(m) = << >>
    BY <1>1 DEF ErasedBlocks
  <1>4. Erase(f, {}) = f
    BY DEF Erase, FlashType
  <1>5. InsertEvents(m).free_list = << >>
    BY <1>3 DEF InsertEvents, BlockManagerType
  <1>. QED
    BY <1>2, <1>4, <1>5 DEF ServicedFlash, InsertEventsFlash, ServiceFails,
                            InsertEventsFails, Serviced

\* Taking a block never handed out moves the boundary and one counter.
LEMMA FreshBlockTaken ==
  ASSUME NEW m \in BlockManagerType, FreshBlockLeft(m)
  PROVE  /\ GetFreeBlock(m, "DATA") \in BlockManagerType
         /\ GetFreeBlock(m, "DATA").fresh = m.fresh + 1
         /\ GetFreeBlock(m, "DATA").free_list = m.free_list
         /\ GetFreeBlock(m, "DATA").invalid_list = m.invalid_list
  <1>. DEFINE g == [m EXCEPT !.fresh = m.fresh + 1, !.current_writing_block = m.fresh]
  <1>1. GetFreeBlock(m, "DATA") = [g EXCEPT !.data_active = g.data_active + 1]
    BY DEF GetFreeBlock, GetPageBlock, CountActive
  <1>2. /\ m.fresh + 1 \in 0 .. NUMBER_OF_ADDRESSABLE_BLOCKS
        /\ m.fresh \in Blocks \cup {NoBlock}
    BY GeometryAssumption DEF FreshBlockLeft, BlockManagerType, Blocks
  <1>3. /\ g \in BlockManagerType
        /\ g.fresh = m.fresh + 1
        /\ g.free_list = m.free_list
        /\ g.invalid_list = m.invalid_list
    BY <1>2 DEF BlockManagerType
  <1>4. g.data_active + 1 \in Int
    BY <1>3 DEF BlockManagerType
  <1>. HIDE DEF g
  <1>. QED
    BY <1>1, <1>3, <1>4 DEF BlockManagerType

---------------------------------------------------------------------------
(* Where a write goes.                                                     *)

\* The allocation of a page succeeds or the device is full; the page is the
\* next one, in order, of a block no other block is ahead of.
LEMMA TargetFacts ==
  ASSUME IInv, ~(NeedsBlock /\ OutOfBlocks(bm))
  PROVE  /\ TargetFlash = flash
         /\ TargetBlock \in Blocks
         /\ TargetOffset = flash.pages_valid[TargetBlock]
         /\ TargetOffset \in 0 .. BLOCK_SIZE - 1
         /\ NewPpn = <<TargetBlock, flash.pages_valid[TargetBlock]>>
         /\ NewPpn \in Ppns
         /\ flash.page[NewPpn] = "EMPTY"
         /\ TargetManager \in BlockManagerType
         /\ TargetManager.free_list = << >>
         /\ TargetManager.invalid_list = << >>
         /\ TargetBlock < TargetManager.fresh
         /\ \A b \in Blocks :
              /\ b >= TargetManager.fresh => flash.pages_valid[b] = 0
              /\ b < TargetManager.fresh /\ b # TargetBlock
                   => flash.pages_valid[b] = BLOCK_SIZE
  <1>. USE GeometryAssumption
  <1>1. /\ flash \in FlashType
        /\ bm \in BlockManagerType
        /\ bm.free_list = << >>
        /\ bm.invalid_list = << >>
        /\ bm.fresh \in 0 .. NUMBER_OF_ADDRESSABLE_BLOCKS
    BY DEF IInv, TypeOK, NoBlockReturned, BlockManagerType
  <1>2. Serviced(bm).free_list = << >> /\ ServicedFlash(bm, flash) = flash
    BY <1>1, NothingToErase
  <1>3. TargetFlash = flash
    BY <1>2 DEF TargetFlash
  <1>4. NewPpn = <<TargetBlock, flash.pages_valid[TargetBlock]>>
    BY <1>3 DEF NewPpn, FreePage
  <1>5. ASSUME TargetBlock \in Blocks,
               flash.pages_valid[TargetBlock] \in 0 .. BLOCK_SIZE - 1
        PROVE  NewPpn \in Ppns /\ flash.page[NewPpn] = "EMPTY"
    <2>1. NewPpn \in Ppns
      BY <1>4, <1>5 DEF Ppns, Offsets
    <2>2. NewPpn[2] >= flash.pages_valid[NewPpn[1]]
      BY <1>4, <1>5
    <2>. QED
      BY <2>1, <2>2 DEF IInv, PagesFilledInOrder
  <1>6. CASE NeedsBlock
    <2>1. FreshBlockLeft(bm)
      BY <1>2, <1>6 DEF OutOfBlocks
    <2>2. /\ TargetBlock = bm.fresh
          /\ TargetOffset = 0
          /\ TargetManager = GetFreeBlock(bm, "DATA")
      BY <1>6, <2>1 DEF TargetBlock, TargetOffset, TargetManager, NextBlock
    <2>3. TargetBlock \in Blocks
      BY <1>1, <2>1, <2>2 DEF FreshBlockLeft, Blocks
    <2>4. flash.pages_valid[TargetBlock] = 0
      BY <1>1, <2>2, <2>3 DEF IInv, PagesFilledInOrder, Blocks
    <2>5. /\ TargetManager \in BlockManagerType
          /\ TargetManager.fresh = bm.fresh + 1
          /\ TargetManager.free_list = << >>
          /\ TargetManager.invalid_list = << >>
      BY <1>1, <2>1, <2>2, FreshBlockTaken
    <2>6. ASSUME NEW b \in Blocks
          PROVE  /\ b >= TargetManager.fresh => flash.pages_valid[b] = 0
                 /\ b < TargetManager.fresh /\ b # TargetBlock
                      => flash.pages_valid[b] = BLOCK_SIZE
      <3>1. b >= bm.fresh => flash.pages_valid[b] = 0
        BY DEF IInv, PagesFilledInOrder
      <3>2. b < bm.fresh => flash.pages_valid[b] = BLOCK_SIZE
        BY <1>6 DEF IInv, PagesFilledInOrder, NeedsBlock, P, NoBlock, Blocks
      <3>. QED
        BY <1>1, <2>2, <2>5, <3>1, <3>2 DEF Blocks
    <2>. QED
      BY <1>1, <1>3, <1>4, <1>5, <2>2, <2>3, <2>4, <2>5, <2>6
  <1>7. CASE ~NeedsBlock
    <2>1. /\ TargetBlock = current_block
          /\ TargetOffset = current_page_offset
          /\ TargetManager = bm
      BY <1>7 DEF TargetBlock, TargetOffset, TargetManager
    <2>2. current_block \in Blocks /\ current_page_offset \in 0 .. BLOCK_SIZE - 1
      BY <1>7 DEF IInv, TypeOK, NeedsBlock, P
    <2>3. current_page_offset = flash.pages_valid[current_block]
      BY <1>7 DEF IInv, PagesFilledInOrder, NeedsBlock
    <2>4. current_block < bm.fresh
      BY <1>7 DEF IInv, NoBlockReturned, NeedsBlock
    <2>. QED
      BY <1>1, <1>3, <1>4, <1>5, <2>1, <2>2, <2>3, <2>4 DEF IInv, PagesFilledInOrder
  <1>. QED
    BY <1>6, <1>7

\* The assert of get_page_block is the only one that can fail.
LEMMA OnlyOutOfBlocks ==
  ASSUME IInv
  PROVE  AllocFailure = IF NeedsBlock /\ OutOfBlocks(bm) THEN "no_free_block" ELSE "none"
  <1>1. ~ServiceFails(bm, flash)
    BY NothingToErase DEF IInv, TypeOK, NoBlockReturned
  <1>2. CASE NeedsBlock /\ OutOfBlocks(bm)
    BY <1>1, <1>2 DEF AllocFailure
  <1>3. CASE ~(NeedsBlock /\ OutOfBlocks(bm))
    <2>1. HasFreePage(TargetFlash, TargetBlock)
      BY <1>3, TargetFacts, GeometryAssumption DEF HasFreePage
    <2>2. CanProgram(TargetFlash, NewPpn)
      BY <1>3, TargetFacts DEF CanProgram
    <2>. QED
      BY <1>1, <1>3, <2>1, <2>2 DEF AllocFailure
  <1>. QED
    BY <1>2, <1>3

---------------------------------------------------------------------------
(* What a write changes.                                                   *)

\* No table entry, no anchor and no host buffer names a page still EMPTY.
LEMMA MappedAreOld ==
  ASSUME IInv, NEW p \in Ppns, flash.page[p] = "EMPTY"
  PROVE  /\ \A s \in Slots : PMT[s] # p
         /\ \A a \in Anchors : PMD[a] # p
         /\ global_buffer # p
  BY NoPpnNotPage DEF IInv, MappedPagesValid, Mapped, AnchorsValid, BufferProgrammed

\* A write programs one EMPTY page, invalidates the page mapped before, and
\* leaves the state and the payload of every other page.
LEMMA WriteEffect ==
  ASSUME IInv, NEW lpn \in Lpns, NEW d \in Payloads, Write(lpn, d)
  PROVE  /\ Slot(lpn) \in Slots
         /\ Anchor(lpn) \in Anchors
         /\ AnchorOf(Slot(lpn)) = Anchor(lpn)
         /\ PMT[Slot(lpn)] \in Ppns \cup {NoPpn}
         /\ ~(NeedsBlock /\ OutOfBlocks(bm))
         /\ NewPpn \in Ppns
         /\ flash.page[NewPpn] = "EMPTY"
         /\ flash' \in FlashType
         /\ flash'.page[NewPpn] = "VALID"
         /\ PMT[Slot(lpn)] # NoPpn => flash'.page[PMT[Slot(lpn)]] = "INVALID"
         /\ \A p \in Ppns : p # NewPpn /\ p # PMT[Slot(lpn)]
              => flash'.page[p] = flash.page[p]
         /\ flash'.data = [flash.data EXCEPT ![NewPpn] = d]
         /\ flash'.pages_valid
              = [flash.pages_valid EXCEPT
                   ![TargetBlock] = flash.pages_valid[TargetBlock] + 1]
  <1>. DEFINE old == PMT[Slot(lpn)]
              f == Program(flash, NewPpn, d)
  <1>1. /\ Slot(lpn) \in Slots
        /\ Anchor(lpn) \in Anchors
        /\ AnchorOf(Slot(lpn)) = Anchor(lpn)
    BY SlotInRange DEF Slot, Anchor, AnchorOf
  <1>2. old \in Ppns \cup {NoPpn}
    BY <1>1 DEF IInv, TypeOK
  <1>3. ~(NeedsBlock /\ OutOfBlocks(bm))
    BY OnlyOutOfBlocks DEF Write
  <1>4. /\ TargetFlash = flash
        /\ NewPpn \in Ppns
        /\ NewPpn[1] = TargetBlock
        /\ flash.page[NewPpn] = "EMPTY"
    BY <1>3, TargetFacts
  <1>5. flash' = Replace(f, old)
    BY <1>4 DEF Write, AppendPage
  <1>6. old # NewPpn
    BY <1>1, <1>4, MappedAreOld
  <1>7. flash \in FlashType
    BY DEF IInv, TypeOK
  <1>8. /\ f \in FlashType
        /\ f.page = [flash.page EXCEPT ![NewPpn] = "VALID"]
        /\ f.data = [flash.data EXCEPT ![NewPpn] = d]
        /\ f.pages_valid = [flash.pages_valid EXCEPT
                              ![TargetBlock] = flash.pages_valid[TargetBlock] + 1]
    BY <1>4, <1>7, ProgramEffect DEF Contents
  <1>. HIDE DEF f
  <1>9. /\ flash' \in FlashType
        /\ flash'.data = f.data
        /\ flash'.pages_valid = f.pages_valid
        /\ old \in Ppns => flash'.page = [f.page EXCEPT ![old] = "INVALID"]
        /\ old = NoPpn => flash' = f
    BY <1>2, <1>5, <1>8, ReplaceEffect
  <1>10. flash.page \in [Ppns -> PageStates]
    BY <1>7 DEF FlashType
  <1>11. /\ flash'.page[NewPpn] = "VALID"
         /\ old # NoPpn => flash'.page[old] = "INVALID"
         /\ \A p \in Ppns : p # NewPpn /\ p # old => flash'.page[p] = flash.page[p]
    BY <1>2, <1>4, <1>6, <1>8, <1>9, <1>10, NoPpnNotPage
  <1>. QED
    BY <1>1, <1>2, <1>3, <1>4, <1>8, <1>9, <1>11

---------------------------------------------------------------------------
(* The invariant is inductive.                                             *)

\* The invariant holds in the state the constructor leaves.
LEMMA InitIInv == Init => IInv
  <1>. SUFFICES ASSUME Init PROVE IInv
    OBVIOUS
  <1>. USE GeometryAssumption
  <1>1. FlashInit \in FlashType
    <2>1. /\ [p \in Ppns |-> "EMPTY"] \in [Ppns -> PageStates]
          /\ [p \in Ppns |-> NoData] \in [Ppns -> Contents]
          /\ [b \in Blocks |-> 0] \in [Blocks -> Nat]
          /\ [b \in Blocks |-> BLOCK_ERASES] \in [Blocks -> Nat]
      BY DEF PageStates, Contents
    <2>. QED
      BY <2>1 DEF FlashInit, FlashType
  <1>2. BlockManagerInit \in BlockManagerType
    BY DEF BlockManagerInit, BlockManagerType
  <1>3. TypeOK
    BY <1>1, <1>2 DEF Init, TypeOK, Aborts
  <1>4. NoBlockReturned
    BY DEF Init, NoBlockReturned, BlockManagerInit
  <1>5. \A s \in Slots : ~Mapped(s)
    BY DEF Init, Mapped
  <1>6. AnchorsValid /\ BufferProgrammed /\ AbortsOnlyWhenAllProgrammed
    BY DEF Init, AnchorsValid, BufferProgrammed, AbortsOnlyWhenAllProgrammed
  <1>7. PagesFilledInOrder
    <2>1. flash.page = [p \in Ppns |-> "EMPTY"] /\ flash.pages_valid = [b \in Blocks |-> 0]
      BY DEF Init, FlashInit
    <2>2. bm.fresh = 0 /\ current_block = NoBlock
      BY DEF Init, BlockManagerInit
    <2>3. \A p \in Ppns : flash.page[p] = "EMPTY" /\ p[2] >= flash.pages_valid[p[1]]
      BY <2>1 DEF Ppns, Offsets
    <2>4. \A b \in Blocks : b >= bm.fresh /\ flash.pages_valid[b] = 0
      BY <2>1, <2>2 DEF Blocks
    <2>. QED
      BY <2>2, <2>3, <2>4 DEF PagesFilledInOrder, Blocks
  <1>. QED
    BY <1>3, <1>4, <1>5, <1>6, <1>7
       DEF IInv, MappingInjective, MappedPagesValid, MappedPagesReadable,
           AnchorsOwnTable, MappedPagesHavePayload

\* A write keeps the invariant: one step per conjunct it can disturb.
LEMMA WriteKeepsIInv ==
  ASSUME IInv, NEW lpn \in Lpns, NEW d \in Payloads, Write(lpn, d)
  PROVE  IInv'
  <1>. DEFINE s0 == Slot(lpn)
              a0 == Anchor(lpn)
              old == PMT[s0]
  <1>. USE GeometryAssumption, NoPpnNotPage
  <1>1. /\ s0 \in Slots
        /\ a0 \in Anchors
        /\ AnchorOf(s0) = a0
        /\ old \in Ppns \cup {NoPpn}
        /\ ~(NeedsBlock /\ OutOfBlocks(bm))
        /\ NewPpn \in Ppns
        /\ flash.page[NewPpn] = "EMPTY"
        /\ flash' \in FlashType
        /\ flash'.page[NewPpn] = "VALID"
        /\ old # NoPpn => flash'.page[old] = "INVALID"
        /\ \A p \in Ppns : p # NewPpn /\ p # old => flash'.page[p] = flash.page[p]
        /\ flash'.data = [flash.data EXCEPT ![NewPpn] = d]
        /\ flash'.pages_valid
             = [flash.pages_valid EXCEPT
                  ![TargetBlock] = flash.pages_valid[TargetBlock] + 1]
    BY WriteEffect
  <1>2. /\ TargetBlock \in Blocks
        /\ TargetOffset = flash.pages_valid[TargetBlock]
        /\ TargetOffset \in 0 .. BLOCK_SIZE - 1
        /\ NewPpn = <<TargetBlock, flash.pages_valid[TargetBlock]>>
        /\ TargetManager \in BlockManagerType
        /\ TargetManager.free_list = << >>
        /\ TargetManager.invalid_list = << >>
        /\ TargetBlock < TargetManager.fresh
        /\ \A b \in Blocks :
             /\ b >= TargetManager.fresh => flash.pages_valid[b] = 0
             /\ b < TargetManager.fresh /\ b # TargetBlock
                  => flash.pages_valid[b] = BLOCK_SIZE
    BY <1>1, TargetFacts
  <1>3. /\ PMT' = [PMT EXCEPT ![s0] = NewPpn]
        /\ PMD' = [PMD EXCEPT ![a0] = NewPpn]
        /\ bm' = TargetManager
        /\ current_block' = TargetBlock
        /\ current_page_offset' = TargetOffset + 1
        /\ global_buffer' = global_buffer
        /\ abort' = "none"
    BY DEF Write, AppendPage, Running
  <1>4. /\ \A s \in Slots : PMT[s] # NewPpn
        /\ \A a \in Anchors : PMD[a] # NewPpn
        /\ global_buffer # NewPpn
    BY <1>1, MappedAreOld
  <1>5. /\ PMT \in [Slots -> Ppns \cup {NoPpn}]
        /\ PMD \in [Anchors -> Ppns \cup {NoPpn}]
        /\ global_buffer \in Ppns \cup {NoPpn}
        /\ flash \in FlashType
    BY DEF IInv, TypeOK
  <1>6. /\ PMT'[s0] = NewPpn
        /\ \A s \in Slots : s # s0 => PMT'[s] = PMT[s]
        /\ PMD'[a0] = NewPpn
        /\ \A a \in Anchors : a # a0 => PMD'[a] = PMD[a]
    BY <1>1, <1>3, <1>5
  <1>7. \A s \in Slots : s # s0 /\ PMT[s] # NoPpn => PMT[s] # old
    BY <1>1 DEF IInv, MappingInjective, Mapped
  <1>8. \A a \in Anchors : a # a0 /\ PMD[a] # NoPpn => PMD[a] # old
    BY <1>1 DEF IInv, AnchorsOwnTable, Mapped
  <1>9. TypeOK'
    BY <1>1, <1>2, <1>3, <1>5 DEF TypeOK, Aborts
  <1>10. NoBlockReturned'
    BY <1>2, <1>3 DEF NoBlockReturned
  <1>11. MappingInjective'
    <2>. SUFFICES ASSUME NEW s \in Slots, NEW t \in Slots,
                         PMT'[s] # NoPpn, PMT'[s] = PMT'[t]
                  PROVE  s = t
      BY DEF MappingInjective, Mapped
    <2>1. CASE s = s0 \/ t = s0
      BY <1>4, <1>6, <2>1
    <2>2. CASE s # s0 /\ t # s0
      BY <1>6, <2>2 DEF IInv, MappingInjective, Mapped
    <2>. QED
      BY <2>1, <2>2
  <1>12. MappedPagesValid'
    <2>. SUFFICES ASSUME NEW s \in Slots, PMT'[s] # NoPpn
                  PROVE  flash'.page[PMT'[s]] = "VALID"
      BY DEF MappedPagesValid, Mapped
    <2>1. CASE s = s0
      BY <1>1, <1>6, <2>1
    <2>2. CASE s # s0
      <3>1. PMT'[s] = PMT[s] /\ PMT[s] \in Ppns /\ PMT[s] # old /\ PMT[s] # NewPpn
        BY <1>4, <1>5, <1>6, <1>7, <2>2
      <3>2. flash.page[PMT[s]] = "VALID"
        BY <3>1 DEF IInv, MappedPagesValid, Mapped
      <3>. QED
        BY <1>1, <3>1, <3>2
    <2>. QED
      BY <2>1, <2>2
  <1>13. MappedPagesReadable'
    <2>. SUFFICES ASSUME NEW s \in Slots, PMT'[s] # NoPpn
                  PROVE  PMD'[AnchorOf(s)] # NoPpn
      BY DEF MappedPagesReadable, Mapped
    <2>1. AnchorOf(s) \in Anchors
      BY DEF AnchorOf, Slots, Anchors
    <2>2. CASE AnchorOf(s) = a0
      BY <1>1, <1>6, <2>2
    <2>3. CASE AnchorOf(s) # a0
      BY <1>1, <1>6, <2>1, <2>3 DEF IInv, MappedPagesReadable, Mapped
    <2>. QED
      BY <2>2, <2>3
  <1>14. AnchorsValid'
    <2>. SUFFICES ASSUME NEW a \in Anchors, PMD'[a] # NoPpn
                  PROVE  flash'.page[PMD'[a]] = "VALID"
      BY DEF AnchorsValid
    <2>1. CASE a = a0
      BY <1>1, <1>6, <2>1
    <2>2. CASE a # a0
      <3>1. PMD'[a] = PMD[a] /\ PMD[a] \in Ppns /\ PMD[a] # old /\ PMD[a] # NewPpn
        BY <1>4, <1>5, <1>6, <1>8, <2>2
      <3>2. flash.page[PMD[a]] = "VALID"
        BY <3>1 DEF IInv, AnchorsValid
      <3>. QED
        BY <1>1, <3>1, <3>2
    <2>. QED
      BY <2>1, <2>2
  <1>15. AnchorsOwnTable'
    <2>. SUFFICES ASSUME NEW a \in Anchors, NEW s \in Slots,
                         PMT'[s] # NoPpn, PMD'[a] = PMT'[s]
                  PROVE  AnchorOf(s) = a
      BY DEF AnchorsOwnTable, Mapped
    <2>1. CASE a = a0 /\ s = s0
      BY <1>1, <2>1
    <2>2. CASE a = a0 /\ s # s0
      BY <1>4, <1>6, <2>2
    <2>3. CASE a # a0 /\ s = s0
      BY <1>4, <1>6, <2>3
    <2>4. CASE a # a0 /\ s # s0
      BY <1>6, <2>4 DEF IInv, AnchorsOwnTable, Mapped
    <2>. QED
      BY <2>1, <2>2, <2>3, <2>4
  <1>16. MappedPagesHavePayload'
    <2>. SUFFICES ASSUME NEW s \in Slots, PMT'[s] # NoPpn
                  PROVE  flash'.data[PMT'[s]] \in Payloads
      BY DEF MappedPagesHavePayload, Mapped
    <2>1. flash.data \in [Ppns -> Contents]
      BY <1>5 DEF FlashType
    <2>2. CASE s = s0
      BY <1>1, <1>6, <2>1, <2>2
    <2>3. CASE s # s0
      <3>1. PMT'[s] = PMT[s] /\ PMT[s] \in Ppns /\ PMT[s] # NewPpn
        BY <1>4, <1>5, <1>6, <2>3
      <3>2. flash.data[PMT[s]] \in Payloads
        BY <3>1 DEF IInv, MappedPagesHavePayload, Mapped
      <3>. QED
        BY <1>1, <2>1, <3>1, <3>2
    <2>. QED
      BY <2>2, <2>3
  <1>17. BufferProgrammed'
    <2>1. CASE global_buffer = NoPpn
      BY <1>3, <2>1 DEF BufferProgrammed
    <2>2. CASE global_buffer # NoPpn
      <3>1. flash.page[global_buffer] # "EMPTY"
        BY <2>2 DEF IInv, BufferProgrammed
      <3>. QED
        BY <1>1, <1>3, <1>4, <1>5, <2>2, <3>1 DEF BufferProgrammed
    <2>. QED
      BY <2>1, <2>2
  <1>18. PagesFilledInOrder'
    <2>1. flash.pages_valid \in [Blocks -> Nat]
      BY <1>5 DEF FlashType
    <2>2. /\ flash'.pages_valid[TargetBlock] = flash.pages_valid[TargetBlock] + 1
          /\ \A b \in Blocks : b # TargetBlock => flash'.pages_valid[b] = flash.pages_valid[b]
      BY <1>1, <1>2, <2>1
    <2>3. \A b \in Blocks :
            /\ b >= bm'.fresh => flash'.pages_valid[b] = 0
            /\ b < bm'.fresh /\ b # current_block' => flash'.pages_valid[b] = BLOCK_SIZE
      <3>1. bm'.fresh \in Int
        BY <1>2, <1>3 DEF BlockManagerType
      <3>. QED
        BY <1>2, <1>3, <2>2, <3>1 DEF Blocks
    <2>4. current_page_offset' = flash'.pages_valid[current_block']
      BY <1>2, <1>3, <2>2
    <2>5. ASSUME NEW p \in Ppns
          PROVE  flash'.page[p] = "EMPTY" <=> p[2] >= flash'.pages_valid[p[1]]
      <3>1. flash.page[p] = "EMPTY" <=> p[2] >= flash.pages_valid[p[1]]
        BY DEF IInv, PagesFilledInOrder
      <3>2. p[1] \in Blocks /\ p[2] \in Nat /\ p = <<p[1], p[2]>>
        BY DEF Ppns, Offsets
      <3>3. CASE p = NewPpn
        BY <1>1, <1>2, <2>1, <2>2, <3>3
      <3>4. CASE p = old
        <4>1. flash.page[p] = "VALID"
          BY <1>1, <3>4 DEF IInv, MappedPagesValid, Mapped
        <4>2. p # NewPpn
          BY <1>1, <1>4, <3>4
        <4>3. ~(p[2] >= flash'.pages_valid[p[1]])
          BY <2>1, <2>2, <3>1, <3>2, <4>1
        <4>. QED
          BY <1>1, <3>4, <4>3
      <3>5. CASE p # NewPpn /\ p # old
        <4>1. flash'.page[p] = flash.page[p]
          BY <1>1, <3>5
        <4>2. CASE p[1] # TargetBlock
          BY <2>2, <3>1, <3>2, <4>1, <4>2
        <4>3. CASE p[1] = TargetBlock
          <5>1. p[2] # flash.pages_valid[TargetBlock]
            BY <1>2, <3>2, <3>5, <4>3
          <5>. QED
            BY <1>2, <2>1, <2>2, <3>1, <3>2, <4>1, <4>3, <5>1
        <4>. QED
          BY <4>2, <4>3
      <3>. QED
        BY <3>3, <3>4, <3>5
    <2>. QED
      BY <2>3, <2>4, <2>5 DEF PagesFilledInOrder
  <1>19. AbortsOnlyWhenAllProgrammed'
    BY <1>3 DEF AbortsOnlyWhenAllProgrammed
  <1>. QED
    BY <1>9, <1>10, <1>11, <1>12, <1>13, <1>14, <1>15, <1>16, <1>17, <1>18, <1>19
       DEF IInv

\* A read only moves the host buffer.
LEMMA ReadKeepsIInv ==
  ASSUME IInv, NEW lpn \in Lpns, Read(lpn)
  PROVE  IInv'
  <1>1. /\ Slot(lpn) \in Slots
        /\ PMT[Slot(lpn)] \in Ppns
        /\ global_buffer' = PMT[Slot(lpn)]
        /\ UNCHANGED <<flash, bm, PMD, PMT, current_block, current_page_offset, abort>>
    BY SlotInRange DEF Read, tables, IInv, TypeOK
  <1>2. flash.page[PMT[Slot(lpn)]] = "VALID"
    BY <1>1, NoPpnNotPage DEF IInv, MappedPagesValid, Mapped
  <1>3. TypeOK' /\ BufferProgrammed'
    BY <1>1, <1>2 DEF IInv, TypeOK, BufferProgrammed
  <1>. QED
    BY <1>1, <1>3
       DEF IInv, NoBlockReturned, MappingInjective, MappedPagesValid,
           MappedPagesReadable, AnchorsValid, AnchorsOwnTable,
           MappedPagesHavePayload, PagesFilledInOrder,
           AbortsOnlyWhenAllProgrammed, Mapped

\* A trim only forgets a slot, so it can disturb nothing about the array.
LEMMA TrimKeepsIInv ==
  ASSUME IInv, NEW lpn \in Lpns, Trim(lpn)
  PROVE  IInv'
  <1>1. /\ PMT' = [PMT EXCEPT ![Slot(lpn)] = NoPpn]
        /\ UNCHANGED <<flash, bm, PMD, current_block, current_page_offset,
                       global_buffer, abort>>
    BY DEF Trim
  <1>2. PMT \in [Slots -> Ppns \cup {NoPpn}]
    BY DEF IInv, TypeOK
  <1>3. \A s \in Slots : PMT'[s] # NoPpn => PMT'[s] = PMT[s]
    BY <1>1, <1>2
  <1>4. TypeOK'
    BY <1>1, <1>2 DEF IInv, TypeOK
  <1>5. MappingInjective'
    BY <1>3 DEF IInv, MappingInjective, Mapped
  <1>6. MappedPagesValid' /\ MappedPagesReadable' /\ AnchorsOwnTable'
        /\ MappedPagesHavePayload'
    BY <1>1, <1>3 DEF IInv, MappedPagesValid, MappedPagesReadable,
                      AnchorsOwnTable, MappedPagesHavePayload, Mapped
  <1>7. NoBlockReturned' /\ AnchorsValid' /\ BufferProgrammed' /\ PagesFilledInOrder'
        /\ AbortsOnlyWhenAllProgrammed'
    BY <1>1 DEF IInv, NoBlockReturned, AnchorsValid, BufferProgrammed,
                PagesFilledInOrder, AbortsOnlyWhenAllProgrammed
  <1>. QED
    BY <1>4, <1>5, <1>6, <1>7 DEF IInv

\* The one assert that can fail does so when every page is programmed.
LEMMA WriteAbortsKeepsIInv ==
  ASSUME IInv, WriteAborts
  PROVE  IInv'
  <1>. USE GeometryAssumption
  <1>1. /\ abort' = AllocFailure
        /\ AllocFailure # "none"
        /\ UNCHANGED <<flash, bm, PMD, PMT, current_block, current_page_offset,
                       global_buffer>>
    BY DEF WriteAborts, Die
  <1>2. /\ abort' = "no_free_block"
        /\ NeedsBlock
        /\ OutOfBlocks(bm)
    BY <1>1, OnlyOutOfBlocks
  <1>3. /\ flash \in FlashType
        /\ bm.fresh \in 0 .. NUMBER_OF_ADDRESSABLE_BLOCKS
    BY DEF IInv, TypeOK, BlockManagerType
  <1>4. bm.fresh = NUMBER_OF_ADDRESSABLE_BLOCKS
    BY <1>2, <1>3 DEF OutOfBlocks, FreshBlockLeft
  <1>5. \A b \in Blocks : flash.pages_valid[b] = BLOCK_SIZE
    <2>. SUFFICES ASSUME NEW b \in Blocks PROVE flash.pages_valid[b] = BLOCK_SIZE
      OBVIOUS
    <2>1. b < bm.fresh /\ b # NoBlock
      BY <1>4 DEF Blocks, NoBlock
    <2>2. CASE b = current_block
      BY <1>2, <2>1, <2>2 DEF NeedsBlock, P, IInv, PagesFilledInOrder
    <2>3. CASE b # current_block
      BY <2>1, <2>3 DEF IInv, PagesFilledInOrder
    <2>. QED
      BY <2>2, <2>3
  <1>6. \A p \in Ppns : flash.page[p] # "EMPTY"
    BY <1>5 DEF IInv, PagesFilledInOrder, Ppns, Offsets
  <1>7. TypeOK' /\ AbortsOnlyWhenAllProgrammed'
    BY <1>1, <1>2, <1>6 DEF IInv, TypeOK, Aborts, AbortsOnlyWhenAllProgrammed
  <1>. QED
    BY <1>1, <1>7
       DEF IInv, NoBlockReturned, MappingInjective, MappedPagesValid,
           MappedPagesReadable, AnchorsValid, AnchorsOwnTable,
           MappedPagesHavePayload, BufferProgrammed, PagesFilledInOrder, Mapped

\* The invariant depends on the variables alone.
LEMMA StutterKeepsIInv == IInv /\ UNCHANGED vars => IInv'
  BY DEF IInv, vars, TypeOK, NoBlockReturned, MappingInjective, MappedPagesValid,
         MappedPagesReadable, AnchorsValid, AnchorsOwnTable,
         MappedPagesHavePayload, BufferProgrammed, PagesFilledInOrder,
         AbortsOnlyWhenAllProgrammed, Mapped

\* The inductive invariant holds in every reachable state.
THEOREM Invariance == Spec => []IInv
  <1>1. IInv /\ [Next]_vars => IInv'
    <2>. SUFFICES ASSUME IInv, [Next]_vars PROVE IInv'
      OBVIOUS
    <2>1. ASSUME NEW lpn \in Lpns, NEW d \in Payloads, Write(lpn, d) PROVE IInv'
      BY <2>1, WriteKeepsIInv
    <2>2. ASSUME NEW lpn \in Lpns, Read(lpn) PROVE IInv'
      BY <2>2, ReadKeepsIInv
    <2>3. ASSUME NEW lpn \in Lpns, Trim(lpn) PROVE IInv'
      BY <2>3, TrimKeepsIInv
    <2>4. CASE WriteAborts
      BY <2>4, WriteAbortsKeepsIInv
    <2>5. CASE UNCHANGED vars
      BY <2>5, StutterKeepsIInv
    <2>. QED
      BY <2>1, <2>2, <2>3, <2>4, <2>5 DEF Next
  <1>. QED
    BY <1>1, InitIInv, PTL DEF Spec

---------------------------------------------------------------------------
(* What the invariant gives.                                               *)

\* The variables keep their types.
THEOREM TypeCorrect == Spec => []TypeOK
  BY Invariance, PTL DEF IInv

\* No two logical pages ever share a flash page, whatever writes and trims came
\* before and whichever slots of a table they left.
THEOREM SlotsDistinct == Spec => []MappingInjective
  <1>1. IInv => MappingInjective
    BY DEF IInv
  <1>. QED
    BY <1>1, Invariance, PTL

\* A mapped page is VALID and reachable through its anchor.
THEOREM MappingSound == Spec => [](MappedPagesValid /\ MappedPagesReadable)
  <1>1. IInv => MappedPagesValid /\ MappedPagesReadable
    BY DEF IInv
  <1>. QED
    BY <1>1, Invariance, PTL

\* The page that holds a mapping table is never invalidated under it.
THEOREM AnchorsStayValid == Spec => []AnchorsValid
  <1>1. IInv => AnchorsValid
    BY DEF IInv
  <1>. QED
    BY <1>1, Invariance, PTL

\* Pages are programmed in order and block after block, so the asserts of
\* Page::_write and Plane::get_free_page never fail.
THEOREM FilledInOrder == Spec => []PagesFilledInOrder
  <1>1. IInv => PagesFilledInOrder
    BY DEF IInv
  <1>. QED
    BY <1>1, Invariance, PTL

\* The program can only end for want of a free block, with every page of the
\* device programmed.
THEOREM AbortsOnlyWhenFull == Spec => []AbortsOnlyWhenAllProgrammed
  <1>1. IInv => AbortsOnlyWhenAllProgrammed
    BY DEF IInv
  <1>. QED
    BY <1>1, Invariance, PTL

\* A write neither adds to the VALID pages nobody maps to, nor reuses one.
THEOREM OrphansOnlyFromTrim == Spec => WritesLeaveNoOrphans
  <1>1. IInv /\ [Next]_vars => [flash' # flash => Orphans' = Orphans]_vars
    <2>. SUFFICES ASSUME IInv, [Next]_vars, flash' # flash PROVE Orphans' = Orphans
      OBVIOUS
    <2>1. PICK lpn \in Lpns, d \in Payloads : Write(lpn, d)
      BY DEF Next, vars, WriteAborts, Die, Read, Trim
    <2>2. /\ Slot(lpn) \in Slots
          /\ NewPpn \in Ppns
          /\ flash.page[NewPpn] = "EMPTY"
          /\ PMT[Slot(lpn)] # NoPpn => flash'.page[PMT[Slot(lpn)]] = "INVALID"
          /\ \A p \in Ppns : p # NewPpn /\ p # PMT[Slot(lpn)]
               => flash'.page[p] = flash.page[p]
      BY <2>1, WriteEffect
    <2>3. PMT \in [Slots -> Ppns \cup {NoPpn}]
      BY DEF IInv, TypeOK
    <2>4. /\ PMT'[Slot(lpn)] = NewPpn
          /\ \A s \in Slots : s # Slot(lpn) => PMT'[s] = PMT[s]
      BY <2>1, <2>2, <2>3 DEF Write
    <2>5. ASSUME NEW p \in Ppns
          PROVE  (flash'.page[p] = "VALID" /\ \A s \in Slots : PMT'[s] # p)
                   <=> (flash.page[p] = "VALID" /\ \A s \in Slots : PMT[s] # p)
      <3>1. CASE p = NewPpn
        BY <2>2, <2>4, <3>1
      <3>2. CASE p = PMT[Slot(lpn)]
        BY <2>2, <3>2, NoPpnNotPage
      <3>3. CASE p # NewPpn /\ p # PMT[Slot(lpn)]
        BY <2>2, <2>4, <3>3
      <3>. QED
        BY <3>1, <3>2, <3>3
    <2>. QED
      BY <2>5 DEF Orphans
  <1>. QED
    BY <1>1, Invariance, PTL DEF Spec, WritesLeaveNoOrphans

---------------------------------------------------------------------------
(* The mapping tables and the array implement the logical disk.            *)

\* A device never written is an empty logical disk.
LEMMA InitRefines == Init => Disk!Init
  <1>. SUFFICES ASSUME Init PROVE Disk!Init
    OBVIOUS
  <1>1. \A l \in Lpns : ~Mapped(Slot(l))
    BY SlotInRange DEF Init, Mapped
  <1>2. disk = [l \in Lpns |-> NoData]
    BY <1>1 DEF disk
  <1>3. buffer = NoData
    BY DEF Init, buffer
  <1>. QED
    BY <1>2, <1>3 DEF Disk!Init

\* A write of lpn is a write of that logical page and of no other.
LEMMA WriteRefines ==
  ASSUME IInv, NEW lpn \in Lpns, NEW d \in Payloads, Write(lpn, d)
  PROVE  Disk!Write(lpn, d)
  <1>1. /\ Slot(lpn) \in Slots
        /\ NewPpn \in Ppns
        /\ flash.page[NewPpn] = "EMPTY"
        /\ flash'.data = [flash.data EXCEPT ![NewPpn] = d]
    BY WriteEffect
  <1>2. /\ \A s \in Slots : PMT[s] # NewPpn
        /\ global_buffer # NewPpn
    BY <1>1, MappedAreOld
  <1>3. /\ PMT \in [Slots -> Ppns \cup {NoPpn}]
        /\ flash.data \in [Ppns -> Contents]
        /\ global_buffer \in Ppns \cup {NoPpn}
    BY DEF IInv, TypeOK, FlashType
  <1>4. /\ PMT' = [PMT EXCEPT ![Slot(lpn)] = NewPpn]
        /\ global_buffer' = global_buffer
    BY DEF Write
  <1>5. ASSUME NEW l \in Lpns
        PROVE  disk'[l] = IF l = lpn THEN d ELSE disk[l]
    <2>1. Slot(l) \in Slots
      BY SlotInRange
    <2>2. CASE l = lpn
      <3>1. PMT'[Slot(l)] = NewPpn /\ NewPpn # NoPpn
        BY <1>1, <1>3, <1>4, <2>2, NoPpnNotPage
      <3>. QED
        BY <1>1, <1>3, <2>2, <3>1 DEF disk, Mapped
    <2>3. CASE l # lpn
      <3>1. Slot(l) # Slot(lpn)
        BY <2>3, SlotInjective
      <3>2. PMT'[Slot(l)] = PMT[Slot(l)]
        BY <1>3, <1>4, <2>1, <3>1
      <3>3. PMT[Slot(l)] # NoPpn => flash'.data[PMT[Slot(l)]] = flash.data[PMT[Slot(l)]]
        BY <1>1, <1>2, <1>3, <2>1
      <3>. QED
        BY <2>3, <3>2, <3>3 DEF disk, Mapped
    <2>. QED
      BY <2>2, <2>3
  <1>6. disk' = [disk EXCEPT ![lpn] = d]
    BY <1>5 DEF disk
  <1>7. buffer' = buffer
    BY <1>1, <1>2, <1>3, <1>4 DEF buffer
  <1>. QED
    BY <1>6, <1>7 DEF Disk!Write

\* A read that is served returns the content of its logical page.
LEMMA ReadRefines ==
  ASSUME IInv, NEW lpn \in Lpns, Read(lpn)
  PROVE  Disk!Read(lpn)
  <1>1. /\ Slot(lpn) \in Slots
        /\ Mapped(Slot(lpn))
        /\ global_buffer' = PMT[Slot(lpn)]
        /\ flash' = flash
        /\ PMT' = PMT
    BY SlotInRange DEF Read, tables, Mapped
  <1>2. disk[lpn] = flash.data[PMT[Slot(lpn)]]
    BY <1>1 DEF disk
  <1>3. disk[lpn] # NoData
    BY <1>1, <1>2, PayloadAssumption DEF IInv, MappedPagesHavePayload
  <1>4. buffer' = disk[lpn]
    BY <1>1, <1>2 DEF buffer, Mapped
  <1>5. disk' = disk
    BY <1>1 DEF disk, Mapped
  <1>. QED
    BY <1>3, <1>4, <1>5 DEF Disk!Read

\* A trim empties its logical page and no other.
LEMMA TrimRefines ==
  ASSUME IInv, NEW lpn \in Lpns, Trim(lpn)
  PROVE  Disk!Trim(lpn)
  <1>1. /\ PMT' = [PMT EXCEPT ![Slot(lpn)] = NoPpn]
        /\ flash' = flash
        /\ global_buffer' = global_buffer
    BY DEF Trim
  <1>2. PMT \in [Slots -> Ppns \cup {NoPpn}]
    BY DEF IInv, TypeOK
  <1>3. ASSUME NEW l \in Lpns
        PROVE  disk'[l] = IF l = lpn THEN NoData ELSE disk[l]
    <2>1. Slot(l) \in Slots
      BY SlotInRange
    <2>2. CASE l = lpn
      BY <1>1, <1>2, <2>1, <2>2 DEF disk, Mapped
    <2>3. CASE l # lpn
      <3>1. PMT'[Slot(l)] = PMT[Slot(l)]
        BY <1>1, <1>2, <2>1, <2>3, SlotInjective
      <3>. QED
        BY <1>1, <2>3, <3>1 DEF disk, Mapped
    <2>. QED
      BY <2>2, <2>3
  <1>4. disk' = [disk EXCEPT ![lpn] = NoData]
    BY <1>3 DEF disk
  <1>5. buffer' = buffer
    BY <1>1 DEF buffer
  <1>. QED
    BY <1>4, <1>5 DEF Disk!Trim

\* MNFTL implements LogicalDisk: whatever the host does, and whatever the
\* geometry, each logical page reads back what was last written to it.
THEOREM Refinement == Spec => ReadsReturnLastWrite
  <1>1. IInv /\ [Next]_vars => [Disk!Next]_<<disk, buffer>>
    <2>. SUFFICES ASSUME IInv, [Next]_vars
                  PROVE  Disk!Next \/ UNCHANGED <<disk, buffer>>
      OBVIOUS
    <2>1. ASSUME NEW lpn \in Lpns, NEW d \in Payloads, Write(lpn, d)
          PROVE  Disk!Next
      BY <2>1, WriteRefines DEF Disk!Next
    <2>2. ASSUME NEW lpn \in Lpns, Read(lpn)
          PROVE  Disk!Next
      BY <2>2, ReadRefines DEF Disk!Next
    <2>3. ASSUME NEW lpn \in Lpns, Trim(lpn)
          PROVE  Disk!Next
      BY <2>3, TrimRefines DEF Disk!Next
    <2>4. CASE WriteAborts
      BY <2>4 DEF WriteAborts, Die, disk, buffer, Mapped
    <2>5. CASE UNCHANGED vars
      BY <2>5 DEF vars, disk, buffer, Mapped
    <2>. QED
      BY <2>1, <2>2, <2>3, <2>4, <2>5 DEF Next
  <1>2. IInv => AsAsked
    <2>. SUFFICES ASSUME IInv, NEW lpn \in Lpns
                  PROVE  /\ \A d \in Payloads : Write(lpn, d) => Disk!Write(lpn, d)
                         /\ Read(lpn) => Disk!Read(lpn)
                         /\ Trim(lpn) => Disk!Trim(lpn)
      BY Zenon DEF AsAsked
    <2>1. ASSUME NEW d \in Payloads, Write(lpn, d)
          PROVE  Disk!Write(lpn, d)
      BY <2>1, WriteRefines
    <2>2. Read(lpn) => Disk!Read(lpn)
      BY ReadRefines
    <2>3. Trim(lpn) => Disk!Trim(lpn)
      BY TrimRefines
    <2>. QED
      BY <2>1, <2>2, <2>3
  <1>. QED
    BY <1>1, <1>2, InitRefines, Invariance, PTL DEF Spec, ReadsReturnLastWrite, Disk!Spec

---------------------------------------------------------------------------
(* Cleanups between the requests (MNFtlCleanup).  Blocks now come back, so *)
(* pages are no longer filled block after block and the anchors go stale;  *)
(* what a cleanup must not lose needs an invariant of its own.             *)

\* The pages of a block are programmed from its start, and the counter says
\* how many are.
FilledFromStart ==
  \A p \in Ppns : flash.page[p] = "EMPTY" <=> p[2] >= flash.pages_valid[p[1]]

\* Nothing waits for an erase, and a block that can be handed out is empty.
FreeBlocksErased ==
  /\ bm.invalid_list = << >>
  /\ \A b \in Blocks :
       b >= bm.fresh \/ b \in Members(bm.free_list) => flash.pages_valid[b] = 0

\* The block the FTL fills is the one the Block_manager believes is written,
\* it is not free, and the FTL's offset is the block's own counter.
CurrentBlockOwned ==
  /\ bm.current_writing_block = current_block
  /\ current_block # NoBlock =>
       /\ current_block < bm.fresh
       /\ current_block \notin Members(bm.free_list)
       /\ current_page_offset = flash.pages_valid[current_block]

\* No page of the victim before the loop's position is still VALID, and the
\* copies go to other blocks.
VictimCleaned ==
  victim # NoBlock =>
    /\ victim # current_block
    /\ flash.pages_valid[victim] = BLOCK_SIZE
    /\ \A i \in Offsets : i < next => flash.page[<<victim, i>>] # "VALID"

\* The asserts of Plane::get_free_page and Page::_write never fail.
OnlyBlockAsserts == abort \in {"none", "no_free_block", "erase_failed"}

CleanupInv ==
  /\ CleanupTypeOK
  /\ FlashSound(flash)
  /\ ListsSound(bm)
  /\ FilledFromStart
  /\ FreeBlocksErased
  /\ CurrentBlockOwned
  /\ VictimCleaned
  /\ MappingInjective
  /\ MappedPagesValid
  /\ MappedPagesReadable
  /\ OnlyBlockAsserts

---------------------------------------------------------------------------
(* Where the next page goes while blocks come back.                        *)

LEMMA NoMembersNoList ==
  ASSUME NEW s \in Seq(Blocks), Members(s) = {}
  PROVE  s = << >>
  <1>1. Len(s) \in Nat
    OBVIOUS
  <1>2. \A i \in 1 .. Len(s) : s[i] \in Members(s)
    BY DEF Members
  <1>3. Len(s) = 0
    BY <1>1, <1>2
  <1>. QED
    BY <1>3

\* With nothing to erase the block get_free_block returns was empty and in no
\* list, and it is in no list afterwards.
LEMMA FreeBlockTaken ==
  ASSUME NEW m, ListsSound(m), m.invalid_list = << >>, ~OutOfBlocks(m),
         NEW f \in FlashType
  PROVE  /\ ListsSound(GetFreeBlock(m, "DATA"))
         /\ GetFreeBlock(m, "DATA").invalid_list = << >>
         /\ GetFreeBlock(m, "DATA").current_writing_block = NextBlock(m)
         /\ NextBlock(m) \in Blocks
         /\ NextBlock(m) >= m.fresh \/ NextBlock(m) \in Members(m.free_list)
         /\ NextBlock(m) < GetFreeBlock(m, "DATA").fresh
         /\ NextBlock(m) \notin Members(GetFreeBlock(m, "DATA").free_list)
         /\ m.fresh <= GetFreeBlock(m, "DATA").fresh
         /\ Members(GetFreeBlock(m, "DATA").free_list) \subseteq Members(m.free_list)
  <1>. DEFINE g == GetPageBlock(m)
              n == NextBlock(m)
              c == GetFreeBlock(m, "DATA")
  <1>1. m \in BlockManagerType
    BY DEF ListsSound
  <1>2. Reclaimed(m) = {} /\ ~ServiceFails(m, f)
    BY <1>1, NoGarbage
  <1>3. /\ ListsSound(g)
        /\ n \in Blocks
        /\ Members(g.invalid_list) = Members(m.invalid_list) \ Reclaimed(m)
        /\ Members(g.free_list) = (Members(m.free_list) \cup Reclaimed(m)) \ {n}
        /\ \/ n = m.fresh /\ g.fresh = m.fresh + 1
           \/ n \in Members(m.free_list) \cup Reclaimed(m) /\ g.fresh = m.fresh
    BY <1>2, PageBlockEffect
  <1>4. g \in BlockManagerType
    BY <1>3 DEF ListsSound
  <1>5. g.invalid_list = << >>
    <2>1. Members(m.invalid_list) = {}
      BY DEF Members
    <2>2. g.invalid_list \in Seq(Blocks)
      BY <1>4 DEF BlockManagerType
    <2>. QED
      BY <1>3, <2>1, <2>2, NoMembersNoList
  <1>6. g.current_writing_block = n
    <2>1. CASE FreshBlockLeft(m)
      <3>1. n = m.fresh
        BY <2>1 DEF NextBlock
      <3>2. g = [m EXCEPT !.fresh = m.fresh + 1, !.current_writing_block = m.fresh]
        BY <2>1 DEF GetPageBlock
      <3>. QED
        BY <1>1, <3>1, <3>2 DEF BlockManagerType
    <2>2. CASE ~FreshBlockLeft(m)
      <3>1. n = Head(Serviced(m).free_list) /\ g = TakeFree(Serviced(m))
        BY <2>2 DEF NextBlock, GetPageBlock
      <3>2. Serviced(m) \in BlockManagerType
        BY <1>1, InsertEventsType DEF Serviced
      <3>. QED
        BY <3>1, <3>2 DEF TakeFree, BlockManagerType
    <2>. QED
      BY <2>1, <2>2
  <1>7. /\ c \in BlockManagerType
        /\ c.fresh = g.fresh
        /\ c.free_list = g.free_list
        /\ c.invalid_list = g.invalid_list
        /\ c.out_of_blocks = g.out_of_blocks
    BY <1>4, CountActiveEffect DEF GetFreeBlock, BlockTypes
  <1>8. c.current_writing_block = g.current_writing_block
    BY <1>4 DEF GetFreeBlock, CountActive, BlockManagerType
  <1>9. m.fresh \in Int /\ g.fresh \in Int /\ Members(m.free_list) \subseteq Blocks
    BY <1>1, <1>4, ListMembers DEF BlockManagerType
  <1>10. \A b \in Members(m.free_list) : b < m.fresh
    BY DEF ListsSound
  <1>. HIDE DEF g, n, c
  <1>11. ListsSound(c)
    BY <1>3, <1>7 DEF ListsSound
  <1>12. n \notin Members(g.free_list) /\ Members(g.free_list) \subseteq Members(m.free_list)
    BY <1>2, <1>3
  <1>13. n \in Int
    BY <1>3 DEF Blocks
  <1>14. (n >= m.fresh \/ n \in Members(m.free_list)) /\ n < g.fresh /\ m.fresh <= g.fresh
    BY <1>2, <1>3, <1>9, <1>10, <1>13
  <1>15. c.invalid_list = << >> /\ c.current_writing_block = n
    BY <1>5, <1>6, <1>7, <1>8
  <1>. QED
    BY <1>3, <1>7, <1>11, <1>12, <1>14, <1>15 DEF g, n, c

\* A page is taken from a block with an EMPTY page left, or there is no block;
\* the block is no longer free and the next page of it is EMPTY.
LEMMA CleanupTarget ==
  ASSUME CleanupInv, ~(NeedsBlock /\ OutOfBlocks(bm))
  PROVE  /\ TargetFlash = flash
         /\ TargetBlock \in Blocks
         /\ TargetOffset = flash.pages_valid[TargetBlock]
         /\ TargetOffset \in 0 .. BLOCK_SIZE - 1
         /\ NewPpn = FreePage(flash, TargetBlock)
         /\ NewPpn \in Ppns
         /\ flash.page[NewPpn] = "EMPTY"
         /\ ListsSound(TargetManager)
         /\ TargetManager.invalid_list = << >>
         /\ TargetManager.current_writing_block = TargetBlock
         /\ TargetBlock < TargetManager.fresh
         /\ TargetBlock \notin Members(TargetManager.free_list)
         /\ \A b \in Blocks :
              b >= TargetManager.fresh \/ b \in Members(TargetManager.free_list)
                => flash.pages_valid[b] = 0
  <1>1. /\ flash \in FlashType
        /\ ListsSound(bm)
        /\ bm.invalid_list = << >>
        /\ bm \in BlockManagerType
        /\ current_block \in Blocks \cup {NoBlock}
        /\ current_page_offset \in 0 .. BLOCK_SIZE
    BY DEF CleanupInv, CleanupTypeOK, TypeOK, FreeBlocksErased
  <1>2. \A b \in Blocks :
          b >= bm.fresh \/ b \in Members(bm.free_list) => flash.pages_valid[b] = 0
    BY DEF CleanupInv, FreeBlocksErased
  <1>3. TargetFlash = flash
    BY <1>1, NoGarbage DEF TargetFlash
  <1>4. NewPpn = FreePage(flash, TargetBlock)
    BY <1>3 DEF NewPpn
  <1>5. ASSUME TargetBlock \in Blocks, flash.pages_valid[TargetBlock] \in 0 .. BLOCK_SIZE - 1
        PROVE  NewPpn \in Ppns /\ flash.page[NewPpn] = "EMPTY"
    <2>1. NewPpn \in Ppns /\ NewPpn[1] = TargetBlock
          /\ NewPpn[2] = flash.pages_valid[TargetBlock]
      BY <1>4, <1>5 DEF FreePage, Ppns, Offsets
    <2>2. flash.page[NewPpn] = "EMPTY" <=> NewPpn[2] >= flash.pages_valid[NewPpn[1]]
      BY <2>1 DEF CleanupInv, FilledFromStart
    <2>3. NewPpn[2] >= flash.pages_valid[NewPpn[1]]
      BY <1>5, <2>1
    <2>. QED
      BY <2>1, <2>2, <2>3
  <1>6. CASE NeedsBlock
    <2>1. TargetBlock = NextBlock(bm) /\ TargetOffset = 0
          /\ TargetManager = GetFreeBlock(bm, "DATA")
      BY <1>6 DEF TargetBlock, TargetOffset, TargetManager
    <2>2. ~OutOfBlocks(bm)
      BY <1>6
    <2>3. /\ ListsSound(TargetManager)
          /\ TargetManager.invalid_list = << >>
          /\ TargetManager.current_writing_block = TargetBlock
          /\ TargetBlock \in Blocks
          /\ TargetBlock >= bm.fresh \/ TargetBlock \in Members(bm.free_list)
          /\ TargetBlock < TargetManager.fresh
          /\ TargetBlock \notin Members(TargetManager.free_list)
          /\ bm.fresh <= TargetManager.fresh
          /\ Members(TargetManager.free_list) \subseteq Members(bm.free_list)
      BY <1>1, <2>1, <2>2, FreeBlockTaken
    <2>4. flash.pages_valid[TargetBlock] = 0
      BY <1>2, <2>3
    <2>5. bm.fresh \in Int /\ TargetManager.fresh \in Int
      BY <1>1, <2>3 DEF ListsSound, BlockManagerType
    <2>6. ASSUME NEW b \in Blocks,
                 b >= TargetManager.fresh \/ b \in Members(TargetManager.free_list)
          PROVE  flash.pages_valid[b] = 0
      <3>1. b >= bm.fresh \/ b \in Members(bm.free_list)
        BY <2>3, <2>5, <2>6 DEF Blocks
      <3>. QED
        BY <1>2, <3>1
    <2>7. 0 \in 0 .. BLOCK_SIZE - 1
      BY GeometryAssumption
    <2>8. NewPpn \in Ppns /\ flash.page[NewPpn] = "EMPTY"
      BY <1>5, <2>3, <2>4, <2>7
    <2>. QED
      BY <1>3, <1>4, <2>1, <2>3, <2>4, <2>6, <2>7, <2>8, ZenonT(30)
  <1>7. CASE ~NeedsBlock
    <2>1. TargetBlock = current_block /\ TargetOffset = current_page_offset
          /\ TargetManager = bm
      BY <1>7 DEF TargetBlock, TargetOffset, TargetManager
    <2>2. current_block \in Blocks /\ current_block # NoBlock
          /\ current_page_offset \in 0 .. BLOCK_SIZE - 1
      BY <1>1, <1>7, GeometryAssumption DEF NeedsBlock, P
    <2>3. /\ bm.current_writing_block = current_block
          /\ current_block < bm.fresh
          /\ current_block \notin Members(bm.free_list)
          /\ current_page_offset = flash.pages_valid[current_block]
      BY <2>2 DEF CleanupInv, CurrentBlockOwned
    <2>4. NewPpn \in Ppns /\ flash.page[NewPpn] = "EMPTY"
      BY <1>5, <2>1, <2>2, <2>3
    <2>. QED
      BY <1>1, <1>2, <1>3, <1>4, <2>1, <2>2, <2>3, <2>4
  <1>. QED
    BY <1>6, <1>7

\* The assert of get_page_block is the only one an allocation can fail.
LEMMA CleanupAllocation ==
  ASSUME CleanupInv
  PROVE  /\ AllocFailure \in {"none", "no_free_block"}
         /\ AllocFailure = "none" => ~(NeedsBlock /\ OutOfBlocks(bm))
  <1>1. ~ServiceFails(bm, flash)
    BY NoGarbage DEF CleanupInv, CleanupTypeOK, TypeOK, FreeBlocksErased
  <1>2. CASE NeedsBlock /\ OutOfBlocks(bm)
    BY <1>1, <1>2 DEF AllocFailure
  <1>3. CASE ~(NeedsBlock /\ OutOfBlocks(bm))
    <2>1. /\ TargetFlash = flash
          /\ TargetOffset = flash.pages_valid[TargetBlock]
          /\ TargetOffset \in 0 .. BLOCK_SIZE - 1
          /\ flash.page[NewPpn] = "EMPTY"
      BY <1>3, CleanupTarget
    <2>2. HasFreePage(TargetFlash, TargetBlock)
      BY <2>1, GeometryAssumption DEF HasFreePage
    <2>3. CanProgram(TargetFlash, NewPpn)
      BY <2>1 DEF CanProgram
    <2>. QED
      BY <1>1, <1>3, <2>2, <2>3 DEF AllocFailure
  <1>. QED
    BY <1>2, <1>3

\* A page appended with a payload, by a write or by a copy, lands on an EMPTY
\* page, invalidates the page it replaces and leaves every other page alone.
LEMMA AppendEffect ==
  ASSUME CleanupInv, AllocFailure = "none", NEW d \in Payloads,
         NEW old \in Ppns \cup {NoPpn}, old # NoPpn => flash.page[old] # "EMPTY",
         AppendPage(d, old)
  PROVE  /\ NewPpn \in Ppns
         /\ flash.page[NewPpn] = "EMPTY"
         /\ NewPpn # old
         /\ FlashSound(flash')
         /\ flash'.page[NewPpn] = "VALID"
         /\ flash'.data[NewPpn] = d
         /\ \A p \in Ppns : p # NewPpn => flash'.data[p] = flash.data[p]
         /\ \A p \in Ppns : p # NewPpn /\ p # old => flash'.page[p] = flash.page[p]
         /\ old # NoPpn => flash'.page[old] = "INVALID"
  <1>1. ~(NeedsBlock /\ OutOfBlocks(bm))
    BY CleanupAllocation
  <1>2. TargetFlash = flash /\ NewPpn \in Ppns /\ flash.page[NewPpn] = "EMPTY"
    BY <1>1, CleanupTarget
  <1>3. flash' = Replace(Program(flash, NewPpn, d), old)
    BY <1>2 DEF AppendPage
  <1>4. NewPpn # old
    BY <1>2, NoPpnNotPage
  <1>5. FlashSound(flash)
    BY DEF CleanupInv
  <1>6. /\ FlashSound(flash')
        /\ \A q \in Ppns :
             /\ flash'.page[q] = IF q = NewPpn THEN "VALID"
                                 ELSE IF q = old THEN "INVALID" ELSE flash.page[q]
             /\ flash'.data[q] = IF q = NewPpn THEN d ELSE flash.data[q]
    BY <1>2, <1>3, <1>4, <1>5, ProgramReplaceEffect
  <1>. QED
    BY <1>2, <1>4, <1>6

\* An append leaves the Block_manager, the current block and the counters of
\* the blocks as the invariant wants them, and does not touch a victim's counter.
LEMMA AppendKeepsBlocks ==
  ASSUME CleanupInv, AllocFailure = "none", NEW d \in Payloads,
         NEW old \in Ppns \cup {NoPpn}, old # NoPpn => flash.page[old] # "EMPTY",
         AppendPage(d, old)
  PROVE  /\ ListsSound(bm)'
         /\ FreeBlocksErased'
         /\ CurrentBlockOwned'
         /\ FilledFromStart'
         /\ current_block' \in Blocks
         /\ current_page_offset' \in 0 .. BLOCK_SIZE
         /\ victim # NoBlock => /\ victim # current_block'
                                /\ flash'.pages_valid[victim] = BLOCK_SIZE
  <1>. USE GeometryAssumption
  <1>1. ~(NeedsBlock /\ OutOfBlocks(bm))
    BY CleanupAllocation
  <1>2. /\ TargetFlash = flash
        /\ TargetBlock \in Blocks
        /\ TargetOffset = flash.pages_valid[TargetBlock]
        /\ TargetOffset \in 0 .. BLOCK_SIZE - 1
        /\ NewPpn = FreePage(flash, TargetBlock)
        /\ NewPpn \in Ppns
        /\ flash.page[NewPpn] = "EMPTY"
        /\ ListsSound(TargetManager)
        /\ TargetManager.invalid_list = << >>
        /\ TargetManager.current_writing_block = TargetBlock
        /\ TargetBlock < TargetManager.fresh
        /\ TargetBlock \notin Members(TargetManager.free_list)
        /\ \A b \in Blocks :
             b >= TargetManager.fresh \/ b \in Members(TargetManager.free_list)
               => flash.pages_valid[b] = 0
    BY <1>1, CleanupTarget
  <1>3. /\ flash' = Replace(Program(flash, NewPpn, d), old)
        /\ bm' = TargetManager
        /\ current_block' = TargetBlock
        /\ current_page_offset' = TargetOffset + 1
    BY <1>2 DEF AppendPage
  <1>4. NewPpn[1] = TargetBlock /\ NewPpn[2] = flash.pages_valid[TargetBlock]
    BY <1>2 DEF FreePage
  <1>5. FlashSound(flash) /\ flash \in FlashType
    BY DEF CleanupInv, FlashSound
  <1>6. NewPpn # old
    BY <1>2, NoPpnNotPage
  <1>7. /\ \A c \in Blocks :
             flash'.pages_valid[c] = IF c = TargetBlock THEN flash.pages_valid[c] + 1
                                                        ELSE flash.pages_valid[c]
        /\ \A q \in Ppns :
             flash'.page[q] = IF q = NewPpn THEN "VALID"
                              ELSE IF q = old THEN "INVALID" ELSE flash.page[q]
    <2>1. /\ \A c \in Blocks :
               flash'.pages_valid[c] = IF c = NewPpn[1] THEN flash.pages_valid[c] + 1
                                                        ELSE flash.pages_valid[c]
          /\ \A q \in Ppns :
               flash'.page[q] = IF q = NewPpn THEN "VALID"
                                ELSE IF q = old THEN "INVALID" ELSE flash.page[q]
      BY <1>2, <1>3, <1>5, <1>6, ProgramReplaceEffect
    <2>. QED
      BY <1>4, <2>1
  <1>8. /\ TargetManager.fresh \in Int
        /\ \A c \in Blocks : c \in Int /\ flash.pages_valid[c] \in Nat
    BY <1>2, <1>5 DEF ListsSound, BlockManagerType, FlashType, Blocks
  <1>9. ListsSound(bm)'
    BY <1>2, <1>3
  <1>10. FreeBlocksErased'
    <2>1. ASSUME NEW b \in Blocks,
                 b >= TargetManager.fresh \/ b \in Members(TargetManager.free_list)
          PROVE  flash'.pages_valid[b] = 0
      <3>1. b # TargetBlock
        BY <1>2, <1>8, <2>1
      <3>. QED
        BY <1>2, <1>7, <2>1, <3>1
    <2>. QED
      BY <1>2, <1>3, <2>1 DEF FreeBlocksErased
  <1>11. current_page_offset' \in 0 .. BLOCK_SIZE /\ current_block' \in Blocks
    BY <1>2, <1>3
  <1>12. current_page_offset' = flash'.pages_valid[current_block']
    BY <1>2, <1>3, <1>7
  <1>13. CurrentBlockOwned'
    BY <1>2, <1>3, <1>12 DEF CurrentBlockOwned
  <1>14. FilledFromStart'
    <2>. SUFFICES ASSUME NEW p \in Ppns
                  PROVE  flash'.page[p] = "EMPTY" <=> p[2] >= flash'.pages_valid[p[1]]
      BY DEF FilledFromStart
    <2>1. flash.page[p] = "EMPTY" <=> p[2] >= flash.pages_valid[p[1]]
      BY DEF CleanupInv, FilledFromStart
    <2>2. p[1] \in Blocks /\ p[2] \in Int /\ p = <<p[1], p[2]>>
      BY DEF Ppns, Offsets
    <2>3. CASE p = NewPpn
      <3>1. flash'.pages_valid[p[1]] = p[2] + 1
        BY <1>2, <1>4, <1>7, <2>3
      <3>2. flash'.page[p] = "VALID"
        BY <1>7, <2>3
      <3>. QED
        BY <2>2, <3>1, <3>2
    <2>4. CASE p = old
      <3>1. flash'.page[p] = "INVALID"
        BY <1>6, <1>7, <2>4
      <3>2. flash.page[p] # "EMPTY"
        BY <2>4, NoPpnNotPage
      <3>3. ~(p[2] >= flash'.pages_valid[p[1]])
        BY <1>7, <1>8, <2>1, <2>2, <3>2
      <3>. QED
        BY <3>1, <3>3
    <2>5. CASE p # NewPpn /\ p # old
      <3>1. flash'.page[p] = flash.page[p]
        BY <1>7, <2>5
      <3>2. CASE p[1] # TargetBlock
        BY <1>7, <2>1, <2>2, <3>1, <3>2
      <3>3. CASE p[1] = TargetBlock
        <4>1. NewPpn = <<TargetBlock, flash.pages_valid[TargetBlock]>>
          BY <1>2 DEF FreePage
        <4>2. p[2] # flash.pages_valid[TargetBlock]
          BY <2>2, <2>5, <3>3, <4>1
        <4>3. flash'.pages_valid[p[1]] = flash.pages_valid[TargetBlock] + 1
          BY <1>2, <1>7, <3>3
        <4>. QED
          BY <1>2, <1>8, <2>1, <2>2, <3>1, <3>3, <4>2, <4>3
      <3>. QED
        BY <3>2, <3>3
    <2>. QED
      BY <2>3, <2>4, <2>5
  <1>15. victim # NoBlock => victim # current_block' /\ flash'.pages_valid[victim] = BLOCK_SIZE
    <2>. SUFFICES ASSUME victim # NoBlock
                  PROVE  victim # current_block' /\ flash'.pages_valid[victim] = BLOCK_SIZE
      OBVIOUS
    <2>1. victim \in Blocks /\ flash.pages_valid[victim] = BLOCK_SIZE
      BY DEF CleanupInv, CleanupTypeOK, VictimCleaned
    <2>2. victim # TargetBlock
      BY <1>2, <2>1
    <2>. QED
      BY <1>3, <1>7, <2>1, <2>2
  <1>. QED
    BY <1>9, <1>10, <1>11, <1>13, <1>14, <1>15

\* Only the mapping of a page still EMPTY could be disturbed by an append, and
\* no slot has one.
LEMMA CleanupMappedAreOld ==
  ASSUME CleanupInv, NEW p \in Ppns, flash.page[p] = "EMPTY"
  PROVE  \A s \in Slots : PMT[s] # p
  BY NoPpnNotPage DEF CleanupInv, MappedPagesValid, Mapped

---------------------------------------------------------------------------
(* The tables after an append.                                             *)

\* A slot moved to the page just appended in place of its old one, by a write
\* or by a cleanup, shares it with no other and reads through its anchor.
LEMMA MovedSlot ==
  ASSUME CleanupInv, AllocFailure = "none", NEW d \in Payloads, NEW s0 \in Slots,
         AppendPage(d, PMT[s0]),
         PMT' = [PMT EXCEPT ![s0] = NewPpn],
         PMD' = [PMD EXCEPT ![AnchorOf(s0)] = NewPpn]
  PROVE  /\ PMD' \in [Anchors -> Ppns \cup {NoPpn}]
         /\ PMT' \in [Slots -> Ppns \cup {NoPpn}]
         /\ MappingInjective'
         /\ MappedPagesValid'
         /\ MappedPagesReadable'
  <1>. DEFINE old == PMT[s0]
  <1>. USE NoPpnNotPage
  <1>1. /\ PMT \in [Slots -> Ppns \cup {NoPpn}]
        /\ PMD \in [Anchors -> Ppns \cup {NoPpn}]
        /\ MappingInjective
        /\ MappedPagesValid
        /\ MappedPagesReadable
    BY DEF CleanupInv, CleanupTypeOK, TypeOK
  <1>2. old \in Ppns \cup {NoPpn} /\ (old # NoPpn => flash.page[old] # "EMPTY")
    BY <1>1 DEF MappedPagesValid, Mapped
  <1>3. /\ NewPpn \in Ppns
        /\ flash.page[NewPpn] = "EMPTY"
        /\ flash'.page[NewPpn] = "VALID"
        /\ \A p \in Ppns : p # NewPpn /\ p # old => flash'.page[p] = flash.page[p]
    BY <1>2, AppendEffect
  <1>4. \A s \in Slots : PMT[s] # NewPpn
    BY <1>3, CleanupMappedAreOld
  <1>5. AnchorOf(s0) \in Anchors
    BY DEF AnchorOf, Slots, Anchors
  <1>6. /\ PMT'[s0] = NewPpn
        /\ \A s \in Slots : s # s0 => PMT'[s] = PMT[s]
        /\ PMD'[AnchorOf(s0)] = NewPpn
        /\ \A a \in Anchors : a # AnchorOf(s0) => PMD'[a] = PMD[a]
    BY <1>1, <1>5
  <1>7. PMD' \in [Anchors -> Ppns \cup {NoPpn}]
    BY <1>1, <1>3
  <1>8. PMT' \in [Slots -> Ppns \cup {NoPpn}]
    BY <1>1, <1>3
  <1>9. MappingInjective'
    <2>. SUFFICES ASSUME NEW s \in Slots, NEW t \in Slots,
                         PMT'[s] # NoPpn, PMT'[s] = PMT'[t]
                  PROVE  s = t
      BY DEF MappingInjective, Mapped
    <2>1. CASE s = s0 \/ t = s0
      BY <1>4, <1>6, <2>1
    <2>2. CASE s # s0 /\ t # s0
      BY <1>1, <1>6, <2>2 DEF MappingInjective, Mapped
    <2>. QED
      BY <2>1, <2>2
  <1>10. MappedPagesValid'
    <2>. SUFFICES ASSUME NEW s \in Slots, PMT'[s] # NoPpn
                  PROVE  flash'.page[PMT'[s]] = "VALID"
      BY DEF MappedPagesValid, Mapped
    <2>1. CASE s = s0
      BY <1>3, <1>6, <2>1
    <2>2. CASE s # s0
      <3>1. PMT'[s] = PMT[s] /\ PMT[s] \in Ppns /\ PMT[s] # NewPpn
        BY <1>1, <1>4, <1>6, <2>2
      <3>2. PMT[s] # old
        BY <1>1, <2>2, <3>1 DEF MappingInjective, Mapped
      <3>3. flash.page[PMT[s]] = "VALID"
        BY <1>1, <3>1 DEF MappedPagesValid, Mapped
      <3>. QED
        BY <1>3, <3>1, <3>2, <3>3
    <2>. QED
      BY <2>1, <2>2
  <1>11. MappedPagesReadable'
    <2>. SUFFICES ASSUME NEW s \in Slots, PMT'[s] # NoPpn
                  PROVE  PMD'[AnchorOf(s)] # NoPpn
      BY DEF MappedPagesReadable, Mapped
    <2>1. AnchorOf(s) \in Anchors
      BY DEF AnchorOf, Slots, Anchors
    <2>2. CASE AnchorOf(s) = AnchorOf(s0)
      BY <1>3, <1>6, <2>2
    <2>3. CASE AnchorOf(s) # AnchorOf(s0)
      <3>1. s # s0 /\ PMT[s] # NoPpn
        BY <1>6, <2>3
      <3>. QED
        BY <1>1, <1>6, <2>1, <2>3, <3>1 DEF MappedPagesReadable, Mapped
    <2>. QED
      BY <2>2, <2>3
  <1>. QED
    BY <1>7, <1>8, <1>9, <1>10, <1>11

\* A page no slot names can be copied and replaced under the tables.
LEMMA CopiedOrphan ==
  ASSUME CleanupInv, AllocFailure = "none", NEW d \in Payloads, NEW old \in Ppns,
         flash.page[old] # "EMPTY", AppendPage(d, old),
         \A s \in Slots : PMT[s] # old, UNCHANGED tables
  PROVE  /\ PMD' \in [Anchors -> Ppns \cup {NoPpn}]
         /\ PMT' \in [Slots -> Ppns \cup {NoPpn}]
         /\ MappingInjective'
         /\ MappedPagesValid'
         /\ MappedPagesReadable'
  <1>1. /\ PMT \in [Slots -> Ppns \cup {NoPpn}]
        /\ PMD \in [Anchors -> Ppns \cup {NoPpn}]
        /\ MappingInjective
        /\ MappedPagesValid
        /\ MappedPagesReadable
    BY DEF CleanupInv, CleanupTypeOK, TypeOK
  <1>2. PMT' = PMT /\ PMD' = PMD
    BY DEF tables
  <1>3. /\ NewPpn \in Ppns
        /\ flash.page[NewPpn] = "EMPTY"
        /\ \A p \in Ppns : p # NewPpn /\ p # old => flash'.page[p] = flash.page[p]
    BY AppendEffect
  <1>4. \A s \in Slots : PMT[s] # NewPpn
    BY <1>3, CleanupMappedAreOld
  <1>5. MappedPagesValid'
    BY <1>1, <1>2, <1>3, <1>4, NoPpnNotPage DEF MappedPagesValid, Mapped
  <1>6. MappingInjective' /\ MappedPagesReadable'
    BY <1>1, <1>2 DEF MappingInjective, MappedPagesReadable, Mapped
  <1>. QED
    BY <1>1, <1>2, <1>5, <1>6

---------------------------------------------------------------------------
(* The invariant of the cleanups is inductive.                             *)

LEMMA CleanupInitInv == CleanupInit => CleanupInv
  <1>. SUFFICES ASSUME CleanupInit PROVE CleanupInv
    OBVIOUS
  <1>. USE GeometryAssumption
  <1>1. IInv
    BY InitIInv DEF CleanupInit
  <1>2. CleanupTypeOK
    BY <1>1 DEF IInv, CleanupInit, CleanupTypeOK
  <1>3. /\ flash.page = [p \in Ppns |-> "EMPTY"]
        /\ flash.pages_invalid = [b \in Blocks |-> 0]
        /\ flash.pages_valid = [b \in Blocks |-> 0]
    BY DEF CleanupInit, Init, FlashInit
  <1>4. /\ bm.free_list = << >>
        /\ bm.invalid_list = << >>
        /\ bm.current_writing_block = NoBlock
        /\ ~bm.out_of_blocks
        /\ current_block = NoBlock
        /\ victim = NoBlock
        /\ abort = "none"
    BY DEF CleanupInit, Init, BlockManagerInit
  <1>5. FlashSound(flash)
    <2>1. \A b \in Blocks : InvalidPages(flash, b) = {}
      BY <1>3 DEF InvalidPages, Ppns
    <2>2. \A b \in Blocks : flash.pages_invalid[b] = Cardinality(InvalidPages(flash, b))
      BY <1>3, <2>1, FS_EmptySet
    <2>3. \A p \in Ppns : flash.page[p] # "VALID"
      BY <1>3
    <2>. QED
      BY <1>2, <2>2, <2>3 DEF FlashSound, CleanupTypeOK, TypeOK
  <1>6. ListsSound(bm)
    <2>1. Members(bm.free_list) = {} /\ Members(bm.invalid_list) = {}
      BY <1>4 DEF Members
    <2>2. NoRepeat(bm.free_list) /\ NoRepeat(bm.invalid_list)
      BY <1>4 DEF NoRepeat
    <2>3. bm \in BlockManagerType
      BY <1>2 DEF CleanupTypeOK, TypeOK
    <2>. QED
      BY <1>4, <2>1, <2>2, <2>3 DEF ListsSound
  <1>7. FilledFromStart
    BY <1>1 DEF IInv, PagesFilledInOrder, FilledFromStart
  <1>8. FreeBlocksErased
    BY <1>3, <1>4 DEF FreeBlocksErased
  <1>9. CurrentBlockOwned /\ VictimCleaned /\ OnlyBlockAsserts
    BY <1>4 DEF CurrentBlockOwned, VictimCleaned, OnlyBlockAsserts
  <1>. QED
    BY <1>1, <1>2, <1>5, <1>6, <1>7, <1>8, <1>9 DEF CleanupInv, IInv

\* An append keeps the invariant when the tables move with it and the loop's
\* position stays behind pages that are not VALID.
LEMMA AppendKeepsInv ==
  ASSUME CleanupInv, AllocFailure = "none", NEW d \in Payloads,
         NEW old \in Ppns \cup {NoPpn}, old # NoPpn => flash.page[old] # "EMPTY",
         AppendPage(d, old),
         PMD' \in [Anchors -> Ppns \cup {NoPpn}],
         PMT' \in [Slots -> Ppns \cup {NoPpn}],
         MappingInjective', MappedPagesValid', MappedPagesReadable',
         global_buffer' \in Ppns \cup {NoPpn},
         abort' = abort, victim' = victim, next' \in 0 .. BLOCK_SIZE,
         \A i \in Offsets :
           victim # NoBlock /\ i < next' => flash'.page[<<victim, i>>] # "VALID"
  PROVE  CleanupInv'
  <1>1. FlashSound(flash')
    BY AppendEffect
  <1>2. /\ ListsSound(bm)'
        /\ FreeBlocksErased'
        /\ CurrentBlockOwned'
        /\ FilledFromStart'
        /\ current_block' \in Blocks
        /\ current_page_offset' \in 0 .. BLOCK_SIZE
        /\ victim # NoBlock => /\ victim # current_block'
                               /\ flash'.pages_valid[victim] = BLOCK_SIZE
    BY AppendKeepsBlocks
  <1>3. abort \in Aborts /\ victim \in Blocks \cup {NoBlock} /\ OnlyBlockAsserts
    BY DEF CleanupInv, CleanupTypeOK, TypeOK
  <1>4. flash' \in FlashType /\ bm' \in BlockManagerType
    BY <1>1, <1>2 DEF FlashSound, ListsSound
  <1>5. TypeOK'
    BY <1>2, <1>3, <1>4 DEF TypeOK
  <1>6. CleanupTypeOK'
    BY <1>3, <1>5 DEF CleanupTypeOK
  <1>7. VictimCleaned'
    BY <1>2 DEF VictimCleaned
  <1>8. OnlyBlockAsserts'
    BY <1>3 DEF OnlyBlockAsserts
  <1>9. FlashSound(flash)'
    BY <1>1
  <1>. QED
    BY <1>2, <1>6, <1>7, <1>8, <1>9 DEF CleanupInv

\* A write between two cleanups keeps the invariant.
LEMMA CleanupWrite ==
  ASSUME CleanupInv, victim = NoBlock, UNCHANGED cleanup,
         NEW lpn \in Lpns, NEW d \in Payloads, Write(lpn, d)
  PROVE  CleanupInv'
  <1>1. Slot(lpn) \in Slots /\ AnchorOf(Slot(lpn)) = Anchor(lpn)
    BY SlotInRange DEF Slot, Anchor, AnchorOf
  <1>2. /\ AllocFailure = "none"
        /\ AppendPage(d, PMT[Slot(lpn)])
        /\ PMT' = [PMT EXCEPT ![Slot(lpn)] = NewPpn]
        /\ PMD' = [PMD EXCEPT ![AnchorOf(Slot(lpn))] = NewPpn]
        /\ global_buffer' = global_buffer
        /\ abort' = abort
        /\ victim' = victim
        /\ next' = next
    BY <1>1 DEF Write, cleanup
  <1>3. /\ PMD' \in [Anchors -> Ppns \cup {NoPpn}]
        /\ PMT' \in [Slots -> Ppns \cup {NoPpn}]
        /\ MappingInjective'
        /\ MappedPagesValid'
        /\ MappedPagesReadable'
    BY <1>1, <1>2, MovedSlot
  <1>4. /\ PMT[Slot(lpn)] \in Ppns \cup {NoPpn}
        /\ PMT[Slot(lpn)] # NoPpn => flash.page[PMT[Slot(lpn)]] # "EMPTY"
        /\ global_buffer \in Ppns \cup {NoPpn}
        /\ next \in 0 .. BLOCK_SIZE
    BY <1>1 DEF CleanupInv, CleanupTypeOK, TypeOK, MappedPagesValid, Mapped
  <1>. QED
    BY <1>2, <1>3, <1>4, AppendKeepsInv

\* A copied page was VALID, so it holds what a host wrote.
LEMMA CopiedPage ==
  ASSUME CleanupInv, Cleaning, next < BLOCK_SIZE, flash.page[OldPpn] = "VALID"
  PROVE  /\ OldPpn \in Ppns
         /\ flash.data[OldPpn] \in Payloads
         /\ next \in Offsets
         /\ next + 1 \in 0 .. BLOCK_SIZE
  <1>1. victim \in Blocks /\ next \in 0 .. BLOCK_SIZE
    BY DEF CleanupInv, CleanupTypeOK, Cleaning
  <1>2. next \in Offsets /\ next + 1 \in 0 .. BLOCK_SIZE
    BY <1>1, GeometryAssumption DEF Offsets
  <1>3. OldPpn \in Ppns
    BY <1>1, <1>2 DEF OldPpn, Ppns
  <1>4. flash.data[OldPpn] \in Payloads
    BY <1>3 DEF CleanupInv, FlashSound
  <1>. QED
    BY <1>2, <1>3, <1>4

\* A copy keeps the invariant, whether a slot names the page or none does.
LEMMA CleanupCopy ==
  ASSUME CleanupInv, CopyPage
  PROVE  CleanupInv'
  <1>. DEFINE d == flash.data[OldPpn]
  <1>1. /\ Cleaning
        /\ next < BLOCK_SIZE
        /\ flash.page[OldPpn] = "VALID"
        /\ AllocFailure = "none"
        /\ AppendPage(d, OldPpn)
        /\ global_buffer' = OldPpn
        /\ next' = next + 1
        /\ abort' = abort
        /\ victim' = victim
    BY DEF CopyPage
  <1>2. /\ OldPpn \in Ppns
        /\ d \in Payloads
        /\ next \in Offsets
        /\ next + 1 \in 0 .. BLOCK_SIZE
    BY <1>1, CopiedPage
  <1>. HIDE DEF d
  <1>3. OldPpn # NoPpn /\ OldPpn \in Ppns \cup {NoPpn} /\ flash.page[OldPpn] # "EMPTY"
    BY <1>1, <1>2, NoPpnNotPage
  <1>4. /\ PMD' \in [Anchors -> Ppns \cup {NoPpn}]
        /\ PMT' \in [Slots -> Ppns \cup {NoPpn}]
        /\ MappingInjective'
        /\ MappedPagesValid'
        /\ MappedPagesReadable'
    <2>1. CASE \E s \in Slots :
                 /\ PMT[s] = OldPpn
                 /\ PMT' = [PMT EXCEPT ![s] = NewPpn]
                 /\ PMD' = [PMD EXCEPT ![AnchorOf(s)] = NewPpn]
      <3>1. PICK s0 \in Slots : /\ PMT[s0] = OldPpn
                                /\ PMT' = [PMT EXCEPT ![s0] = NewPpn]
                                /\ PMD' = [PMD EXCEPT ![AnchorOf(s0)] = NewPpn]
        BY <2>1
      <3>2. AppendPage(d, PMT[s0])
        BY <1>1, <3>1
      <3>. QED
        BY <1>1, <1>2, <3>1, <3>2, MovedSlot
    <2>2. CASE (\A s \in Slots : PMT[s] # OldPpn) /\ UNCHANGED tables
      BY <1>1, <1>2, <1>3, <2>2, CopiedOrphan
    <2>. QED
      BY <2>1, <2>2 DEF CopyPage
  <1>5. \A i \in Offsets :
          victim # NoBlock /\ i < next' => flash'.page[<<victim, i>>] # "VALID"
    <2>1. /\ NewPpn \in Ppns
          /\ flash.page[NewPpn] = "EMPTY"
          /\ \A p \in Ppns : p # NewPpn /\ p # OldPpn => flash'.page[p] = flash.page[p]
          /\ flash'.page[OldPpn] = "INVALID"
      BY <1>1, <1>2, <1>3, AppendEffect
    <2>2. victim \in Blocks /\ flash.pages_valid[victim] = BLOCK_SIZE
          /\ \A i \in Offsets : i < next => flash.page[<<victim, i>>] # "VALID"
      BY <1>1 DEF CleanupInv, CleanupTypeOK, VictimCleaned, Cleaning
    <2>. SUFFICES ASSUME NEW i \in Offsets, i < next + 1
                  PROVE  flash'.page[<<victim, i>>] # "VALID"
      BY <1>1
    <2>3. <<victim, i>> \in Ppns /\ i < BLOCK_SIZE /\ i \in Int
      BY <2>2, GeometryAssumption DEF Ppns, Offsets
    <2>4. <<victim, i>> # NewPpn
      <3>1. flash.page[<<victim, i>>] = "EMPTY" <=> i >= BLOCK_SIZE
        BY <2>2, <2>3 DEF CleanupInv, FilledFromStart
      <3>. QED
        BY <2>1, <2>3, <3>1, GeometryAssumption
    <2>5. CASE i = next
      BY <2>1, <2>5 DEF OldPpn
    <2>6. CASE i # next
      <3>1. i < next
        BY <1>2, <2>3, <2>6 DEF Offsets
      <3>2. flash.page[<<victim, i>>] # "VALID"
        BY <2>2, <3>1
      <3>3. <<victim, i>> # OldPpn
        BY <2>6 DEF OldPpn
      <3>. QED
        BY <2>1, <2>3, <2>4, <3>2, <3>3
    <2>. QED
      BY <2>5, <2>6
  <1>6. global_buffer' \in Ppns \cup {NoPpn} /\ next' \in 0 .. BLOCK_SIZE
    BY <1>1, <1>2
  <1>. QED
    BY <1>1, <1>2, <1>3, <1>4, <1>5, <1>6, AppendKeepsInv

\* The two erases empty the victim and touch no other block and no payload.
LEMMA FinishEffect ==
  ASSUME CleanupInv, FinishCleanup
  PROVE  /\ victim \in Blocks
         /\ FlashSound(flash')
         /\ flash'.data = flash.data
         /\ \A p \in Ppns :
              flash'.page[p] = IF p[1] = victim THEN "EMPTY" ELSE flash.page[p]
         /\ \A b \in Blocks :
              flash'.pages_valid[b] = IF b = victim THEN 0 ELSE flash.pages_valid[b]
  <1>. DEFINE g == Erase(flash, {victim})
  <1>1. /\ victim # NoBlock
        /\ CanErase(ErasedOnce(flash, victim), victim)
        /\ flash' = Erase(ErasedOnce(flash, victim), {victim})
    BY DEF FinishCleanup, Cleaning
  <1>2. victim \in Blocks /\ {victim} \in SUBSET Blocks
    BY <1>1 DEF CleanupInv, CleanupTypeOK
  <1>3. FlashSound(flash) /\ flash \in FlashType
    BY DEF CleanupInv, FlashSound
  <1>4. CanErase(flash, victim) /\ ErasedOnce(flash, victim) = g
    BY <1>1 DEF ErasedOnce
  <1>. HIDE DEF g
  <1>5. CanErase(g, victim) /\ flash' = Erase(g, {victim})
    BY <1>1, <1>4
  <1>6. /\ g \in FlashType
        /\ g.data = flash.data
        /\ \A p \in Ppns : g.page[p] = IF p[1] \in {victim} THEN "EMPTY" ELSE flash.page[p]
        /\ \A b \in Blocks :
             g.pages_valid[b] = IF b \in {victim} THEN 0 ELSE flash.pages_valid[b]
    <2>1. \A b \in {victim} : CanErase(flash, b)
      BY <1>4
    <2>. QED
      BY <1>2, <1>3, <2>1, EraseEffect DEF g
  <1>7. FlashSound(g)
    BY <1>2, <1>3, <1>4, EraseSound DEF g
  <1>8. /\ flash'.data = g.data
        /\ \A p \in Ppns : flash'.page[p] = IF p[1] \in {victim} THEN "EMPTY" ELSE g.page[p]
        /\ \A b \in Blocks :
             flash'.pages_valid[b] = IF b \in {victim} THEN 0 ELSE g.pages_valid[b]
    <2>1. \A b \in {victim} : CanErase(g, b)
      BY <1>5
    <2>. QED
      BY <1>2, <1>5, <1>6, <2>1, EraseEffect
  <1>9. FlashSound(flash')
    BY <1>2, <1>5, <1>7, EraseSound
  <1>10. ASSUME NEW p \in Ppns
         PROVE  flash'.page[p] = IF p[1] = victim THEN "EMPTY" ELSE flash.page[p]
    BY <1>6, <1>8
  <1>11. ASSUME NEW b \in Blocks
         PROVE  flash'.pages_valid[b] = IF b = victim THEN 0 ELSE flash.pages_valid[b]
    BY <1>6, <1>8
  <1>. QED
    BY <1>2, <1>6, <1>8, <1>9, <1>10, <1>11

\* When the loop has passed its last page no slot names a page of the victim.
LEMMA VictimUnmapped ==
  ASSUME CleanupInv, FinishCleanup, NEW s \in Slots, Mapped(s)
  PROVE  PMT[s] \in Ppns /\ PMT[s][1] # victim
  <1>1. PMT[s] \in Ppns /\ flash.page[PMT[s]] = "VALID"
    BY DEF CleanupInv, CleanupTypeOK, TypeOK, MappedPagesValid, Mapped
  <1>2. \A i \in Offsets : flash.page[<<victim, i>>] # "VALID"
    <2>1. victim # NoBlock /\ next = BLOCK_SIZE
      BY DEF FinishCleanup, Cleaning
    <2>2. \A i \in Offsets : i < next => flash.page[<<victim, i>>] # "VALID"
      BY <2>1 DEF CleanupInv, VictimCleaned
    <2>3. \A i \in Offsets : i < BLOCK_SIZE
      BY GeometryAssumption DEF Offsets
    <2>. QED
      BY <2>1, <2>2, <2>3
  <1>3. PMT[s] = <<PMT[s][1], PMT[s][2]>> /\ PMT[s][2] \in Offsets
    BY <1>1 DEF Ppns
  <1>. QED
    BY <1>1, <1>2, <1>3

\* The end of a cleanup keeps the invariant: the victim joins the free blocks.
LEMMA CleanupFinish ==
  ASSUME CleanupInv, FinishCleanup
  PROVE  CleanupInv'
  <1>. USE GeometryAssumption
  <1>1. /\ victim \in Blocks
        /\ FlashSound(flash')
        /\ \A p \in Ppns :
             flash'.page[p] = IF p[1] = victim THEN "EMPTY" ELSE flash.page[p]
        /\ \A b \in Blocks :
             flash'.pages_valid[b] = IF b = victim THEN 0 ELSE flash.pages_valid[b]
    BY FinishEffect
  <1>2. /\ bm' = [bm EXCEPT !.free_list = Append(bm.free_list, victim)]
        /\ victim # NoBlock
        /\ victim' = NoBlock
        /\ next' = 0
        /\ PMD' = PMD
        /\ PMT' = PMT
        /\ current_block' = current_block
        /\ current_page_offset' = current_page_offset
        /\ global_buffer' = global_buffer
        /\ abort' = abort
    BY DEF FinishCleanup, Cleaning, tables
  <1>3. /\ bm \in BlockManagerType
        /\ ListsSound(bm)
        /\ bm.invalid_list = << >>
        /\ bm.free_list \in Seq(Blocks)
        /\ bm.fresh \in Int
    BY DEF CleanupInv, ListsSound, FreeBlocksErased, BlockManagerType
  <1>4. /\ victim # current_block
        /\ flash.pages_valid[victim] = BLOCK_SIZE
    BY <1>2 DEF CleanupInv, VictimCleaned
  <1>5. /\ \A b \in Blocks :
             b >= bm.fresh \/ b \in Members(bm.free_list) => flash.pages_valid[b] = 0
    BY DEF CleanupInv, FreeBlocksErased
  <1>6. victim < bm.fresh /\ victim \notin Members(bm.free_list)
    BY <1>1, <1>3, <1>4, <1>5 DEF Blocks
  <1>7. /\ Append(bm.free_list, victim) \in Seq(Blocks)
        /\ Members(Append(bm.free_list, victim)) = Members(bm.free_list) \cup {victim}
        /\ NoRepeat(Append(bm.free_list, victim))
    BY <1>1, <1>3, <1>6, AppendedList DEF ListsSound
  <1>8. /\ bm' \in BlockManagerType
        /\ bm'.fresh = bm.fresh
        /\ bm'.free_list = Append(bm.free_list, victim)
        /\ bm'.invalid_list = bm.invalid_list
        /\ bm'.out_of_blocks = bm.out_of_blocks
        /\ bm'.current_writing_block = bm.current_writing_block
    BY <1>2, <1>3, <1>7 DEF BlockManagerType
  <1>9. ListsSound(bm)'
    <2>1. Members(bm.invalid_list) = {}
      BY <1>3 DEF Members
    <2>2. \A b \in Members(bm'.free_list) : b < bm'.fresh
      BY <1>3, <1>6, <1>7, <1>8 DEF ListsSound
    <2>. QED
      BY <1>3, <1>7, <1>8, <2>1, <2>2 DEF ListsSound
  <1>10. FreeBlocksErased'
    BY <1>1, <1>3, <1>5, <1>7, <1>8 DEF FreeBlocksErased
  <1>11. CurrentBlockOwned'
    <2>1. /\ bm.current_writing_block = current_block
          /\ current_block # NoBlock =>
               /\ current_block < bm.fresh
               /\ current_block \notin Members(bm.free_list)
               /\ current_page_offset = flash.pages_valid[current_block]
          /\ current_block \in Blocks \cup {NoBlock}
      BY DEF CleanupInv, CleanupTypeOK, TypeOK, CurrentBlockOwned
    <2>2. current_block # NoBlock => flash'.pages_valid[current_block] = flash.pages_valid[current_block]
      BY <1>1, <1>4, <2>1
    <2>3. current_block # NoBlock => current_block \notin Members(bm'.free_list)
      BY <1>4, <1>7, <1>8, <2>1
    <2>. QED
      BY <1>2, <1>8, <2>1, <2>2, <2>3 DEF CurrentBlockOwned
  <1>12. FilledFromStart'
    <2>. SUFFICES ASSUME NEW p \in Ppns
                  PROVE  flash'.page[p] = "EMPTY" <=> p[2] >= flash'.pages_valid[p[1]]
      BY DEF FilledFromStart
    <2>1. flash.page[p] = "EMPTY" <=> p[2] >= flash.pages_valid[p[1]]
      BY DEF CleanupInv, FilledFromStart
    <2>2. p[1] \in Blocks /\ p[2] \in Nat
      BY DEF Ppns, Offsets
    <2>3. CASE p[1] = victim
      BY <1>1, <2>2, <2>3
    <2>4. CASE p[1] # victim
      BY <1>1, <2>1, <2>2, <2>4
    <2>. QED
      BY <2>3, <2>4
  <1>13. MappedPagesValid'
    <2>. SUFFICES ASSUME NEW s \in Slots, Mapped(s)
                  PROVE  flash'.page[PMT[s]] = "VALID"
      BY <1>2 DEF MappedPagesValid, Mapped
    <2>1. PMT[s] \in Ppns /\ PMT[s][1] # victim
      BY VictimUnmapped
    <2>2. flash.page[PMT[s]] = "VALID"
      BY DEF CleanupInv, MappedPagesValid
    <2>. QED
      BY <1>1, <2>1, <2>2
  <1>14. MappingInjective' /\ MappedPagesReadable'
    BY <1>2 DEF CleanupInv, MappingInjective, MappedPagesReadable, Mapped
  <1>15. flash' \in FlashType
    BY <1>1 DEF FlashSound
  <1>16. CleanupTypeOK'
    BY <1>2, <1>8, <1>15 DEF CleanupInv, CleanupTypeOK, TypeOK
  <1>17. VictimCleaned' /\ OnlyBlockAsserts'
    BY <1>2 DEF CleanupInv, VictimCleaned, OnlyBlockAsserts
  <1>18. FlashSound(flash)'
    BY <1>1
  <1>. QED
    BY <1>9, <1>10, <1>11, <1>12, <1>13, <1>14, <1>16, <1>17, <1>18 DEF CleanupInv

\* A trim only forgets a slot.
LEMMA CleanupTrim ==
  ASSUME CleanupInv, UNCHANGED cleanup, NEW lpn \in Lpns, Trim(lpn)
  PROVE  CleanupInv'
  <1>1. /\ PMT' = [PMT EXCEPT ![Slot(lpn)] = NoPpn]
        /\ UNCHANGED <<flash, bm, PMD, current_block, current_page_offset,
                       global_buffer, abort, victim, next>>
    BY DEF Trim, cleanup
  <1>2. PMT \in [Slots -> Ppns \cup {NoPpn}]
    BY DEF CleanupInv, CleanupTypeOK, TypeOK
  <1>3. \A s \in Slots : PMT'[s] # NoPpn => PMT'[s] = PMT[s]
    BY <1>1, <1>2
  <1>4. CleanupTypeOK'
    BY <1>1, <1>2 DEF CleanupInv, CleanupTypeOK, TypeOK
  <1>5. MappingInjective' /\ MappedPagesValid' /\ MappedPagesReadable'
    BY <1>1, <1>3 DEF CleanupInv, MappingInjective, MappedPagesValid,
                      MappedPagesReadable, Mapped
  <1>6. FilledFromStart' /\ FreeBlocksErased' /\ CurrentBlockOwned'
        /\ VictimCleaned' /\ OnlyBlockAsserts'
    BY <1>1 DEF CleanupInv, FilledFromStart, FreeBlocksErased, CurrentBlockOwned,
                VictimCleaned, OnlyBlockAsserts
  <1>7. FlashSound(flash)' /\ ListsSound(bm)'
    BY <1>1 DEF CleanupInv
  <1>. QED
    BY <1>4, <1>5, <1>6, <1>7 DEF CleanupInv

\* The steps that change neither the array, nor the Block_manager, nor the
\* tables: reads, failed asserts, and the moves of the loop.
LEMMA CleanupNoChange ==
  ASSUME CleanupInv,
         UNCHANGED <<flash, bm, PMD, PMT, current_block, current_page_offset>>,
         global_buffer' \in Ppns \cup {NoPpn},
         abort' \in {"none", "no_free_block", "erase_failed"},
         victim' \in Blocks \cup {NoBlock}, next' \in 0 .. BLOCK_SIZE,
         VictimCleaned'
  PROVE  CleanupInv'
  <1>1. CleanupTypeOK' /\ OnlyBlockAsserts'
    BY DEF CleanupInv, CleanupTypeOK, TypeOK, Aborts, OnlyBlockAsserts
  <1>2. FilledFromStart' /\ FreeBlocksErased' /\ CurrentBlockOwned'
    BY DEF CleanupInv, FilledFromStart, FreeBlocksErased, CurrentBlockOwned
  <1>3. MappingInjective' /\ MappedPagesValid' /\ MappedPagesReadable'
    BY DEF CleanupInv, MappingInjective, MappedPagesValid, MappedPagesReadable, Mapped
  <1>4. FlashSound(flash)' /\ ListsSound(bm)'
    BY DEF CleanupInv
  <1>. QED
    BY <1>1, <1>2, <1>3, <1>4 DEF CleanupInv

LEMMA CleanupStart ==
  ASSUME CleanupInv, NEW b \in Blocks, StartCleanup(b)
  PROVE  CleanupInv'
  <1>1. /\ victim' = b
        /\ next' = 0
        /\ UNCHANGED <<flash, bm, PMD, PMT, current_block, current_page_offset,
                       global_buffer, abort>>
        /\ flash.pages_valid[b] = BLOCK_SIZE
        /\ b # bm.current_writing_block
    BY DEF StartCleanup, vars
  <1>2. /\ bm.current_writing_block = current_block
        /\ global_buffer \in Ppns \cup {NoPpn}
        /\ abort \in {"none", "no_free_block", "erase_failed"}
    BY DEF CleanupInv, CleanupTypeOK, TypeOK, CurrentBlockOwned, OnlyBlockAsserts
  <1>3. VictimCleaned'
    BY <1>1, <1>2 DEF VictimCleaned, Offsets
  <1>4. 0 \in 0 .. BLOCK_SIZE
    BY GeometryAssumption
  <1>. QED
    BY <1>1, <1>2, <1>3, <1>4, CleanupNoChange

LEMMA CleanupSkip ==
  ASSUME CleanupInv, SkipPage
  PROVE  CleanupInv'
  <1>1. /\ Cleaning
        /\ next < BLOCK_SIZE
        /\ flash.page[<<victim, next>>] # "VALID"
        /\ next' = next + 1
        /\ UNCHANGED <<flash, bm, PMD, PMT, current_block, current_page_offset,
                       global_buffer, abort, victim>>
    BY DEF SkipPage, OldPpn, vars
  <1>2. /\ global_buffer \in Ppns \cup {NoPpn}
        /\ abort \in {"none", "no_free_block", "erase_failed"}
        /\ victim \in Blocks \cup {NoBlock}
        /\ next \in 0 .. BLOCK_SIZE
    BY DEF CleanupInv, CleanupTypeOK, TypeOK, OnlyBlockAsserts
  <1>3. next + 1 \in 0 .. BLOCK_SIZE
    BY <1>1, <1>2, GeometryAssumption
  <1>4. /\ victim # current_block
        /\ flash.pages_valid[victim] = BLOCK_SIZE
        /\ \A i \in Offsets : i < next => flash.page[<<victim, i>>] # "VALID"
    BY <1>1 DEF CleanupInv, VictimCleaned, Cleaning
  <1>5. ASSUME NEW i \in Offsets, i < next + 1
        PROVE  flash.page[<<victim, i>>] # "VALID"
    <2>1. i < next \/ i = next
      BY <1>2, <1>5 DEF Offsets
    <2>. QED
      BY <1>1, <1>4, <2>1
  <1>6. VictimCleaned'
    BY <1>1, <1>4, <1>5 DEF VictimCleaned
  <1>. QED
    BY <1>1, <1>2, <1>3, <1>6, CleanupNoChange

\* A failed assert changes nothing but the outcome.
LEMMA CleanupDies ==
  ASSUME CleanupInv, UNCHANGED cleanup, NEW site \in {"no_free_block", "erase_failed"},
         Die(site)
  PROVE  CleanupInv'
  <1>1. /\ abort' = site
        /\ UNCHANGED <<flash, bm, PMD, PMT, current_block, current_page_offset,
                       global_buffer, victim, next>>
    BY DEF Die, cleanup
  <1>2. /\ global_buffer \in Ppns \cup {NoPpn}
        /\ victim \in Blocks \cup {NoBlock}
        /\ next \in 0 .. BLOCK_SIZE
        /\ VictimCleaned
    BY DEF CleanupInv, CleanupTypeOK, TypeOK
  <1>3. VictimCleaned'
    BY <1>1, <1>2 DEF VictimCleaned
  <1>. QED
    BY <1>1, <1>2, <1>3, CleanupNoChange

LEMMA CleanupRead ==
  ASSUME CleanupInv, UNCHANGED cleanup, NEW lpn \in Lpns, Read(lpn)
  PROVE  CleanupInv'
  <1>1. /\ Slot(lpn) \in Slots
        /\ global_buffer' = PMT[Slot(lpn)]
        /\ UNCHANGED <<flash, bm, PMD, PMT, current_block, current_page_offset,
                       abort, victim, next>>
    BY SlotInRange DEF Read, tables, cleanup
  <1>2. /\ PMT[Slot(lpn)] \in Ppns \cup {NoPpn}
        /\ abort \in {"none", "no_free_block", "erase_failed"}
        /\ victim \in Blocks \cup {NoBlock}
        /\ next \in 0 .. BLOCK_SIZE
        /\ VictimCleaned
    BY <1>1 DEF CleanupInv, CleanupTypeOK, TypeOK, OnlyBlockAsserts
  <1>3. VictimCleaned'
    BY <1>1, <1>2 DEF VictimCleaned
  <1>. QED
    BY <1>1, <1>2, <1>3, CleanupNoChange

\* The invariant depends on the variables alone.
LEMMA CleanupStutter ==
  ASSUME CleanupInv, UNCHANGED allvars
  PROVE  CleanupInv'
  <1>1. UNCHANGED <<flash, bm, PMD, PMT, current_block, current_page_offset,
                    global_buffer, abort, victim, next>>
    BY DEF allvars, vars, cleanup
  <1>2. /\ global_buffer \in Ppns \cup {NoPpn}
        /\ abort \in {"none", "no_free_block", "erase_failed"}
        /\ victim \in Blocks \cup {NoBlock}
        /\ next \in 0 .. BLOCK_SIZE
        /\ VictimCleaned
    BY DEF CleanupInv, CleanupTypeOK, TypeOK, OnlyBlockAsserts
  <1>3. VictimCleaned'
    BY <1>1, <1>2 DEF VictimCleaned
  <1>. QED
    BY <1>1, <1>2, <1>3, CleanupNoChange

\* Whatever is written, trimmed and read between the cleanups, and whichever
\* blocks they pick, the invariant holds in every reachable state.
THEOREM CleanupInvariance == CleanupSpec => []CleanupInv
  <1>1. CleanupInv /\ [CleanupNext]_allvars => CleanupInv'
    <2>. SUFFICES ASSUME CleanupInv, [CleanupNext]_allvars PROVE CleanupInv'
      OBVIOUS
    <2>1. AllocFailure # "none" => AllocFailure = "no_free_block"
      BY CleanupAllocation
    <2>2. CASE Request
      <3>1. victim = NoBlock /\ UNCHANGED cleanup /\ Next
        BY <2>2 DEF Request
      <3>2. ASSUME NEW lpn \in Lpns, NEW d \in Payloads, Write(lpn, d) PROVE CleanupInv'
        BY <3>1, <3>2, CleanupWrite
      <3>3. ASSUME NEW lpn \in Lpns, Read(lpn) PROVE CleanupInv'
        BY <3>1, <3>3, CleanupRead
      <3>4. ASSUME NEW lpn \in Lpns, Trim(lpn) PROVE CleanupInv'
        BY <3>1, <3>4, CleanupTrim
      <3>5. ASSUME WriteAborts PROVE CleanupInv'
        <4>1. Die(AllocFailure) /\ AllocFailure \in {"no_free_block", "erase_failed"}
          BY <2>1, <3>5 DEF WriteAborts
        <4>. QED
          BY <3>1, <4>1, CleanupDies
      <3>. QED
        BY <3>1, <3>2, <3>3, <3>4, <3>5 DEF Next
    <2>3. ASSUME NEW b \in Blocks, StartCleanup(b) PROVE CleanupInv'
      BY <2>3, CleanupStart
    <2>4. CASE SkipPage
      BY <2>4, CleanupSkip
    <2>5. CASE CopyPage
      BY <2>5, CleanupCopy
    <2>6. CASE CopyAborts
      <3>1. Die(AllocFailure) /\ AllocFailure \in {"no_free_block", "erase_failed"}
            /\ UNCHANGED cleanup
        BY <2>1, <2>6 DEF CopyAborts
      <3>. QED
        BY <3>1, CleanupDies
    <2>7. CASE FinishCleanup
      BY <2>7, CleanupFinish
    <2>8. CASE EraseAborts
      <3>1. Die("erase_failed") /\ UNCHANGED cleanup
        BY <2>8 DEF EraseAborts
      <3>. QED
        BY <3>1, CleanupDies
    <2>9. CASE UNCHANGED allvars
      BY <2>9, CleanupStutter
    <2>. QED
      BY <2>2, <2>3, <2>4, <2>5, <2>6, <2>7, <2>8, <2>9 DEF CleanupNext, CleanupStep
  <1>. QED
    BY <1>1, CleanupInitInv, PTL DEF CleanupSpec

---------------------------------------------------------------------------
(* What the invariant of the cleanups gives.                               *)

\* After any cleanups the tables still name VALID pages, each once, and every
\* mapped page is still reached through its anchor.
THEOREM CleanupMappingSound ==
  CleanupSpec => [](MappingInjective /\ MappedPagesValid /\ MappedPagesReadable)
  <1>1. CleanupInv => MappingInjective /\ MappedPagesValid /\ MappedPagesReadable
    BY DEF CleanupInv
  <1>. QED
    BY <1>1, CleanupInvariance, PTL

\* Blocks given back and handed out again never make Page::_write meet a page
\* still programmed nor Plane::get_free_page a full block: the program ends for
\* want of a block or of an erase cycle only.
THEOREM CleanupAsserts == CleanupSpec => []OnlyBlockAsserts
  <1>1. CleanupInv => OnlyBlockAsserts
    BY DEF CleanupInv
  <1>. QED
    BY <1>1, CleanupInvariance, PTL

\* Only the end of a cleanup empties a page.
LEMMA AppendErasesNothing ==
  ASSUME CleanupInv, AllocFailure = "none", NEW d \in Payloads,
         NEW old \in Ppns \cup {NoPpn}, old # NoPpn => flash.page[old] # "EMPTY",
         AppendPage(d, old), NEW p \in Ppns, flash.page[p] # "EMPTY"
  PROVE  flash'.page[p] # "EMPTY"
  <1>1. /\ flash.page[NewPpn] = "EMPTY"
        /\ \A q \in Ppns : q # NewPpn /\ q # old => flash'.page[q] = flash.page[q]
        /\ old # NoPpn => flash'.page[old] = "INVALID"
    BY AppendEffect
  <1>2. CASE p = old
    BY <1>1, <1>2, NoPpnNotPage
  <1>3. CASE p # old
    BY <1>1, <1>3
  <1>. QED
    BY <1>2, <1>3

\* What a copy hands to AppendPage.
LEMMA CopyAppends ==
  ASSUME CleanupInv, CopyPage
  PROVE  /\ AllocFailure = "none"
         /\ AppendPage(flash.data[OldPpn], OldPpn)
         /\ flash.data[OldPpn] \in Payloads
         /\ OldPpn \in Ppns
         /\ OldPpn # NoPpn
         /\ flash.page[OldPpn] # "EMPTY"
  BY CopiedPage, NoPpnNotPage DEF CopyPage

\* What a write hands to AppendPage.
LEMMA WriteAppends ==
  ASSUME CleanupInv, NEW lpn \in Lpns, NEW d \in Payloads, Write(lpn, d)
  PROVE  /\ AllocFailure = "none"
         /\ AppendPage(d, PMT[Slot(lpn)])
         /\ PMT[Slot(lpn)] \in Ppns \cup {NoPpn}
         /\ PMT[Slot(lpn)] # NoPpn => flash.page[PMT[Slot(lpn)]] # "EMPTY"
  BY SlotInRange DEF Write, CleanupInv, CleanupTypeOK, TypeOK, MappedPagesValid, Mapped

\* The erases of a cleanup take no page a logical page still maps to, for any
\* victim, however often its block was written, cleaned and handed out before.
THEOREM ErasesSafe == CleanupSpec => ErasesOnlyUnmapped
  <1>1. ASSUME CleanupInv, [CleanupNext]_allvars, NEW p \in Ppns,
               flash.page[p] # "EMPTY", flash'.page[p] = "EMPTY"
        PROVE  \A s \in Slots : PMT[s] # p
    <2>. SUFFICES ASSUME NEW s \in Slots, PMT[s] = p PROVE FALSE
      OBVIOUS
    <2>1. Mapped(s)
      BY NoPpnNotPage DEF Mapped
    <2>2. CASE FinishCleanup
      <3>1. PMT[s][1] # victim
        BY <1>1, <2>1, <2>2, VictimUnmapped
      <3>2. flash'.page[p] = IF p[1] = victim THEN "EMPTY" ELSE flash.page[p]
        BY <1>1, <2>2, FinishEffect
      <3>3. p[1] # victim
        BY <3>1
      <3>. QED
        BY <1>1, <3>2, <3>3
    <2>3. CASE CopyPage
      <3>1. flash'.page[p] # "EMPTY"
        BY <1>1, <2>3, CopyAppends, AppendErasesNothing
      <3>. QED
        BY <1>1, <3>1
    <2>4. ASSUME NEW lpn \in Lpns, NEW d \in Payloads, Write(lpn, d)
          PROVE  FALSE
      <3>1. flash'.page[p] # "EMPTY"
        BY <1>1, <2>4, WriteAppends, AppendErasesNothing
      <3>. QED
        BY <1>1, <3>1
    <2>5. CASE flash' = flash
      BY <1>1, <2>5
    <2>6. \/ FinishCleanup \/ CopyPage \/ flash' = flash
          \/ \E lpn \in Lpns, d \in Payloads : Write(lpn, d)
      BY <1>1 DEF CleanupNext, CleanupStep, Request, Next, StartCleanup, SkipPage,
                  CopyAborts, EraseAborts, WriteAborts, Die, Read, Trim, allvars, vars
    <2>. QED
      BY <2>2, <2>3, <2>4, <2>5, <2>6
  <1>2. CleanupInv /\ [CleanupNext]_allvars
          => [\A p \in Ppns :
                flash.page[p] # "EMPTY" /\ flash'.page[p] = "EMPTY"
                  => \A s \in Slots : PMT[s] # p]_allvars
    BY <1>1
  <1>. QED
    BY <1>2, CleanupInvariance, PTL DEF CleanupSpec, ErasesOnlyUnmapped

---------------------------------------------------------------------------
(* The logical disk under cleanups.                                        *)

\* A page's content shows in the disk only through the slot that maps to it.
LEMMA SameContents ==
  ASSUME CleanupInv,
         \A s \in Slots : /\ PMT'[s] # NoPpn <=> PMT[s] # NoPpn
                          /\ PMT[s] # NoPpn => flash'.data[PMT'[s]] = flash.data[PMT[s]]
  PROVE  disk' = disk
  <1>1. ASSUME NEW l \in Lpns
        PROVE  (IF Mapped(Slot(l)) THEN flash.data[PMT[Slot(l)]] ELSE NoData)'
                 = IF Mapped(Slot(l)) THEN flash.data[PMT[Slot(l)]] ELSE NoData
    <2>1. Slot(l) \in Slots
      BY SlotInRange
    <2>. QED
      BY <2>1 DEF Mapped
  <1>. QED
    BY <1>1 DEF disk

\* A copy moves the content with the mapping.
LEMMA CopyKeepsDisk ==
  ASSUME CleanupInv, CopyPage
  PROVE  disk' = disk
  <1>1. /\ AllocFailure = "none"
        /\ AppendPage(flash.data[OldPpn], OldPpn)
        /\ flash.data[OldPpn] \in Payloads
        /\ OldPpn \in Ppns
        /\ OldPpn # NoPpn
        /\ flash.page[OldPpn] # "EMPTY"
    BY CopyAppends
  <1>2. /\ NewPpn \in Ppns
        /\ flash.page[NewPpn] = "EMPTY"
        /\ flash'.data[NewPpn] = flash.data[OldPpn]
        /\ \A p \in Ppns : p # NewPpn => flash'.data[p] = flash.data[p]
    BY <1>1, AppendEffect
  <1>3. \A s \in Slots : PMT[s] # NewPpn
    BY <1>2, CleanupMappedAreOld
  <1>4. PMT \in [Slots -> Ppns \cup {NoPpn}]
    BY DEF CleanupInv, CleanupTypeOK, TypeOK
  <1>5. NewPpn # NoPpn
    BY <1>2, NoPpnNotPage
  <1>6. \A s \in Slots : PMT'[s] = PMT[s] \/ (PMT[s] = OldPpn /\ PMT'[s] = NewPpn)
    <2>1. CASE \E s \in Slots : PMT[s] = OldPpn /\ PMT' = [PMT EXCEPT ![s] = NewPpn]
      BY <1>4, <2>1
    <2>2. CASE UNCHANGED tables
      BY <2>2 DEF tables
    <2>. QED
      BY <2>1, <2>2 DEF CopyPage
  <1>7. ASSUME NEW s \in Slots
        PROVE  /\ PMT'[s] # NoPpn <=> PMT[s] # NoPpn
               /\ PMT[s] # NoPpn => flash'.data[PMT'[s]] = flash.data[PMT[s]]
    <2>1. CASE PMT'[s] = PMT[s]
      BY <1>2, <1>3, <1>4, <2>1
    <2>2. CASE PMT[s] = OldPpn /\ PMT'[s] = NewPpn
      BY <1>1, <1>2, <1>5, <2>2
    <2>. QED
      BY <1>6, <2>1, <2>2
  <1>. QED
    BY <1>7, SameContents

\* The erases leave what the slots map to.
LEMMA FinishKeepsDisk ==
  ASSUME CleanupInv, FinishCleanup
  PROVE  disk' = disk
  <1>1. flash'.data = flash.data /\ PMT' = PMT
    BY FinishEffect DEF FinishCleanup, tables
  <1>. QED
    BY <1>1 DEF disk, Mapped

\* Between cleanups a write reaches the page it names and no other.
LEMMA WriteReachesDisk ==
  ASSUME CleanupInv, NEW lpn \in Lpns, NEW d \in Payloads, Write(lpn, d)
  PROVE  disk' = [disk EXCEPT ![lpn] = d]
  <1>1. /\ NewPpn \in Ppns
        /\ flash.page[NewPpn] = "EMPTY"
        /\ flash'.data[NewPpn] = d
        /\ \A p \in Ppns : p # NewPpn => flash'.data[p] = flash.data[p]
    BY WriteAppends, AppendEffect
  <1>2. \A s \in Slots : PMT[s] # NewPpn
    BY <1>1, CleanupMappedAreOld
  <1>3. PMT \in [Slots -> Ppns \cup {NoPpn}]
    BY DEF CleanupInv, CleanupTypeOK, TypeOK
  <1>4. PMT' = [PMT EXCEPT ![Slot(lpn)] = NewPpn]
    BY DEF Write
  <1>5. ASSUME NEW l \in Lpns
        PROVE  disk'[l] = IF l = lpn THEN d ELSE disk[l]
    <2>1. Slot(l) \in Slots
      BY SlotInRange
    <2>2. CASE l = lpn
      <3>1. PMT'[Slot(l)] = NewPpn /\ NewPpn # NoPpn
        BY <1>1, <1>3, <1>4, <2>1, <2>2, NoPpnNotPage
      <3>. QED
        BY <1>1, <2>2, <3>1 DEF disk, Mapped
    <2>3. CASE l # lpn
      <3>1. Slot(l) # Slot(lpn)
        BY <2>3, SlotInjective
      <3>2. PMT'[Slot(l)] = PMT[Slot(l)]
        BY <1>3, <1>4, <2>1, <3>1
      <3>3. PMT[Slot(l)] # NoPpn => flash'.data[PMT[Slot(l)]] = flash.data[PMT[Slot(l)]]
        BY <1>1, <1>2, <1>3, <2>1
      <3>. QED
        BY <2>3, <3>2, <3>3 DEF disk, Mapped
    <2>. QED
      BY <2>2, <2>3
  <1>. QED
    BY <1>5 DEF disk

\* Between cleanups a trim empties the page it names and no other.
LEMMA TrimReachesDisk ==
  ASSUME CleanupInv, NEW lpn \in Lpns, Trim(lpn)
  PROVE  disk' = [disk EXCEPT ![lpn] = NoData]
  <1>1. PMT' = [PMT EXCEPT ![Slot(lpn)] = NoPpn] /\ flash' = flash
    BY DEF Trim
  <1>2. PMT \in [Slots -> Ppns \cup {NoPpn}]
    BY DEF CleanupInv, CleanupTypeOK, TypeOK
  <1>3. ASSUME NEW l \in Lpns
        PROVE  disk'[l] = IF l = lpn THEN NoData ELSE disk[l]
    <2>1. Slot(l) \in Slots
      BY SlotInRange
    <2>2. CASE l = lpn
      BY <1>1, <1>2, <2>1, <2>2 DEF disk, Mapped
    <2>3. CASE l # lpn
      <3>1. PMT'[Slot(l)] = PMT[Slot(l)]
        BY <1>1, <1>2, <2>1, <2>3, SlotInjective
      <3>. QED
        BY <1>1, <2>3, <3>1 DEF disk, Mapped
    <2>. QED
      BY <2>2, <2>3
  <1>. QED
    BY <1>3 DEF disk

\* A cleanup never changes what the host stored, and the requests between two
\* cleanups still do to the logical disk exactly what they ask for.
THEOREM DiskSurvivesCleanups == CleanupSpec => CleanupKeepsDisk
  <1>1. ASSUME CleanupInv, CleanupNext, victim # NoBlock
        PROVE  disk' = disk
    <2>1. CASE CopyPage
      BY <1>1, <2>1, CopyKeepsDisk
    <2>2. CASE FinishCleanup
      BY <1>1, <2>2, FinishKeepsDisk
    <2>3. CASE flash' = flash /\ PMT' = PMT
      BY <2>3 DEF disk, Mapped
    <2>4. \/ CopyPage \/ FinishCleanup \/ (flash' = flash /\ PMT' = PMT)
      BY <1>1 DEF CleanupNext, CleanupStep, Request, StartCleanup, SkipPage,
                  CopyAborts, EraseAborts, Die, vars
    <2>. QED
      BY <2>1, <2>2, <2>3, <2>4
  <1>2. ASSUME CleanupInv, [CleanupNext]_allvars
        PROVE  [IF victim # NoBlock
                THEN disk' = disk
                ELSE \A lpn \in Lpns :
                       /\ \A d \in Payloads : Write(lpn, d) => disk' = [disk EXCEPT ![lpn] = d]
                       /\ Trim(lpn) => disk' = [disk EXCEPT ![lpn] = NoData]]_allvars
    <2>1. CASE UNCHANGED allvars
      BY <2>1
    <2>2. CASE CleanupNext /\ victim # NoBlock
      BY <1>1, <1>2, <2>2
    <2>3. CASE victim = NoBlock
      <3>1. \A lpn \in Lpns : \A d \in Payloads :
              Write(lpn, d) => disk' = [disk EXCEPT ![lpn] = d]
        BY <1>2, WriteReachesDisk
      <3>2. \A lpn \in Lpns : Trim(lpn) => disk' = [disk EXCEPT ![lpn] = NoData]
        BY <1>2, TrimReachesDisk
      <3>. QED
        BY <2>3, <3>1, <3>2
    <2>. QED
      BY <1>2, <2>1, <2>2, <2>3
  <1>. QED
    BY <1>2, CleanupInvariance, PTL DEF CleanupSpec, CleanupKeepsDisk
===============================================================================
