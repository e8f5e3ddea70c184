------------------------------- MODULE Device -------------------------------
(***************************************************************************)
(* The device below the FTL: Controller::issue sends an event down through *)
(* Ssd, Package, Die and Plane to one Block, each level picking its child  *)
(* by a field of the event's Address, while Page copies the payload to the *)
(* place of the address's linear number in page_data.  The levels keep     *)
(* statistics of their own: free blocks in a plane, wear at every level.   *)
(* An FTL names blocks by linear numbers (Block_manager by a block's       *)
(* physical_address), so the module must be a FlatFlash.                   *)
(*                                                                         *)
(* Locks, delays and times are left out (Channel has the locks), and so is *)
(* MERGE, which no FTL issues.                                             *)
(***************************************************************************)
EXTENDS Integers, Sequences, FiniteSetsExt

CONSTANTS
  SSD_SIZE, PACKAGE_SIZE, DIE_SIZE, PLANE_SIZE, BLOCK_SIZE,  \* children of each level
  BLOCK_ERASES,  \* erase cycles a block survives
  Payloads,      \* contents a host can write to a page
  NoData,        \* content of a page never written
  Touched        \* linear page numbers the FTL uses (bounds the model)

TotalPages == SSD_SIZE * PACKAGE_SIZE * DIE_SIZE * PLANE_SIZE * BLOCK_SIZE
Linear == 0 .. TotalPages - 1

ASSUME DeviceAssumption ==
  /\ {SSD_SIZE, PACKAGE_SIZE, DIE_SIZE, PLANE_SIZE, BLOCK_SIZE} \subseteq Nat \ {0}
  /\ BLOCK_ERASES \in Nat
  /\ Touched \subseteq Linear
  /\ NoData \notin Payloads

VARIABLES
  dev,      \* the hardware, as one record (see DeviceType)
  aborted   \* a failed assert ended the program

vars == <<dev, aborted>>
-----------------------------------------------------------------------------
\* A unit of the hierarchy is its path: <<>> is the Ssd, <<p>> a package,
\* <<p, d>> a die, <<p, d, l>> a plane, and a Block has four steps.
Sizes == <<SSD_SIZE, PACKAGE_SIZE, DIE_SIZE, PLANE_SIZE>>
Children(unit) == 0 .. Sizes[Len(unit) + 1] - 1
PackageNumbers == 0 .. SSD_SIZE - 1
DieNumbers == 0 .. PACKAGE_SIZE - 1
PlaneNumbers == 0 .. DIE_SIZE - 1
BlockNumbers == 0 .. PLANE_SIZE - 1
Packages == {<<p>> : p \in PackageNumbers}
Dies == PackageNumbers \X DieNumbers
Planes == PackageNumbers \X DieNumbers \X PlaneNumbers
Blocks == PackageNumbers \X DieNumbers \X PlaneNumbers \X BlockNumbers
Units == {<<>>} \cup Packages \cup Dies \cup Planes
Pages == 0 .. BLOCK_SIZE - 1

\* The constructors hand each child its physical_address.
PhysicalAddress(b) ==
    b[1] * PACKAGE_SIZE * DIE_SIZE * PLANE_SIZE * BLOCK_SIZE
  + b[2] * DIE_SIZE * PLANE_SIZE * BLOCK_SIZE
  + b[3] * PLANE_SIZE * BLOCK_SIZE
  + b[4] * BLOCK_SIZE

\* enum address_valid, in its order.
Valids == <<"NONE", "PACKAGE", "DIE", "PLANE", "BLOCK", "PAGE">>

\* Mutant: the number is not divided by PLANE_SIZE on the way.
Address_NoPlane(n, valid) ==
  LET blk == n \div BLOCK_SIZE
      die == blk \div DIE_SIZE
      pkg == die \div PACKAGE_SIZE
  IN  [block |-> <<pkg % SSD_SIZE, die % PACKAGE_SIZE, blk % DIE_SIZE, blk % PLANE_SIZE>>,
       page |-> n % BLOCK_SIZE, valid |-> valid, real_address |-> n]

\* Address::set_linear_address, with an address as the path of its block.
Address(n, valid) ==
  LET blk == n \div BLOCK_SIZE
      pln == blk \div PLANE_SIZE
      die == pln \div DIE_SIZE
      pkg == die \div PACKAGE_SIZE
  IN  [block |-> <<pkg % SSD_SIZE, die % PACKAGE_SIZE, pln % DIE_SIZE, blk % PLANE_SIZE>>,
       page |-> n % BLOCK_SIZE, valid |-> valid, real_address |-> n]

NoAddress == Address(0, "NONE")
-----------------------------------------------------------------------------
BlockStates == {"FREE", "ACTIVE", "INACTIVE"}
NewBlock ==
  [pages_valid |-> 0, pages_invalid |-> 0, erases_remaining |-> BLOCK_ERASES, state |-> "FREE"]
NewWear == [least_worn |-> 0, erases_remaining |-> BLOCK_ERASES]

(***************************************************************************)
(* page: Page::state.  page_data: the memory all pages share, by linear    *)
(* number.  block: the fields of Block.  free_blocks: of each Plane.       *)
(* wear: least_worn and erases_remaining of every Plane, Die, Package and  *)
(* of the Ssd.                                                             *)
(***************************************************************************)
DeviceType ==
  [page        : [Blocks -> [Pages -> {"EMPTY", "VALID", "INVALID"}]],
   page_data   : [Linear -> Payloads \cup {NoData}],
   block       : [Blocks -> [pages_valid : Nat, pages_invalid : Nat,
                             erases_remaining : 0 .. BLOCK_ERASES, state : BlockStates]],
   free_blocks : [Planes -> Nat],
   wear        : [Units -> [least_worn : Nat, erases_remaining : 0 .. BLOCK_ERASES]]]

DeviceInit ==
  [page        |-> [b \in Blocks |-> [o \in Pages |-> "EMPTY"]],
   page_data   |-> [n \in Linear |-> NoData],
   block       |-> [b \in Blocks |-> NewBlock],
   free_blocks |-> [u \in Planes |-> PLANE_SIZE],
   wear        |-> [u \in Units |-> NewWear]]

PlaneOf(b) == <<b[1], b[2], b[3]>>

\* Mutant: the state is computed before the page is counted.
invalidate_page_Late(s, b, o) ==
  IF s.page[b][o] = "INVALID" THEN s
  ELSE LET invalid == s.block[b].pages_invalid
       IN  [s EXCEPT !.page[b][o] = "INVALID",
                     !.block[b].pages_invalid = invalid + 1,
                     !.block[b].state =
                       IF invalid >= BLOCK_SIZE THEN "INACTIVE" ELSE "ACTIVE"]

\* Block::invalidate_page, reached through a block pointer or a replacement.
invalidate_page(s, b, o) ==
  IF s.page[b][o] = "INVALID" THEN s
  ELSE LET invalid == s.block[b].pages_invalid + 1
       IN  [s EXCEPT !.page[b][o] = "INVALID",
                     !.block[b].pages_invalid = invalid,
                     !.block[b].state =
                       IF invalid >= BLOCK_SIZE THEN "INACTIVE" ELSE "ACTIVE"]

\* Ssd::replace down to Block::replace; an address less valid than PAGE is ignored.
replace(s, old) ==
  IF old.valid = "PAGE" THEN invalidate_page(s, old.block, old.page) ELSE s

\* Block::write and Page::_write.
BlockWrite(s, a, d) ==
  [s EXCEPT !.page[a.block][a.page]        = "VALID",
            !.page_data[a.real_address]    = d,
            !.block[a.block].pages_valid   = @ + 1,
            !.block[a.block].state         = "ACTIVE"]

\* Mutant: the state of the block is not looked at.
PlaneWrite_Always(s, a, d) ==
  [BlockWrite(s, a, d) EXCEPT !.free_blocks[PlaneOf(a.block)] = @ - 1]

\* Plane::write: a block that was FREE no longer is.
PlaneWrite(s, a, d) ==
  LET t == BlockWrite(s, a, d)
  IN  IF s.block[a.block].state = "FREE" /\ t.block[a.block].state # "FREE"
        THEN [t EXCEPT !.free_blocks[PlaneOf(a.block)] = @ - 1]
        ELSE t

\* Block::_erase.
BlockErase(s, b) ==
  [s EXCEPT !.page[b]  = [o \in Pages |-> "EMPTY"],
            !.block[b] = [pages_valid |-> 0, pages_invalid |-> 0, state |-> "FREE",
                          erases_remaining |-> s.block[b].erases_remaining - 1]]

(***************************************************************************)
(* update_wear_stats of one unit after the erase of block b.  A plane      *)
(* compares its blocks; the levels above pass the full address down, so    *)
(* that each child answers for its block at the coordinates of b, not for  *)
(* itself.  Every child is compared with the first one, and the last that  *)
(* is better wins.                                                         *)
(***************************************************************************)
update_wear_stats(s, unit, b) ==
  LET level == Len(unit) + 1
      left(i) == s.block[[b EXCEPT ![level] = i]].erases_remaining
      better == {i \in Children(unit) : left(i) > left(0)}
  IN  [least_worn       |-> IF better = {} THEN 0 ELSE Max(better),
       erases_remaining |-> left(0)]

UnitsOf(b) == {SubSeq(b, 1, k) : k \in 0 .. 3}

\* Mutant: the statistics are taken before the erase.
UnitErase_Early(s, b) ==
  LET t == BlockErase(s, b)
  IN  [t EXCEPT !.free_blocks[PlaneOf(b)] = @ + 1,
                !.wear = [u \in Units |-> IF u \in UnitsOf(b)
                                            THEN update_wear_stats(s, u, b)
                                            ELSE @[u]]]

\* Plane::erase and the update of every level on the way back up.
UnitErase(s, b) ==
  LET t == BlockErase(s, b)
  IN  [t EXCEPT !.free_blocks[PlaneOf(b)] = @ + 1,
                !.wear = [u \in Units |-> IF u \in UnitsOf(b)
                                            THEN update_wear_stats(t, u, b)
                                            ELSE @[u]]]

\* Plane::get_free_page and its assert.
HasFreePage(a) == dev.block[a.block].pages_valid < BLOCK_SIZE
get_free_page(a) ==
  Address(a.real_address - (a.real_address % BLOCK_SIZE) + dev.block[a.block].pages_valid, "PAGE")

\* get_least_worn: each level names its least worn child.
LeastWornIn(unit) == dev.wear[unit].least_worn
get_least_worn ==
  LET p == <<LeastWornIn(<<>>)>>
      d == Append(p, LeastWornIn(p))
      l == Append(d, LeastWornIn(d))
  IN  Append(l, LeastWornIn(l))
-----------------------------------------------------------------------------
Init ==
  /\ dev = DeviceInit
  /\ aborted = FALSE

\* The addresses an FTL can put in an event, as page or as block addresses.
PageAddresses == {Address(n, "PAGE") : n \in Touched}
BlockAddresses == {Address(n, "BLOCK") : n \in Touched}
ReplaceAddresses == {NoAddress, Address(0, "BLOCK")} \cup PageAddresses

\* Controller::issue of a WRITE: the page, then the page it replaces.
Issue(a, old, d) ==
  /\ dev.page[a.block][a.page] = "EMPTY"
  /\ dev' = replace(PlaneWrite(dev, a, d), old)
  /\ UNCHANGED aborted

Write ==
  \E a \in PageAddresses, old \in ReplaceAddresses, d \in Payloads : Issue(a, old, d)

\* An FTL that fills a block in order asks for the free page first.
WriteFreePage ==
  \E a \in BlockAddresses, d \in Payloads :
    /\ HasFreePage(a)
    /\ Issue(get_free_page(a), NoAddress, d)

\* The asserts of Page::_write and Plane::get_free_page.
FailedAssert ==
  /\ \/ \E a \in PageAddresses : dev.page[a.block][a.page] # "EMPTY"
     \/ \E a \in BlockAddresses : ~HasFreePage(a)
  /\ aborted' = TRUE
  /\ UNCHANGED dev

\* Mutant: the erase cycles left are not looked at.
EraseBlock_Unchecked ==
  \E a \in BlockAddresses :
    /\ dev' = UnitErase(dev, a.block)
    /\ UNCHANGED aborted

\* Controller::issue of an ERASE; with no cycle left it returns FAILURE.
EraseBlock ==
  \E a \in BlockAddresses :
    /\ dev' = IF dev.block[a.block].erases_remaining < 1 THEN dev ELSE UnitErase(dev, a.block)
    /\ UNCHANGED aborted

\* get_block_pointer(address)->invalidate_page(address.page), in the trims.
InvalidatePage ==
  \E a \in PageAddresses :
    /\ dev' = invalidate_page(dev, a.block, a.page)
    /\ UNCHANGED aborted

Next == ~aborted /\ (Write \/ WriteFreePage \/ FailedAssert \/ EraseBlock \/ InvalidatePage)

Spec == Init /\ [][Next]_vars
-----------------------------------------------------------------------------
\* Type correctness: in particular free_blocks never falls below zero.
TypeOK == dev \in DeviceType /\ aborted \in BOOLEAN

\* The flat flash of the device: block i is the one whose physical_address is
\* the i-th multiple of BLOCK_SIZE.
FlatBlocks == 0 .. SSD_SIZE * PACKAGE_SIZE * DIE_SIZE * PLANE_SIZE - 1
BlockAt == [i \in FlatBlocks |-> CHOOSE b \in Blocks : PhysicalAddress(b) = i * BLOCK_SIZE]
FlatView ==
  [page             |-> [p \in FlatBlocks \X Pages |-> dev.page[BlockAt[p[1]]][p[2]]],
   data             |-> [p \in FlatBlocks \X Pages |-> dev.page_data[p[1] * BLOCK_SIZE + p[2]]],
   pages_valid      |-> [i \in FlatBlocks |-> dev.block[BlockAt[i]].pages_valid],
   pages_invalid    |-> [i \in FlatBlocks |-> dev.block[BlockAt[i]].pages_invalid],
   erases_remaining |-> [i \in FlatBlocks |-> dev.block[BlockAt[i]].erases_remaining]]

Flat == INSTANCE FlatFlash WITH
          flash <- FlatView,
          NUMBER_OF_ADDRESSABLE_BLOCKS <- SSD_SIZE * PACKAGE_SIZE * DIE_SIZE * PLANE_SIZE

\* Routing by the fields of an address, storing by its linear number and
\* naming blocks by physical_address agree: the hierarchy is a flat flash.
ImplementsFlatFlash == Flat!Spec

\* The state of a block (set by write, erase and invalidate_page, each from
\* what it knows) says what its pages say: FREE when nothing happened since
\* the erase, INACTIVE exactly when every page was invalidated.
StateMatchesPages ==
  \A b \in Blocks :
    /\ dev.block[b].state = "FREE" <=> \A o \in Pages : dev.page[b][o] = "EMPTY"
    /\ dev.block[b].state = "INACTIVE" <=> \A o \in Pages : dev.page[b][o] = "INVALID"

BlocksOf == [u \in Planes |-> {b \in Blocks : PlaneOf(b) = u}]
Drift(u) ==
  dev.free_blocks[u] - Cardinality({b \in BlocksOf[u] : dev.block[b].state = "FREE"})

\* The steps a plane miscounts: a FREE block is erased, or stops being FREE
\* because a page of it is invalidated.
Miscounted(b) ==
  /\ dev.block[b].state = "FREE"
  /\ \/ dev'.block[b].erases_remaining < dev.block[b].erases_remaining
     \/ dev'.block[b].state # "FREE" /\ dev'.block[b].pages_valid = 0

\* A plane counts its free blocks without looking at them; through every
\* other step, one event touching two blocks included, the count follows.
FreeBlocksFollow ==
  [][\A u \in Planes :
       Drift(u)' = Drift(u) + Cardinality({b \in BlocksOf[u] : Miscounted(b)})]_vars

\* The statistics a level keeps are never stale: the erases it reports are
\* those one of its blocks has left now, and the block get_least_worn names
\* in a plane has no fewer left than the first block of the plane.
WearCurrent ==
  /\ \A u \in Units : \E b \in Blocks :
       /\ SubSeq(b, 1, Len(u)) = u
       /\ dev.wear[u].erases_remaining = dev.block[b].erases_remaining
  /\ \A u \in Planes :
       dev.block[Append(u, LeastWornIn(u))].erases_remaining
         >= dev.block[Append(u, 0)].erases_remaining
  /\ get_least_worn \in Blocks
=============================================================================
