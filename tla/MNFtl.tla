-------------------------------- MODULE MNFtl --------------------------------
(***************************************************************************)
(* MNFTL as mn_ftl.cpp implements it and as the simulator runs it: the     *)
(* host's requests read, write and trim, each handled to its end.          *)
(*                                                                         *)
(* A write appends to the current block, wherever the logical page was     *)
(* before.  The mapping tables live, in the paper, in the spare area of    *)
(* flash pages; the directory PMD says, per table, which page holds it     *)
(* (the anchor).  The code keeps the tables in memory (PMT) and uses the   *)
(* anchor only to decide whether the table exists.                         *)
(*                                                                         *)
(* cleanup_block is not here: Block_manager never calls it for MNFTL       *)
(* (ssd_bm.cpp:203).  MNFtlCleanup adds it.                                *)
(***************************************************************************)
EXTENDS BlockLists, MNFtlIndex

VARIABLES
  flash,                \* the array
  bm,                   \* the Block_manager
  PMD,                  \* page mapping directory: the anchor of each table
  PMT,                  \* page mapping tables: the page each slot maps to
  current_block,        \* block being filled; NoBlock before the first write
  current_page_offset,  \* pages allocated in it
  global_buffer,        \* page the last served read points into
  abort                 \* the failed assert that ended the program, or "none"

tables == <<PMD, PMT>>
vars == <<flash, bm, PMD, PMT, current_block, current_page_offset,
          global_buffer, abort>>

Aborts == {"none", "no_free_block", "erase_failed", "no_free_page", "page_not_empty"}

TypeOK ==
  /\ flash \in FlashType
  /\ bm \in BlockManagerType
  /\ PMD \in [Anchors -> Ppns \cup {NoPpn}]
  /\ PMT \in [Slots -> Ppns \cup {NoPpn}]
  /\ current_block \in Blocks \cup {NoBlock}
  /\ current_page_offset \in 0 .. BLOCK_SIZE
  /\ global_buffer \in Ppns \cup {NoPpn}
  /\ abort \in Aborts

Init ==
  /\ flash = FlashInit
  /\ bm = BlockManagerInit
  /\ PMD = [a \in Anchors |-> NoPpn]
  /\ PMT = [s \in Slots |-> NoPpn]
  /\ current_block = NoBlock
  /\ current_page_offset = 0
  /\ global_buffer = NoPpn
  /\ abort = "none"

Running == abort = "none"

(***************************************************************************)
(* Where the next page goes.  When there is no current block or it is      *)
(* full, allocate_new_current_block takes one from the Block_manager,      *)
(* which may erase blocks on the way.                                      *)
(***************************************************************************)
\* Mutant: the current block counts as full one page early.
NeedsBlock_Early == current_block = NoBlock \/ current_page_offset = P - 1

NeedsBlock == current_block = NoBlock \/ current_page_offset = P

TargetBlock == IF NeedsBlock THEN NextBlock(bm) ELSE current_block
\* Mutant: a new current block does not start at offset 0.
TargetOffset_NoReset == current_page_offset

TargetOffset == IF NeedsBlock THEN 0 ELSE current_page_offset
TargetManager == IF NeedsBlock THEN GetFreeBlock(bm, "DATA") ELSE bm
TargetFlash == IF NeedsBlock THEN ServicedFlash(bm, flash) ELSE flash
NewPpn == FreePage(TargetFlash, TargetBlock)

\* The assert that fails on the way to a programmed page, if any.
AllocFailure ==
  IF NeedsBlock /\ ServiceFails(bm, flash) THEN "erase_failed"
  ELSE IF NeedsBlock /\ OutOfBlocks(bm) THEN "no_free_block"
  ELSE IF ~HasFreePage(TargetFlash, TargetBlock) THEN "no_free_page"
  ELSE IF ~CanProgram(TargetFlash, NewPpn) THEN "page_not_empty"
  ELSE "none"

\* A page with payload d goes to NewPpn and the page old is replaced.
AppendPage(d, old) ==
  /\ flash' = Replace(Program(TargetFlash, NewPpn, d), old)
  /\ bm' = TargetManager
  /\ current_block' = TargetBlock
  /\ current_page_offset' = TargetOffset + 1

Die(site) ==
  /\ abort' = site
  /\ UNCHANGED <<flash, bm, PMD, PMT, current_block, current_page_offset,
                 global_buffer>>

(***************************************************************************)
(* The host's requests.                                                    *)
(***************************************************************************)
\* Mutants: the replacement names the page just written; there is no
\* replacement; the anchor is set only the first time.
Write_ReplacesNew(lpn, d) ==
  /\ Running
  /\ AllocFailure = "none"
  /\ AppendPage(d, NewPpn)
  /\ PMT' = [PMT EXCEPT ![Slot(lpn)] = NewPpn]
  /\ PMD' = [PMD EXCEPT ![Anchor(lpn)] = NewPpn]
  /\ UNCHANGED <<global_buffer, abort>>

Write_NoReplace(lpn, d) ==
  /\ Running
  /\ AllocFailure = "none"
  /\ AppendPage(d, NoPpn)
  /\ PMT' = [PMT EXCEPT ![Slot(lpn)] = NewPpn]
  /\ PMD' = [PMD EXCEPT ![Anchor(lpn)] = NewPpn]
  /\ UNCHANGED <<global_buffer, abort>>

Write_FirstAnchor(lpn, d) ==
  /\ Running
  /\ AllocFailure = "none"
  /\ AppendPage(d, PMT[Slot(lpn)])
  /\ PMT' = [PMT EXCEPT ![Slot(lpn)] = NewPpn]
  /\ PMD' = IF PMD[Anchor(lpn)] # NoPpn THEN PMD
                                        ELSE [PMD EXCEPT ![Anchor(lpn)] = NewPpn]
  /\ UNCHANGED <<global_buffer, abort>>

Write(lpn, d) ==
  /\ Running
  /\ AllocFailure = "none"
  /\ AppendPage(d, PMT[Slot(lpn)])
  /\ PMT' = [PMT EXCEPT ![Slot(lpn)] = NewPpn]
  /\ PMD' = [PMD EXCEPT ![Anchor(lpn)] = NewPpn]
  /\ UNCHANGED <<global_buffer, abort>>

WriteAborts ==
  /\ Running
  /\ AllocFailure # "none"
  /\ Die(AllocFailure)

\* Mutant: the read goes to the page that anchors the table.
Read_Anchor(lpn) ==
  /\ Running
  /\ PMD[Anchor(lpn)] # NoPpn
  /\ PMT[Slot(lpn)] # NoPpn
  /\ global_buffer' = PMD[Anchor(lpn)]
  /\ UNCHANGED <<flash, bm, tables, current_block, current_page_offset, abort>>

\* Without an anchor or without a mapping the read is a no-op.
Read(lpn) ==
  /\ Running
  /\ PMD[Anchor(lpn)] # NoPpn
  /\ PMT[Slot(lpn)] # NoPpn
  /\ global_buffer' = PMT[Slot(lpn)]
  /\ UNCHANGED <<flash, bm, tables, current_block, current_page_offset, abort>>

\* The slot is forgotten; the page it mapped to keeps its state, and so does
\* the anchor.
Trim(lpn) ==
  /\ Running
  /\ PMT' = [PMT EXCEPT ![Slot(lpn)] = NoPpn]
  /\ UNCHANGED <<flash, bm, PMD, current_block, current_page_offset,
                 global_buffer, abort>>

Next ==
  \/ WriteAborts
  \/ \E lpn \in Lpns :
       \/ \E d \in Payloads : Write(lpn, d)
       \/ Read(lpn)
       \/ Trim(lpn)

Spec == Init /\ [][Next]_vars

(***************************************************************************)
(* Properties.                                                             *)
(***************************************************************************)
Mapped(s) == PMT[s] # NoPpn

\* No two logical pages share a flash page: otherwise the overwrite of one
\* would invalidate the content of the other.
MappingInjective ==
  \A s, t \in Slots : Mapped(s) /\ PMT[s] = PMT[t] => s = t

\* A mapped page is always VALID: the replacement of an old page never hits a
\* page that another mapping still needs.
MappedPagesValid ==
  \A s \in Slots : Mapped(s) => flash.page[PMT[s]] = "VALID"

\* read() gives up when the anchor is missing, before it looks at the table:
\* so a table with a mapping must have its anchor.
MappedPagesReadable ==
  \A s \in Slots : Mapped(s) => PMD[AnchorOf(s)] # NoPpn

\* The anchor is the page whose spare area holds the table.  It must stay
\* VALID, whatever order the slots of its table are rewritten and trimmed in:
\* an INVALID anchor could be erased with the table.
AnchorsValid ==
  \A a \in Anchors : PMD[a] # NoPpn => flash.page[PMD[a]] = "VALID"

\* The FTL's own offset and the block's pages_valid count the same pages (the
\* code keeps both and mixes them), a block that was handed out is filled to
\* its end before the next one is begun, and pages are programmed in order.
\* With it the asserts of Plane::get_free_page and Page::_write never fail.
PagesFilledInOrder ==
  /\ current_block # NoBlock => current_page_offset = flash.pages_valid[current_block]
  /\ \A b \in Blocks :
       /\ b >= bm.fresh => flash.pages_valid[b] = 0
       /\ b < bm.fresh /\ b # current_block => flash.pages_valid[b] = BLOCK_SIZE
  /\ \A p \in Ppns : flash.page[p] = "EMPTY" <=> p[2] >= flash.pages_valid[p[1]]

\* The program ends only in the assert of get_page_block, and then every page
\* of the device has been programmed: no page is lost to the allocation.
AbortsOnlyWhenAllProgrammed ==
  abort # "none" =>
    /\ abort = "no_free_block"
    /\ \A p \in Ppns : flash.page[p] # "EMPTY"

\* VALID pages no slot maps to: trim leaves them behind, nothing reclaims them.
Orphans == {p \in Ppns : flash.page[p] = "VALID" /\ \A s \in Slots : PMT[s] # p}

\* Only trim orphans a page; a write maps the page it programs and invalidates
\* the one it replaces, so writes neither add to the orphans nor reuse them.
WritesLeaveNoOrphans == [][flash' # flash => Orphans' = Orphans]_vars

\* The mapping tables and the array implement the logical disk.
disk ==
  [l \in Lpns |-> IF Mapped(Slot(l)) THEN flash.data[PMT[Slot(l)]] ELSE NoData]
buffer == IF global_buffer = NoPpn THEN NoData ELSE flash.data[global_buffer]

Disk == INSTANCE LogicalDisk WITH disk <- disk, buffer <- buffer

\* Each handler does to the logical disk what its request asks for, to the
\* page it names and to no other.
AsAsked ==
  \A lpn \in Lpns :
    /\ \A d \in Payloads : Write(lpn, d) => Disk!Write(lpn, d)
    /\ Read(lpn) => Disk!Read(lpn)
    /\ Trim(lpn) => Disk!Trim(lpn)

\* MNFTL implements the logical disk: every write is what later reads of that
\* page return, and of no other page, until it is overwritten or trimmed;
\* what a read returned stays readable.
ReadsReturnLastWrite == Disk!Spec /\ [][AsAsked]_vars
==============================================================================
