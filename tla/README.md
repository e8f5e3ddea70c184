# FlashSim/MNFTL: a TLA+ model with TLC checks and TLAPS proofs

The repository is FlashSim, an event-driven SSD simulator in C++, extended with
MNFTL, a flash translation layer (FTL) that keeps page mapping tables per
logical block. This directory holds specifications of its core logic, the TLC
instances that check them and the proofs of what matters most. Every module is
written from the source files it names; `PROJECT.json` maps each definition to
its lines.

## 1. The system

A request (read, write or trim of one logical page, with a start time) enters
`Ssd::event_arrive`, is handed by the `Controller` to the configured FTL, and
runs to its end, in one thread, before the next one arrives. The FTL picks
physical pages, asks the `Block_manager` for blocks, and gives `Event`s to
`Controller::issue`, which books the channel, sends the operation down through
`Ssd`, `Package`, `Die` and `Plane` to a `Block` and invalidates the page the
event replaces. What can interleave is therefore not
threads but *call-backs* (`get_free_block` -> `insert_events` ->
`cleanup_block` -> `get_free_block`), *requests in any order* over a long life,
and *simulated time*, which runs ahead of the arrivals.

| component | source | state | operations | what makes it correct |
|---|---|---|---|---|
| Pages, erase blocks | `ssd_page.cpp`, `ssd_block.cpp` | page states, payloads, `pages_valid`, `pages_invalid`, `erases_remaining` | program, invalidate, erase | a page is programmed once between erases |
| Block_manager | `ssd_bm.cpp` | `simpleCurrentFree`, `free_list`, `invalid_list`, `data_active`, `log_active`, `out_of_blocks` | get_free_block, invalidate, erase_and_invalidate, promote_block, insert_events | each block is in one place; what it hands out is erased; it gives up only when nothing is left |
| MNFTL | `mn_ftl.cpp` | `PMD`, `PMT`, current block and offset | read, write, trim, cleanup_block | it behaves as a disk; tables name VALID pages, each at most once |
| Channel, Bus | `ssd_channel.cpp`, `ssd_bus.cpp` | scheduling table, `ready_at` | lock, unlock | transfers do not overlap and are not delayed for nothing |
| Controller, Event | `ssd_controller.cpp`, `ssd_event.cpp` | none; the event's times | issue | operations happen in the order of the hardware |
| DFTL | `FTLs/dftl_*.cpp` | translation map, cached mapping table, reverse map | read, write, trim, cleanup_block | the maps stay inverse of each other; collection loses no page; requests end |
| BDFTL | `FTLs/bdftl_ftl.cpp` | DFTL's, and a block map, a trim map, a pool of converted blocks | the same, and the conversion of a block | a page is in one map; a block has one user |
| BAST | `FTLs/bast_ftl.cpp` | data block and log block of each logical block | read, write, trim, switch and random merge | a merge takes the newest copy of every page; no block leaks |
| FAST | `FTLs/fast_ftl.cpp` | data blocks, a queue of shared log blocks, the sequential log block | read, write, trim, three merges | the same, with the newest copy found by searching |
| Plane, Die, Package, Ssd | `ssd_plane.cpp`, ... | `free_blocks`, `least_worn`, `erases_remaining` | forward write, replace, erase and queries | they are one flat array; the summaries are those of the blocks |
| Address | `ssd_address.cpp` | fields and linear number | conversion | it is a bijection |
| Page FTL | `FTLs/page_ftl.cpp` | trim map, page counter | read, write, trim | the counter counts |
| RaidSsd | `ssd_raidssd.cpp` | none | split the address space | |

The hard behaviours, with the line where each bites, are `hazards` in
`PROJECT.json`. In short: nested garbage collection; counters kept twice; a
mapping and the page state it implies changing in different steps; several
copies of a page told apart only by the order of a search; merges that need a
block while every block has an owner; devices run to their last block and their
last erase; and transfers booked out of order of time.

## 2. The modules

| module | what it is |
|---|---|
| `NandFlash` | the array as one record, each hardware operation an operator on it |
| `BlockLists` | `Block_manager` as operators on a record, so that an FTL's handler can call it in the middle of an action |
| `BlockManager` | `Block_manager` driven by any client that respects the ownership of blocks (as BAST and FAST do) |
| `LogicalDisk` | the abstract specification of an FTL: an array of logical pages and the buffer of the last read |
| `MNFtlIndex` | how MNFTL splits a logical page number into directory entry and table slot |
| `MNFtl` | MNFTL's read, write and trim, composed of the four modules above; `Disk == INSTANCE LogicalDisk` is the refinement |
| `MNFtlCleanup` | MNFtl with `cleanup_block`, one page of the victim per step |
| `Dftl` | DFTL with its cache, and the circle of `get_free_data_page`, `get_free_block`, `insert_events` and `cleanup_block`, one step of a function at a time |
| `Bdftl` | BDFTL, extending `Dftl`: its maps and its own frames on `Dftl`'s stack |
| `FtlSteps` | the calls a log-block FTL makes (`get_free_block`, `erase_and_invalidate`, `issue`, ...), each an operator from a record of flash, block manager and tables to the next |
| `Bast` | BAST, on `FtlSteps` |
| `Fast` | FAST, on `FtlSteps` |
| `FlatFlash` | the abstract device every FTL module assumes: `NandFlash` with one variable and its three operations |
| `Device` | the device as it is built, units within units, with `Address` between linear numbers and paths; `Flat == INSTANCE FlatFlash` is the refinement |
| `Channel` | one channel of the bus as `Controller::issue` locks it |
| `FtlLemmas` | lemmas about `NandFlash`, `BlockLists`, `FtlSteps`, loops and folds that the proofs of several FTLs cite |
| `MNFtl_proofs`, `Channel_proofs`, `BlockManager_proofs`, `Device_proofs`, `Bast_proofs`, `Fast_proofs`, `Dftl_proofs` | the theorems, each module about the one it is named after, `Dftl_proofs` also about `Bdftl` |
| `MC*` | the TLC instances; `.cfg` files give the constants |

How they compose: `Device` implements `FlatFlash`, whose array and operations
(`NandFlash`) every FTL module uses; `BlockLists` is the one `Block_manager`,
driven by a free client in `BlockManager` and by each FTL in its own module;
`MNFtl` implements `LogicalDisk`. The definitions named `X_Y` with the comment
"Mutant" are variants of the definition `X` that follows; no run uses
them, they are the errors the properties were tried against. `TypeOK` of
`Bast`, `Fast`, `Bdftl` and some others is in no configuration: it declares
what the variables hold.

### Correspondence with the code

*A handler is an action.* The simulator is sequential, so one call of `read`,
`write`, `trim`, `get_free_block`, ... is one atomic action, including the
nested calls; the channel, `MNFtlCleanup`, `Dftl` and `Bdftl` excepted. A failed `assert` or an uncaught exception
ends the program: the variable `abort` records the site, and no action is
enabled after it (this is why the configurations switch deadlock checking off).
Asserts are active in every build: `ssd.h` includes `assert.h` before it
defines `NDEBUG`. Since nothing runs after an abort, the half-done effects of
the aborted handler are not modelled.

*Physical page numbers* are pairs `<<block, offset>>` for the linear number
`block * BLOCK_SIZE + offset`; `NoPpn` is -1. A block's physical address is its
number times `BLOCK_SIZE` and appears as the number.

*MNFTL's tables.* `PMD` and `PMT` are maps from logical blocks to vectors,
filled with -1 when a block is first written. They are functions here,
with -1 everywhere at first: the guard on an absent key and the guard on -1 have
the same effect. `has_current_block` is `current_block # NoBlock`. `BML` is
only ever appended to and is left out.

*Block lists.* `fresh` is `simpleCurrentFree / BLOCK_SIZE`. The decision
`ratio < 0.90` compares a `float` with a `double`: nine tenths as a float is
below 0.90, so the erase is due only strictly above; `EraseDue` says so in
integers. The counters are `unsigned` but each comparison casts them to `int`.

*The channel's table* is a set of intervals: `unlock` sorts it by `lock_time`
before each scan, and no two entries start together.

*DFTL's calls.* `stack` holds the functions under way, innermost first, each
with its local variables: `insert_events` its victim and its count,
`cleanup_block` its loop index and `invalidated_translation`, and so on. A frame
on the stack is a point in a function; the actions named `Start...` call, and
those that end with `Return` return. The host's next request waits for an empty
stack. This is the one module where a request is many steps, because its
functions re-enter one another while their callers hold victims, pages and
mappings read before.

*DFTL's data.* `ppn`, `cached` and `reverse_trans_map` are the fields of
`trans_map` and the array beside it. Times only decide which entry is evicted
(any cached one may be) and whether the eviction is charged a write.
`active_cost` is sorted by `pages_invalid`, and blocks with as many stand in the
order of their history: any of the costliest may come first. An entry of
`reverse_trans_map` that was never written is uninitialised memory: `OwnerOf`
lets it be any logical page. `trim` also writes `reverse_trans_map[-1]`, outside
the array; what that hits is not modelled. The buffer of the last read is left
out: `disk` is what a read would return.

*BDFTL* adds four kinds of frame to `Dftl`'s stack, for `get_page_block` and
for `write`, which both may start a collection while they hold a logical block
or page read before. `trim_map` starts with any content, as the array is never
initialised (`FTLs/bdftl_ftl.cpp:53`). A conversion looks at the page states
of the block whose physical number is the logical one (`:150`); `Entered` does
the same. `spoiled` marks the first of four steps after which a map entry
describes a page of something else: a trim in an optimal block that has no
block yet invalidates a page of a neighbour (`-1 + offset`, `:282`); a write goes
to the block in use after that was collected: it is free then, or of the block
map, or the one DFTL fills (`:240`; the last case takes more logical blocks than
the instance has: it was found when the invariant was looked for, and a script
of 12 pages shows it);
`cleanup_block` moves a page that the page map does not own, for whatever
`reverse_trans_map` holds there (`:385`); or a collection starts inside another
one. The properties are about what precedes such a step, and the instance stops
there. `unsigned char dppn` (`:128`) is exact for blocks of up to 256 pages,
which is assumed.

*BAST and FAST* handle a request in one action: a chain of operators of
`FtlSteps`, in the order of the calls, on the record `Now`; the first failed
assert or exception ends the chain and is recorded. "undefined" marks an index
outside an array, after which nothing is followed.

*BAST.* `log_map` is the `std::map`. An overwrite of a logged page sets the
replacement address to the old log page and then to the data page
(`FTLs/bast_ftl.cpp:185`), so the old log page stays VALID (`Replaced`). The
victim is any log block but the last one, or the only one (`Victims`: the loop
takes `random() % size - 1` steps, `:252`).

*FAST.* `log_pages` is the linked list, oldest first. Its search order decides
which copy of a page counts: `ReadPpn` searches like `read`, while a merge goes
through the log from its newest page back (`ScanEntry`, `MergeLogPage`) and then
fills the offsets left EMPTY from the data block (`DataSource`). Kept as the code has them: a page whose offset is not 0 can begin
the sequential log block (`FTLs/fast_ftl.cpp:525-530`), the scan of a merge
skips page 0 of a log block (`:380`), and `trim` erases a log block that stays in
the list, always as of type LOG, so that the counter of log blocks falls below
what is in use and, being unsigned, wraps.

*The hierarchy.* A unit is the path of indices that leads to it. `page_data` is
indexed by the linear number and the page states by path, as in the code, so
that whether they agree is a question (`ImplementsFlatFlash`). `BlockAt` numbers
the blocks by the `physical_address` the constructors give them, which is what
`Block_manager` hands out. `update_wear_stats` never updates the maximum it
compares with, and above the plane it asks each child about the block at the
coordinates of the erased one: `WearCurrent` states what the summaries are worth
all the same, and `FreeBlocksFollow` in which two steps `free_blocks` miscounts.

*Left out everywhere:* times (except on the channel), statistics, printing,
writes without a payload and multi-page events (the FTLs issue single pages).

`mn_ftl.cpp` is modelled rather than its other versions because it defines the
class that `ssd.h` declares, copies payloads in its cleanup, and is the most
complete. `FTLs/mn_ftl.cpp` defines a class `ssd.h` does not declare.

`MNFtlCleanup` needs a caller for `cleanup_block`: in this tree
`insert_events` calls it for DFTL and BDFTL only (`ssd_bm.cpp:203`). The module
takes the conditions and the epilogue of that call site (a wholly written block
with invalid pages that is not the one being written; erased again, checked,
and put on `free_list`), and lets any such block be the victim between any two
requests, which covers every order `active_cost` could produce. A cleanup that
starts inside another one is not covered there; `Dftl` covers it for DFTL.

## 3. What TLC checks

| run | instance | question |
|---|---|---|
| `mnftl` | 2 blocks x 2 pages, 2 entries per table, 2 logical blocks, 2 payloads | do the tables stay sound, and does MNFTL implement `LogicalDisk`, until the device is full? |
| `mnftl_cleanup` | 3 blocks x 2 pages, 2 erases, 2 payloads | does a cleanup keep the disk, erase only unmapped pages, and end? |
| `block_manager` | 3 blocks x 2 pages, 2 erases, log limit 1, 2 erased per call | are blocks ever lost, duplicated, handed out dirty, or refused with garbage left? |
| `channel` | delays 1, 1 and 2, arrivals up to 3, four transfers and what is under way | are transfers disjoint and as early as possible? |
| `dftl` | 4 blocks x 2 pages, 2 erases, 2 logical pages, cache of 1, 2 payloads | do collections between and within requests keep the mapping, the reverse map, the free list and the disk exact? |
| `dftl_nested` | 3 blocks x 2 pages, 1 erase, 2 logical pages, cache of 1 | when collections start inside collections, does every request still end, and does an eviction still find an entry? |
| `bdftl` | 4 blocks x 2 pages, 1 erase, 2 logical blocks, cache of 4 | until something foreign is touched, is every page in one map, every block with one user, and every page that no conversion lost intact? |
| `bdftl_convert_claim` | as above | expected violation: does a conversion keep the pages of its block? |
| `bast` | 4 blocks x 2 pages, 1 erase, 2 logical blocks, 1 log block, 2 payloads | do merges and switches leak no block, fail only by wear, leave stale VALID pages in log blocks only, and read back what was written? |
| `fast` | 8 blocks x 2 pages, 1 erase, 2 logical blocks, 2 log blocks | does the log fill in order, does no block leak, does only wear end it, and do pages written once survive? |
| `fast_stale_claim` | as above, 2 payloads | expected violation: does a read return what was last written? |
| `device` | 2 x 2 x 2 x 3 units of 2 pages, 1 erase | is the hierarchy a flat flash, and do the summaries of its levels follow the blocks? |

*Why the bounds are enough.* MNFTL without cleanup stops when every page is
programmed, so its life is as long as the device has pages: four pages let a
page be written, overwritten, trimmed and rewritten across a block boundary,
with two logical pages sharing a table and two not. `Q` divides the pages of a
block there; the partly used table of a `Q` that does not is left to the
theorems `SlotInRange`, `SlotInjective` and `Refinement`. With cleanup the three
blocks are the current one, a victim and a free one, and two erase cycles, each
cleanup using both when nothing else does, let a block be reused, refused an
erase at the first and at the second call, and worn out. For the block manager
three blocks fill both lists, and the 90% rule is decided by the last block, as
it is on a device with more. On the channel four transfers make a gap between
two entries with a third request looking for one; all interesting comparisons
(equal, one less, one more) occur within delays of 1 and 2.

For DFTL the erase threshold is scaled with the device: `GC_PERCENT` is 60, so
that a collection is due with one block to spare on 3 or 4 blocks, as 90% leaves
one on eleven; and 2 victims are taken instead of 5. With 4 blocks and two
live pages a collection never needs another one to make room for it; with 3 it
does, and nested collections, the same victim twice, and the failed asserts of
a worn-out block and of an EMPTY victim page are reached (all 14 steps fire).
The properties of `dftl` are about the first case only; in the second they are
false, as the observations below explain. Where between the two a real device lies
depends on how full its host keeps it.

For BDFTL, logical blocks and erase blocks have two pages, so that a block is
in order, out of order, converted half full and trimmed whole within the six
pages a path may program; every page has its own payload, so that a foreign page
is recognised; trims are of the pages of one logical block, and `trim_map`
starts all or not set for them. BAST has as many blocks as its property asks
for: two data blocks, a log block and the target of a merge; three erases let
a block that was merged away return and be merged again. FAST has two more
(the sequential log block and another log block) and two to spare, as it erases late;
eight blocks are handed out fresh before the first one returns.
After a trim only the log is of interest, and six programmed pages reach a freed
log block that is still in the list. In the device every level has a sibling to
be confused with, and a plane has three blocks so that the best of the others is
a choice; the pages touched are those of one block and the first one of its
siblings at each level. `FlatFlash` is compared on all 48 pages.

*Symmetry and view.* `MCMNFtl` exchanges payloads, which no action inspects.
`CleanupView` hides the content of pages that are not VALID and the host
buffer: no action of `MNFtlCleanup` reads them and no property of its run
names them. `DftlView` hides the content and the reverse map entries of such
pages, which is sound while collections do not nest, and only `MCDftl.cfg` uses
it. `BdftlView` hides those of the pages that belong to no logical page, and
the cache, which is never full in that instance; `View` of `MCBast` the content
of pages that are not VALID, which no action of `Bast` copies and no property
names. `MCBast` and `MCFast_stale.cfg` exchange payloads.

*Fairness.* `CleanupEnds` needs `WF(CleanupStep)` and `RequestsEnd` needs
`WF(Step)`, because the steps are those of one call, which the single thread
does not leave. Requests carry no fairness: a host may stop.

*The bounds in guards* are `MAX_TIME`, `MAX_BEFORE` and `MAX_TRANSFERS` in
`Channel` (the clock, the time the FTL charges before it issues, and the
history), and `MAX_UNDERCOUNT` in `Dftl`: each trim of a cached entry takes the
counter `cmt` one further below what is cached, without end. The other modules
are finite without bounds; the constraints of `MCBast`, `MCFast`, `MCDevice`
and `MCBdftl` (`MaxErases`, `MaxPagesAfterTrim`, `MaxOperations`,
`MaxProgrammed`, `OwnPayload`, `TrimsHere`) make them small.

### Findings

- `fast_stale_claim`: `read` takes the first copy of a page in the log, oldest
  block first (`FTLs/fast_ftl.cpp:98-119`), while `write` appends the new one and
  leaves the old. A page written three times is read back with its second
  content. `readme.md:145` promises a correctness test of "data integrity";
  `run_correctness.cpp` writes each page four times, but always with the same
  data, and so does not see it. `ColdDataSurvives` says what does hold.
- `bdftl_convert_claim`: "3. Write mappings to trans_map"
  (`FTLs/bdftl_ftl.cpp:141`) describes the conversion of a block, but the loop
  enters only pages that have a mapping already (`:161`), and
  `OptimalNotInPageMap` shows that none has. The pages written before are lost.
  `UnlostPagesIntact` says what does hold.

### Observations

Behaviour met while modelling, which the models follow:

- MNFTL relies on the `Block_manager` to collect garbage (`mn_ftl.cpp:122`), which
  does not do so for this FTL: the write after the last page was programmed
  fails the assert at `ssd_bm.cpp:96`, however many pages are INVALID
  (`AbortsOnlyWhenAllProgrammed`).
- The second lock of a READ purges the entry of its first; a request with an
  earlier start time can be booked over it. `InOrderLocksSafe` says when
  not: as long as no lock starts before an earlier one did.
- DFTL's `cleanup_block` asserts that its victim has no EMPTY page
  (`FTLs/dftl_ftl.cpp:139`). A collection that needs a block starts another one
  (`ssd_bm.cpp:90`), which finds the same victim, erases it and frees it; back in
  the outer loop the assert fails, or the outer one is given the block it is
  cleaning as the block to copy to. An allocation that collects
  (`FTLs/dftl_parent.cpp:133`) makes its own block current and leaves the one the
  collection had begun half written, which is never collected: `MappingExact` and
  `BlocksFreeOrFull` are false once collections nest.
- DFTL counts cached entries with `cmt`, which `trim` lowers while the entry stays
  cached (`FTLs/dftl_ftl.cpp:109-121`) and `cleanup_block` does not keep within
  the limit. `EvictionFindsEntry` says that the difference only goes one way.
- FAST: any page can begin the sequential log block, where it lies at page 0
  (`FTLs/fast_ftl.cpp:525-530`), and the scan of a merge leaves out page 0 of a
  log block (`:380`), so that the copy there is dropped. A trim erases and frees a log
  block the list still names, and a data block as one of type LOG; hence most
  properties of `fast` end at the first trim. `LogFillsInOrder` does not.
- Device: `free_blocks` counts an erase of a FREE block, and does not count the
  invalidation of a page of one (`FreeBlocksFollow`); `least_worn` is the last
  block with more erases left than the first, not the best; the assert of
  `Ssd::event_arrive` (`ssd_ssd.cpp:149-152`) lets the first address after the
  device pass.

## 4. What is proved

TLAPS proves the following for all constants that satisfy the named
assumptions:
- `GeometryAssumption`, `PayloadAssumption`, `BlockListsAssumption`,
  `IndexAssumption`, `DeviceAssumption`, `DelayAssumption`, `DftlAssumption`
  and `BoundAssumption` say that sizes, limits and delays are numbers;
- `ReclaimAssumption` (block manager) and `FastAssumption` ask for a threshold
  below 100% (`ssd_bm.cpp:179` has 90) and at least one block erased per call
  (`:182` has 5);
- `BastAssumption` and `FastAssumption` give `max_log_blocks` the value the
  constructor gives it for that FTL: all blocks for BAST (`ssd_bm.cpp:30`), the
  limit of FAST for FAST (`:33`).

**MNFTL's index** (`MNFtl_proofs`). A logical page falls inside the
directory and the table (`SlotInRange`), and two never on one slot
(`SlotInjective`), also when `Q` does not divide `P`. Both rest on one lemma on
division.

**MNFTL** (`MNFtl_proofs`). The invariants of the run are not inductive
together. `IInv` adds:
- `NoBlockReturned`: both lists stay empty, so `get_page_block` never erases,
  and the current block is one that was handed out;
- `AnchorsOwnTable`: if an anchor is a mapped page, then of its own table. A
  write invalidates the page mapped before; if that page anchors a table, it
  is the written one, whose anchor the same write moves. Without this
  `AnchorsValid` is not preserved;
- `MappedPagesHavePayload` and `BufferProgrammed`, for the refinement.

The central lemma is `TargetFacts`: the page a write goes to is EMPTY, in range
and next in its block, or the device is full. From `IInv` follow
`TypeCorrect`, `SlotsDistinct`, `MappingSound`, `AnchorsStayValid`, `FilledInOrder`,
`AbortsOnlyWhenFull`, the action property `OrphansOnlyFromTrim`, and
`Refinement`: MNFTL implements `LogicalDisk`, each handler the operation its
request asks for, one lemma per operation.

**MNFTL under cleanups** (`MNFtl_proofs`, last part). With `MNFtlCleanup` blocks
come back, so `IInv` is false: pages are no longer filled block after block, and
an anchor may name a page that was erased. `CleanupInv` takes its place:
- `FilledFromStart` and `FlashSound`: the pages of a block that are not EMPTY are
  its first `pages_valid`, and VALID pages hold what a host wrote;
- `FreeBlocksErased`, `CurrentBlockOwned` and `ListsSound`: what can be handed out
  is empty and once in its list, and the block the FTL fills is the one
  `Block_manager` calls `current_writing_block`, which is what keeps the victim
  from being that block. Without them a copy could go into the victim, or a block
  come back while pages are still mapped to it;
- `VictimCleaned`: the victim is full and not the current block, and its pages
  before the loop's position are not VALID. With the mapped pages VALID, no slot
  names the victim when it is erased.

A write and a copy are the same step on the array, so they share `AppendEffect`,
`AppendKeepsBlocks` and `MovedSlot`; `FinishEffect` is about the two erases,
whichever of them the wear allows. TLC checked `CleanupInv` on the instance of
`mnftl_cleanup` (459741 states) before it was proved. Theorems:
`CleanupInvariance`, `CleanupMappingSound`, `CleanupAsserts` (a block handed
out again never makes the asserts of the page or of the plane fail), and the action
properties of the run, `ErasesSafe` and `DiskSurvivesCleanups`. They hold for every
order in which victims are picked, and leave out only a cleanup that starts inside
another.

**The channel** (`Channel_proofs`). `SchedTimeCorrect` is about the scan of
`lock` over any table: the time found is free, not early, and no earlier one is
free. It needs a first and a last entry in every part of the table; instead of
an induction over its size, `Ordered` says so and is kept by `lock` like any
invariant. `IInv` adds `ForgottenEnded` (what was purged ended before the
horizon), from which `InOrderLocksSafe` follows; `TableSound` and
`LockIsEarliest` need the rest.

**The block manager** (`BlockManager_proofs`). Every invariant of the run is a
theorem, for every device size, limit and client that gives back only what it
holds. `IInv` is their conjunction with the type invariant and
`~out_of_blocks`, which each call leaves as it found it. The lemmas say what the
calls do to lists without repetition (`JoinedList`, `CutList`,
`AppendedList`, `BeheadedList`), to the flash, and to the number of blocks held.
`GivesUpLast` needs a counting argument (`NothingLeft`): when nothing is free
after `insert_events` had its chance, a block in `invalid_list` would mean
that more than `GC_PERCENT` of the blocks count as used, so it would have
been erased. That needs `ReclaimAssumption`: a threshold below 100%, and at least
one block erased per call. From `IInv` also follows the action property
`HeldPagesKept`.

**The hierarchy** (`Device_proofs`). `Refinement` says that `Device` implements
`FlatFlash` for every geometry, so that what is shown of an FTL on `NandFlash`
holds on the device as it is built. It rests on `AddressRoundTrip`: number and
fields of an address are inverse of each other. A number in mixed bases has one
tuple of digits (`QuotientUnique`, `AddressFields`, `BlockNumberInjective`), and
each division of `set_linear_address` takes one digit off. Then each operation has
a lemma on what it changes in the device, one on what it changes in the flat flash,
and one that the two agree place by place (`MapWrite`, `MapInvalidate`,
`MapErase`). The invariant is the shape and the types of what is compared
(`DevPart`): of the summaries nothing is needed.

The summaries have an invariant of their own, `StateSound` (`StateInvariance`):
a block's state against its pages and against `pages_invalid`, which is
the number of its INVALID pages and not just a counter; and, of the wear, what
`WearKept` says, level by level. A FREE block has no VALID page counted
(`pages_valid` counts programmed pages), without which `StateMatchesPages` is not
preserved by the invalidation of a page that was never written. `FreeBlocksFollow`
is an action property; it and the type of `free_blocks` need the drift of a plane,
the difference between its counter and its FREE blocks, to be bounded below
(`DriftOf`): the two miscounting steps err on the same side. From this follow
`TypeCorrect`, `StatesMatch`, `WearStatisticsCurrent` and `CountFollowsStates`.

**What the log-block FTLs share** (`FtlLemmas`). A handler of BAST or FAST is a
chain of operators on a record, so the proofs have lemmas per operator and one
per handler that composes them. A merge is a loop, a recursive
function of the number of pages copied, and an induction over it is out of reach
as a rule with an operator parameter. It is not as an argument by least
counterexample: the set of the steps at which a claim fails is a set of naturals,
which has a least element if it has any (`LeastNumber`, from the library's
well-foundedness of `<`), so a claim that holds at 0 and is handed from step to
step fails nowhere. That a recursive function exists at all and satisfies its
equation is `LoopExists`; `Reaches` is the argument for a claim given as the set
of the steps at which it holds.

**BAST** (`Bast_proofs`). All invariants of the run are theorems. `IInv` says
that as long as the program runs the record of tables is `Sound` and each
logical page holds what the history variable `stored` says:
- `OwnersDistinct` and `AllOwned`: the blocks are shared out among the
  logical blocks, the free list and the fresh end, none twice, none to nobody;
- `Counted`: the counters of `Block_manager` are the numbers of data and of log
  blocks. `EndsByWear` counts with them: when no block is left every
  block is somebody's, which `BastAssumption` and the limit do not allow for a
  device with a spare block;
- `LogSound`: a log block is filled in order, the pages it logs are VALID and
  distinct, and the data page of a logged offset is not VALID beside it. Without
  the last part a merge may copy an old page, and neither
  `StaleOnlyInLog` nor `ReadsReturnLastWrite` is preserved.

`StaleOnlyInLog` follows: outside the log blocks only data blocks have VALID
pages, and such a page is its logical page's current copy, as no log entry stands
beside it (`ValidIsCurrent`); two current copies differ in block or offset, as
blocks have one owner and log entries are distinct (`CurrentDistinct`).

Each operator keeps `Sound` and `Content`, what a logical page holds, except
`Store` and a trim. Theorems: `Invariance`, `TypeCorrect`, `OneOwnerPerBlock`,
`EndsByWear`, `StaleCopies`, `ReadsLastWrite`.

**FAST** (`Fast_proofs`). All invariants of the run are theorems. There are two
inductive invariants, as a trim breaks one and not the other:
- `TypeInv`, for ever: the types, and `RingOrdered`: the log blocks fill in list
  order and `log_page_next` counts their pages. It holds through trims because
  it reads `used_pages` of the list's entries and never the flash. From it follow
  `TypeCorrect` and `LogInOrder`;
- `LiveInv`, until the first trim: `Core` (who owns each block, including the
  sequential log block and the one a merge is about to give back; the counters;
  which pages are EMPTY), `SeqSound` (the sequential log block is programmed up
  to its offset) and `ColdInv` (a page written once has no copy in the log, and
  its data block shows it). `SequentialBlocks` is a parameter of `Core`,
  because inside a handler the block is out of its variable while its pages are
  still to be merged.

Operators keep `Core`; `Wear` says which blocks a failing erase can be about
(those waiting for an erase were not erased since the handler began), from which
`OnlyWearEndsIt` follows; `LogPart` and `DataPart` carry the two loops of a merge,
log pages first; `KeepsCold` says what each leaves of pages that
were written once. `FastAssumption` is needed where a log block is
requested: the limit of the manager must not be below that of FAST. TLC checked
`IInv` on the instance of `fast` (29910 states) before it was proved. Theorems:
`Invariance`, `OnlyWearEndsProgram`, `ColdDataKept`, `OwnedOnce`.

**DFTL** (`Dftl_proofs`). What no nesting breaks is proved without any
condition. `TypeInv` is the type invariant with `StackSound`: who may stand on whom
on the stack, the host's write at the bottom, and what each frame's locals
promise (an `insert_events` that erases counts the block, a `cleanup_block` that
copies is inside its block). Without it a return could lead anywhere, and
neither the types of the frames nor `OldPpn` being a page are preserved.
`SoundReturn`, `SoundBecome`, `SoundCall` and `SoundPush` say once what each kind
of step keeps; the stack's height has no bound. Theorems: `TypeInvariance`,
`TypeCorrect`, and `EvictionsFindEntries`, which is inductive beside the types:
each step adds as much to `cmt` as to the cache, or less.

The rest is false once a `cleanup_block` starts a collection: two collections
may then have the same victim (`MappingExact` fails so on the instance of
`dftl_nested`). It is proved of the behaviours in which none does: `Unnested`
says that at most one `insert_events` is on the stack, and the theorems have
the form `Spec /\ []Unnested => ...`. Every behaviour of the `dftl` instance is one
of those; no assumption on the constants can promise it, as it depends on how
full the host keeps the device. The stack has then at most five frames
(`Shape`), and what the properties need of them is read off by four operators:
the victim, the pages moved out of it, how many of its pages were looked at, and
whether one is being copied. `LiveInv` says of these what `MappingExact` cannot
be inductive without:

- `FillInv`, `CurInv`: blocks are programmed in order, `pages_valid` counts the
  pages that are not EMPTY, and the page handed out is the next one. So a
  programmed page was EMPTY, and no mapping named it.
- `ListInv`: what can be handed out is erased, once in its list, and not the
  block being written.
- `VictimInv`: the victim is full, neither free nor being written, its pages
  before `i` are not VALID, and no moved page is in it. So the erase
  takes no VALID page with it, and the copy does not go to its own block.
- `PlacesInv`, `ReverseInv`: each logical page has one VALID page and each VALID
  page its logical page, counting moved pages where they are now; the reverse map
  is right for those that were not moved, which are the only ones it is asked for.
- `WaitInv`: until `FinishCleanup`, the old page of a moved one is INVALID and
  still holds the same content. So both copying and entering the moved pages
  leave the disk as it was.

The operators on the array get a lemma each (`FillPlaced`, `PlacesCopied`, ...),
free of the state; each action then has one, which fits them to its stack. TLC
also checked `LiveInv` on the instance of `dftl`, without the view and with one
payload (23 million states). Theorems: `LiveInvariance`, `MappingsExact`,
`RequestsDoAsAsked`.

**BDFTL** (at the end of `Dftl_proofs`). All invariants of the run `bdftl` are
theorems of `BSpec`, for every geometry, number of logical blocks, cache and
collection limit; logical blocks are whole erase blocks (`WholeLogicalBlocks`).
`BInv` says that until the first spoiling step `SoundInv` holds, with no
condition beside it: `Unnested` is not needed here, because a `cleanup_block`
inside another one is itself a spoiling step. Until then the stack has at most
six frames (`BStackSound`). `SoundInv` ties the two maps together:

- `BListInv`, `BCurInv`, `CountInv`: what can be handed out is EMPTY, and behind
  the page Dftl handed out last its block is EMPTY too, and not the block map's.
  The counter of programmed pages counts at most the pages that are not EMPTY:
  unlike Dftl's it is not exact, as a trim in the block map also marks a page
  INVALID that was never programmed.
- `BMapInv`, `NextInv`: a block of the block map is in use, is in it once, and
  has a page that is not INVALID. A collection that picked it would therefore
  have a page to copy that the page map does not own, a spoiling step, before it
  could erase it.
- `BPlacesInv`, `ReverseInv`, `BVictimInv`: as for `Dftl`, and no page of the
  page map lies in a block of the block map.
- `OneMapInv`: a logical block that is optimal has nothing in the page map. So a
  conversion enters nothing (`BConverts`), and a block of which all pages are
  trimmed can become optimal again.
- `ContentInv`: a page that no conversion lost holds what the host wrote, where
  `read` looks for it, moved pages included.
- `RequestInv`: what the write at the bottom of the stack found when it began
  still holds when the collections it waited for return.

`Up` counts the stack's frames from the bottom, so that a call leaves the frames
under it where they are. Each action has its lemma (`BWriteByPageKeeps`,
`BFinishCopyKeeps`, ...) from the joint invariant to itself; for the requests,
which begin and end with an empty stack, `BRequested` and `BRested` leave only
`BlocksRest` and `PagesRest` to show. The lemmas of the four spoiling actions
have the guard they need, `~spoiled'` or the disjunct it means. TLC checked `SoundInv`
on the instance of `bdftl` before it was proved. Theorems: `BInvariance`,
`OneMap`, `MapExclusive`, `UnlostIntact`.

**Only model-checked:** `CleanupEnds` and `RequestsEnd` (liveness, out of the
prover's reach, as ENABLED is), and
`BlocksFreeOrFull` of `Dftl`. That one does not follow from `Unnested`: `get_page_block`
takes a free block whatever block a collection it called has begun to fill,
and whether one was left half full depends on how many victims it took.

## 5. Plan

What is left, most important first:

1. `BlocksFreeOrFull` of `Dftl`, with the number of victims it needs.
2. `PageFtl`, for its counter, and `RaidSsd`.

## 6. Not modelled, and why

- Page FTL (`FTLs/page_ftl.cpp`) marks every read and write as a no-op, so that no page
  changes state: what is left is a counter, listed as a hazard.
- `RaidSsd` splits addresses over several devices and keeps no state.
- Versions of MNFTL: `mn_ftl_v2.cpp` defines the same class again, `mn_ftl_v3.cpp`
  uses members that `ssd.h` does not declare, and `FTLs/mn_ftl.cpp` defines a
  class that `ssd.h` does not declare, although `ssd_controller.cpp:63` constructs
  one: no build contains them as they are.
- MERGE (`Plane::_merge`): no FTL issues it; each merges with reads and writes.
- RAM and `Stats` add constants and count; `Config` supplies the constants;
  `ssd_gc.cpp`, `ssd_wl.cpp`, `ssd_ftl.cpp` and `ssd_ftlparent.cpp` are stubs or
  forward; the `run_*` programs, `verification.cpp` and `SSDSim.cpp` feed
  requests, which the modules take in any order.

## Running

    tlc -workers 2 -config MCMNFtl.cfg MCMNFtl
    tlapm MNFtl_proofs.tla
