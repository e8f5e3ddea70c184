--------------------------------- MODULE Fast ---------------------------------
(***************************************************************************)
(* FAST (FTLs/fast_ftl.cpp): a block-mapped FTL whose log blocks are       *)
(* shared by all logical blocks.  Overwrites go to a list of random-write  *)
(* log blocks, reused oldest first, or, when they begin a logical block,   *)
(* to the one sequential-write (SW) log block.  No overwrite invalidates   *)
(* the page it supersedes: which copy counts is decided by the search      *)
(* order of read and of the merges.                                        *)
(***************************************************************************)
EXTENDS FtlSteps, FiniteSets

CONSTANTS
  NumLbas,                \* logical blocks the host addresses
  FAST_LOG_BLOCK_LIMIT    \* random-write log blocks

\* With one log block the list is empty after the first merge, and extending
\* it follows a null pointer.  Linear addresses wrap at 2^32, a multiple of
\* the device's size.  The Block_manager takes the limit on log blocks over
\* (ssd_bm.cpp:33); erasing starts below 100% (ssd_bm.cpp:179) and erases at
\* least a block (:182).
ASSUME FastAssumption ==
  /\ NumLbas \in Nat \ {0}
  /\ FAST_LOG_BLOCK_LIMIT \in Nat \ {0, 1}
  /\ MAX_LOG_BLOCKS = FAST_LOG_BLOCK_LIMIT
  /\ GC_PERCENT < 100
  /\ NUM_TO_ERASE # 0

VARIABLES
  flash,       \* the array
  bm,          \* the Block_manager
  data_list,   \* the data block of each logical block, or NoBlock
  log_pages,   \* the random-write log blocks, oldest first
  log_page_next,   \* pages of them in use
  sequential_address,   \* the SW log block, or NoBlock before the first one
  sequential_offset,    \* pages of it in use
  sequential_logicalblock_address,   \* the logical block it serves, or NoLba
  abort,       \* what ended the program, or "none"
  stored,      \* history: what the host stored and did not trim, per page
  rewritten,   \* history: pages the host wrote more than once
  trimmed      \* history: the host has trimmed a page

tables == <<data_list, log_pages, log_page_next, sequential_address,
            sequential_offset, sequential_logicalblock_address>>
vars == <<flash, bm, tables, abort, stored, rewritten, trimmed>>

Lbas == 0 .. NumLbas - 1
Lpns == 0 .. NumLbas * BLOCK_SIZE - 1
NoLba == -1
NoLpn == -1

lba(lpn) == lpn \div BLOCK_SIZE
off(lpn) == lpn % BLOCK_SIZE

\* LogPageBlock: aPages[i] is the logical page in page i, of the first
\* numPages pages.
LogPageBlock ==
  [address : Blocks, aPages : [Offsets -> Lpns \cup {NoLpn}], numPages : 0 .. BLOCK_SIZE]
NewLogBlock(b) == [address |-> b, aPages |-> [i \in Offsets |-> NoLpn], numPages |-> 0]

TypeOK ==
  /\ flash \in FlashType
  /\ bm \in BlockManagerType
  /\ data_list \in [Lbas -> Blocks \cup {NoBlock}]
  /\ log_pages \in Seq(LogPageBlock)
  /\ log_page_next \in 0 .. FAST_LOG_BLOCK_LIMIT * BLOCK_SIZE
  /\ sequential_address \in Blocks \cup {NoBlock}
  /\ sequential_offset \in 0 .. BLOCK_SIZE
  /\ sequential_logicalblock_address \in Lbas \cup {NoLba}
  /\ abort \in Aborts
  /\ stored \in [Lpns -> Contents]
  /\ rewritten \subseteq Lpns
  /\ trimmed \in BOOLEAN

Init ==
  /\ flash = FlashInit
  /\ bm = BlockManagerInit
  /\ data_list = [l \in Lbas |-> NoBlock]
  /\ log_pages = << >>
  /\ log_page_next = 0
  /\ sequential_address = NoBlock
  /\ sequential_offset = 0
  /\ sequential_logicalblock_address = NoLba
  /\ abort = "none"
  /\ stored = [lpn \in Lpns |-> NoData]
  /\ rewritten = {}
  /\ trimmed = FALSE

Running == abort = "none"

\* The state as a record: seq for the three sequential_ variables; target is
\* where write_to_log_block tells the event to go.
Now ==
  [flash |-> flash, bm |-> bm, data_list |-> data_list, ring |-> log_pages,
   log_page_next |-> log_page_next,
   seq |-> [address |-> sequential_address, offset |-> sequential_offset,
            lba |-> sequential_logicalblock_address],
   taken |-> NoBlock, target |-> NoPpn, abort |-> abort]

\* The handler ends in s; when it ends in an abort only that is recorded.
Becomes(s) ==
  /\ abort' = s.abort
  /\ IF Alive(s) THEN /\ flash' = s.flash
                     /\ bm' = s.bm
                     /\ data_list' = s.data_list
                     /\ log_pages' = s.ring
                     /\ log_page_next' = s.log_page_next
                     /\ sequential_address' = s.seq.address
                     /\ sequential_offset' = s.seq.offset
                     /\ sequential_logicalblock_address' = s.seq.lba
                ELSE UNCHANGED <<flash, bm, tables>>

\* A new log block at the end of the list.
TakeLogBlock(s) ==
  LET t == TakeBlock(s, "LOG")
  IN IF Alive(t) THEN [t EXCEPT !.ring = Append(@, NewLogBlock(t.taken))] ELSE t

\* initialize_log_pages: the first request takes the log blocks.
Initialized(s) ==
  LET taken[n \in 0 .. FAST_LOG_BLOCK_LIMIT] ==
        IF n = 0 THEN s ELSE TakeLogBlock(taken[n - 1])
  IN IF s.ring # << >> THEN s ELSE taken[FAST_LOG_BLOCK_LIMIT]

(***************************************************************************)
(* Addresses.  A mapping of -1 is not checked everywhere: -1 + i is then   *)
(* page i - 1 of the device, page -1 its last one.                         *)
(***************************************************************************)
LastBlock == NUMBER_OF_ADDRESSABLE_BLOCKS - 1
HasData(s, l) == s.data_list[l] # NoBlock
DataBlockAt(s, l) == IF HasData(s, l) THEN s.data_list[l] ELSE LastBlock
DataPageAt(s, l, i) ==
  IF HasData(s, l) THEN <<s.data_list[l], i>>
  ELSE IF i = 0 THEN <<LastBlock, BLOCK_SIZE - 1>>
  ELSE <<0, i - 1>>

InSequential(s, l, i) == s.seq.lba = l /\ s.seq.offset > i
SequentialPage(s, i) == <<s.seq.address, i>>

\* Log pages <<n, i>> that are used and hold lpn, in block n of the list.
LogEntries(s, lpn) ==
  {e \in (1 .. Len(s.ring)) \X Offsets :
     e[2] < s.ring[e[1]].numPages /\ s.ring[e[1]].aPages[e[2]] = lpn}
Older(e, g) == e[1] < g[1] \/ (e[1] = g[1] /\ e[2] < g[2])
Oldest(E) == CHOOSE e \in E : \A g \in E \ {e} : Older(e, g)
Newest(E) == CHOOSE e \in E : \A g \in E \ {e} : Older(g, e)
LogPage(s, e) == <<s.ring[e[1]].address, e[2]>>
ClearedPages(s, n, E) ==
  [i \in Offsets |-> IF <<n, i>> \in E THEN NoLpn ELSE s.ring[n].aPages[i]]
ClearEntries(s, E) ==
  [s EXCEPT !.ring = [n \in DOMAIN s.ring |->
                        [s.ring[n] EXCEPT !.aPages = ClearedPages(s, n, E)]]]

(***************************************************************************)
(* Merges.                                                                 *)
(***************************************************************************)
\* get_num_free_blocks() < 5: erase before going on.
MakeRoom(s) ==
  IF Alive(s) /\ get_num_free_blocks(s.bm) < 5 THEN EraseInvalidBlocks(s) ELSE s

\* One turn of the loops of the merges: page p is copied to offset i of block b.
MergePage(s, p, b, i) == IF p = NoPpn THEN s ELSE CopyTo(s, p, <<b, i>>, NoPpn)

Valid(s, p) == s.flash.page[p] = "VALID"

\* merge_sequential: the SW log block and its data block become a new data
\* block; the VALID page of the SW block is preferred.
SequentialSource(s, l, i) ==
  IF Valid(s, SequentialPage(s, i)) THEN SequentialPage(s, i)
  ELSE IF HasData(s, l) /\ Valid(s, DataPageAt(s, l, i)) THEN DataPageAt(s, l, i)
  ELSE NoPpn

MergedSequential(s, l, b) ==
  LET copied[n \in 0 .. BLOCK_SIZE] ==
        IF n = 0 THEN s
        ELSE MergePage(copied[n - 1], SequentialSource(copied[n - 1], l, n - 1), b, n - 1)
  IN copied[BLOCK_SIZE]

merge_sequential(s) ==
  LET l    == s.seq.lba
      t    == MakeRoom(TakeBlock(s, "DATA"))
      noSW == GiveBack(MergedSequential(t, l, t.taken), s.seq.address, "DATA")
      noData == IF HasData(s, l) THEN GiveBack(noSW, s.data_list[l], "DATA") ELSE noSW
  IN IF l = NoLba THEN s
     ELSE IF ~Alive(t) THEN t
     ELSE [noData EXCEPT !.data_list = [@ EXCEPT ![l] = t.taken]]

\* switch_sequential: the SW log block becomes the data block.  Without a
\* logical block it indexes data_list[-1].
switch_sequential(s) ==
  LET l == s.seq.lba
      t == IF HasData(s, l) THEN GiveBack(s, s.data_list[l], "DATA") ELSE s
  IN IF l = NoLba THEN Fails(s, "undefined")
     ELSE [t EXCEPT !.data_list = [@ EXCEPT ![l] = s.seq.address]]

\* The entries random_merge looks at: its scan stops before page 0.
MergeEntries(s, lpn) == {e \in LogEntries(s, lpn) : e[2] > 0}

\* The n-th entry of the scan: the last log block first, its last page first.
ScanEntry(s, n) ==
  <<Len(s.ring) - (n \div BLOCK_SIZE), (BLOCK_SIZE - 1) - (n % BLOCK_SIZE)>>

\* Entry e is copied to block b if it is one of logical block l and its page of
\* b is EMPTY: of several entries of a page, only the first the scan meets.
MergeLogPage(s, l, b, e) ==
  LET lpn == s.ring[e[1]].aPages[e[2]]
  IN IF /\ lpn # NoLpn
        /\ lba(lpn) = l
        /\ e \in MergeEntries(s, lpn)
        /\ s.flash.page[<<b, off(lpn)>>] = "EMPTY"
       THEN MergePage(s, LogPage(s, e), b, off(lpn)) ELSE s

\* First the log pages of logical block l are copied to block b, ...
MergedLog(s, l, b) ==
  LET entries == Len(s.ring) * BLOCK_SIZE
      copied[n \in 0 .. entries] ==
        IF n = 0 THEN s ELSE MergeLogPage(copied[n - 1], l, b, ScanEntry(s, n - 1))
  IN copied[entries]

\* Mutant: the data block is not merged in.
DataSource_None(s, l, b, i) == NoPpn

\* The data page for offset i: nothing when the page of block b is written.
DataSource(s, l, b, i) ==
  LET data == DataPageAt(s, l, i)
  IN IF s.flash.page[<<b, i>>] = "EMPTY" /\ Valid(s, data) THEN data ELSE NoPpn

\* ... then the VALID data pages of the offsets no log page was copied to.
MergedLba(s, l, b) ==
  LET copied[n \in 0 .. BLOCK_SIZE] ==
        IF n = 0 THEN MergedLog(s, l, b)
        ELSE MergePage(copied[n - 1], DataSource(copied[n - 1], l, b, n - 1), b, n - 1)
  IN copied[BLOCK_SIZE]

\* Of the entries of a copied page all but the newest are cleared.
Superseded(s, l, b) ==
  {e \in (1 .. Len(s.ring)) \X Offsets :
     \E i \in Offsets : LET entries == MergeEntries(s, l * BLOCK_SIZE + i) IN
       /\ e \in entries
       /\ e # Newest(entries)
       /\ s.flash.page[<<b, i>>] = "EMPTY"}

\* One round of random_merge: logical block l gets a new data block.
MergeLba(s, l) ==
  LET t == TakeBlock(MakeRoom(s), "DATA")
      merged == GiveBack(ClearEntries(MergedLba(t, l, t.taken), Superseded(t, l, t.taken)),
                         DataBlockAt(t, l), "DATA")
  IN IF ~Alive(t) THEN t
     ELSE [merged EXCEPT !.data_list = [@ EXCEPT ![l] = t.taken]]

\* random_merge of log block v: every logical block with a page in v, in
\* ascending order.
random_merge(s, v) ==
  LET lbas == {lba(v.aPages[i]) : i \in {j \in Offsets : j < v.numPages /\ v.aPages[j] # NoLpn}}
      merged[l \in 0 .. NumLbas] ==
        IF l = 0 THEN s
        ELSE IF l - 1 \in lbas THEN MergeLba(merged[l - 1], l - 1)
        ELSE merged[l - 1]
  IN merged[NumLbas]

(***************************************************************************)
(* write_to_log_block; the page it chooses is target.                      *)
(***************************************************************************)
\* A new SW log block, whose page 0 takes the page being written.
StartSequential(s, l) ==
  LET t == TakeBlock(s, "DATA")
  IN IF ~Alive(t) THEN t
     ELSE [t EXCEPT !.seq    = [address |-> t.taken, offset |-> 1, lba |-> l],
                    !.target = <<t.taken, 0>>]

\* The next page of the SW log block.
\* Mutant: the page is not counted.
AppendSequential_NoCount(s) ==
  IF HasFreePage(s.flash, s.seq.address)
    THEN [s EXCEPT !.target = FreePage(s.flash, s.seq.address)]
    ELSE Fails(s, "no_free_page")

AppendSequential(s) ==
  IF HasFreePage(s.flash, s.seq.address)
    THEN [s EXCEPT !.seq    = [s.seq EXCEPT !.offset = s.seq.offset + 1],
                   !.target = FreePage(s.flash, s.seq.address)]
    ELSE Fails(s, "no_free_page")

\* Mutant: the merged log block is not given back.
RecycleOldest_Leaks(s) ==
  LET v == Head(s.ring)
      t == TakeLogBlock([random_merge(s, v) EXCEPT !.ring = Tail(@)])
  IN [t EXCEPT !.log_page_next = @ - BLOCK_SIZE]

\* The oldest log block is merged and given back; a new one goes to the end.
RecycleOldest(s) ==
  LET v == Head(s.ring)
      t == TakeLogBlock(GiveBack([random_merge(s, v) EXCEPT !.ring = Tail(@)],
                                 v.address, "LOG"))
  IN [t EXCEPT !.log_page_next = @ - BLOCK_SIZE]

\* The first log block that is not full takes the page.
AppendRandom(s, lpn) ==
  LET n == CHOOSE k \in DOMAIN s.ring :
             /\ s.ring[k].numPages # BLOCK_SIZE
             /\ \A j \in 1 .. k - 1 : s.ring[j].numPages = BLOCK_SIZE
      i == s.log_page_next % BLOCK_SIZE
      b == s.ring[n]
  IN IF ~Alive(s) THEN s
     ELSE [s EXCEPT
            !.ring = [@ EXCEPT ![n] = [b EXCEPT !.aPages   = [b.aPages EXCEPT ![i] = lpn],
                                                !.numPages = b.numPages + 1]],
            !.target        = <<b.address, i>>,
            !.log_page_next = @ + 1]

LogFull(s) == s.log_page_next = FAST_LOG_BLOCK_LIMIT * BLOCK_SIZE

write_to_log_block(s, lpn) ==
  IF off(lpn) = 0
    THEN StartSequential(IF s.seq.offset = BLOCK_SIZE THEN switch_sequential(s)
                                                      ELSE merge_sequential(s),
                         lba(lpn))
  ELSE IF s.seq.lba = lba(lpn)
    THEN IF off(lpn) = s.seq.offset
           THEN AppendSequential(s)
           ELSE StartSequential(merge_sequential(s), lba(lpn))
  ELSE AppendRandom(IF LogFull(s) THEN RecycleOldest(s) ELSE s, lpn)

(***************************************************************************)
(* The host's requests.                                                    *)
(***************************************************************************)
\* Where a write goes: a new data block, the data page if EMPTY, or the log.
Placed(s, lpn) ==
  LET l == lba(lpn)
      t == TakeBlock(s, "DATA")
  IN IF ~Alive(s) THEN s
     ELSE IF ~HasData(s, l)
       THEN IF Alive(t) THEN [t EXCEPT !.data_list = [@ EXCEPT ![l] = t.taken],
                                       !.target    = <<t.taken, off(lpn)>>]
                        ELSE t
     ELSE IF s.flash.page[DataPageAt(s, l, off(lpn))] = "EMPTY"
       THEN [s EXCEPT !.target = DataPageAt(s, l, off(lpn))]
     ELSE write_to_log_block(s, lpn)

\* The page is placed, invalid blocks are erased if it is time, and only then
\* is the page written.
write(lpn, d) ==
  /\ Running
  /\ LET s == EraseInvalidBlocks(Placed(Initialized(Now), lpn))
     IN Becomes(WritePage(s, s.target, d, NoPpn))
  /\ stored' = [stored EXCEPT ![lpn] = d]
  /\ rewritten' = IF stored[lpn] = NoData THEN rewritten ELSE rewritten \cup {lpn}
  /\ UNCHANGED trimmed

\* The page read finds: the first match in the log, oldest block first, then
\* the SW log block, then the data block; NoPpn is a no-op.
ReadPpn(lpn) ==
  LET entries == LogEntries(Now, lpn)
  IN IF entries # {} THEN LogPage(Now, Oldest(entries))
     ELSE IF InSequential(Now, lba(lpn), off(lpn)) THEN SequentialPage(Now, off(lpn))
     ELSE IF HasData(Now, lba(lpn)) THEN DataPageAt(Now, lba(lpn), off(lpn))
     ELSE NoPpn

\* Besides looking a page up, a read takes the log blocks if it comes first.
read ==
  /\ Running
  /\ log_pages = << >>
  /\ Becomes(Initialized(Now))
  /\ UNCHANGED <<stored, rewritten, trimmed>>

\* A page of the log block, the SW block or the data block is invalidated; if
\* nothing is left in its block, the block is erased and freed as a log block.
Invalidated(s, p) ==
  LET t == InvalidatePage(s, p)
  IN IF Inactive(t.flash, p[1]) THEN EraseBlock(t, p[1], "LOG") ELSE t

Emptied(s, p) == Inactive(InvalidatePage(s, p).flash, p[1])

Unmapped(s, l) == [s EXCEPT !.data_list = [@ EXCEPT ![l] = NoBlock]]

\* Mutant: the entry of the trimmed page is dropped from its log block.
TrimLog_Shrinks(s, lpn) ==
  LET e == Oldest(LogEntries(s, lpn))
      p == LogPage(s, e)
      t == ClearEntries(Invalidated(s, p), {e})
      u == [t EXCEPT !.ring[e[1]].numPages = @ - 1]
  IN IF Emptied(s, p) THEN Unmapped(u, lba(lpn)) ELSE u

\* The log copy read would find goes.  An emptied log block is freed while it
\* stays in the list, and the logical block forgets its data block.
TrimLog(s, lpn) ==
  LET e == Oldest(LogEntries(s, lpn))
      p == LogPage(s, e)
      t == ClearEntries(Invalidated(s, p), {e})
  IN IF Emptied(s, p) THEN Unmapped(t, lba(lpn)) ELSE t

TrimSequential(s, lpn) ==
  LET p == SequentialPage(s, off(lpn))
      t == Invalidated(s, p)
  IN IF Emptied(s, p) THEN [t EXCEPT !.seq = [@ EXCEPT !.lba = NoLba]] ELSE t

TrimData(s, lpn) ==
  LET p == DataPageAt(s, lba(lpn), off(lpn))
      t == Invalidated(s, p)
  IN IF Emptied(s, p) THEN Unmapped(t, lba(lpn)) ELSE t

Trimmed(s, lpn) ==
  IF ~Alive(s) THEN s
  ELSE IF LogEntries(s, lpn) # {} THEN TrimLog(s, lpn)
  ELSE IF InSequential(s, lba(lpn), off(lpn)) THEN TrimSequential(s, lpn)
  ELSE IF HasData(s, lba(lpn)) THEN TrimData(s, lpn)
  ELSE s

trim(lpn) ==
  /\ Running
  /\ Becomes(EraseInvalidBlocks(Trimmed(Initialized(Now), lpn)))
  /\ stored' = [stored EXCEPT ![lpn] = NoData]
  /\ trimmed' = TRUE
  /\ UNCHANGED rewritten

Next ==
  \/ read
  \/ \E lpn \in Lpns :
       \/ \E d \in Payloads : write(lpn, d)
       \/ trim(lpn)

Spec == Init /\ [][Next]_vars

(***************************************************************************)
(* Properties.  A trim frees blocks the tables still name and counts them  *)
(* as log blocks, so most of what follows is promised until the first one. *)
(***************************************************************************)
UntilTrim == Running /\ ~trimmed

FreeBlocks == Members(bm.free_list)
InvalidBlocks == Members(bm.invalid_list)
FreshBlocks == bm.fresh .. LastBlock
DataBlocks == {data_list[l] : l \in {m \in Lbas : data_list[m] # NoBlock}}
LogBlocks == {log_pages[n].address : n \in DOMAIN log_pages}
SequentialBlocks == {sequential_address} \ {NoBlock}
Owners == <<FreeBlocks, InvalidBlocks, FreshBlocks, DataBlocks, LogBlocks, SequentialBlocks>>

\* log_page_next counts the pages used in the log blocks, which fill in list
\* order, through every reuse of the oldest and whatever is trimmed: so the
\* walk to the first block with room never runs off the list, and the page it
\* takes is the next one of that block.
LogFillsInOrder ==
  log_pages # << >> =>
    /\ Len(log_pages) = FAST_LOG_BLOCK_LIMIT
    /\ \A n \in DOMAIN log_pages :
         LET before == (n - 1) * BLOCK_SIZE
         IN log_pages[n].numPages =
              IF log_page_next <= before THEN 0
              ELSE IF log_page_next - before >= BLOCK_SIZE THEN BLOCK_SIZE
              ELSE log_page_next - before

\* Through every switch, merge and reuse each block has one owner: a logical
\* block, the log list, the SW log, a list of the Block_manager, or nobody yet;
\* so none is lost or handed out while in use, whatever is to be handed out is
\* EMPTY, and the counters that start erasing agree with the owners.
BlocksOwnedOnce ==
  UntilTrim =>
    /\ UNION Members(Owners) = Blocks
    /\ \A i, j \in DOMAIN Owners : i # j => Owners[i] \cap Owners[j] = {}
    /\ Len(bm.free_list) = Cardinality(FreeBlocks)
    /\ Len(bm.invalid_list) = Cardinality(InvalidBlocks)
    /\ Cardinality(DataBlocks) = Cardinality({l \in Lbas : data_list[l] # NoBlock})
    /\ \A p \in Ppns : p[1] \in FreeBlocks \cup FreshBlocks => flash.page[p] = "EMPTY"
    /\ bm.data_active = Cardinality(DataBlocks \cup SequentialBlocks)
    /\ bm.log_active = Len(log_pages)

\* Two blocks more than every data block and every log block (the SW log block
\* and the target of a merge) are enough: until a trim no assert of the
\* Block_manager, of get_free_page or of Page::_write fails, the limit on log
\* blocks is never hit, and only wear ends the program.
OnlyWearEndsIt ==
  /\ NUMBER_OF_ADDRESSABLE_BLOCKS >= NumLbas + FAST_LOG_BLOCK_LIMIT + 2
  /\ ~trimmed
  => /\ abort \in {"none", "erase_failed"}
     /\ abort = "erase_failed" => \E b \in Blocks : flash.erases_remaining[b] = 0

\* A page the host wrote once keeps its content through every merge and switch
\* that the overwrites of other pages cause.
ColdDataSurvives ==
  UntilTrim =>
    \A lpn \in Lpns :
      stored[lpn] # NoData /\ lpn \notin rewritten =>
        /\ ReadPpn(lpn) # NoPpn
        /\ flash.page[ReadPpn(lpn)] = "VALID"
        /\ flash.data[ReadPpn(lpn)] = stored[lpn]

\* readme.md:145 of run_correctness.cpp, which writes every page again and
\* compares what it reads: "Performs basic correctness tests to verify mapping
\* consistency and data integrity."  Then a read would return what was last
\* written.
ReadsReturnLastWrite ==
  UntilTrim =>
    \A lpn \in Lpns :
      stored[lpn] # NoData => ReadPpn(lpn) # NoPpn /\ flash.data[ReadPpn(lpn)] = stored[lpn]
===============================================================================
