--------------------------------- MODULE Bast ---------------------------------
(***************************************************************************)
(* BAST (FTLs/bast_ftl.cpp): a block-mapped FTL with one log block per     *)
(* logical block.  Writes go to the log block of their logical block, in   *)
(* the order they come; when it is full, or when its place is needed, it   *)
(* becomes the data block (switch) or is merged with it into a new one.    *)
(***************************************************************************)
EXTENDS FtlSteps, FiniteSets

CONSTANTS
  NumLbas,                \* logical blocks the host addresses
  BAST_LOG_BLOCK_LIMIT    \* log blocks in use at a time

\* The Block_manager limits the log blocks to the device's blocks
\* (ssd_bm.cpp:30); only FAST sets a lower limit.
ASSUME BastAssumption ==
  /\ NumLbas \in Nat \ {0}
  /\ BAST_LOG_BLOCK_LIMIT \in Nat \ {0}
  /\ MAX_LOG_BLOCKS = NUMBER_OF_ADDRESSABLE_BLOCKS

VARIABLES
  flash,       \* the array
  bm,          \* the Block_manager
  data_list,   \* the data block of each logical block, or NoBlock
  log_map,     \* std::map: the log block of each logical block that has one
  abort,       \* the failed assert that ended the program, or "none"
  stored       \* history: what the host stored and did not trim, per page

vars == <<flash, bm, data_list, log_map, abort, stored>>

Lbas == 0 .. NumLbas - 1
Lpns == 0 .. NumLbas * BLOCK_SIZE - 1

\* event.get_logical_address() >> addressShift, and eventAddress.page.
lba(lpn) == lpn \div BLOCK_SIZE
off(lpn) == lpn % BLOCK_SIZE

\* LogPageBlock: pages[i] is the page of the log block that holds offset i.
NotLogged == -1
LogPageBlock == [address : Blocks, pages : [Offsets -> Offsets \cup {NotLogged}]]
NewLogBlock(b) == [address |-> b, pages |-> [i \in Offsets |-> NotLogged]]

TypeOK ==
  /\ flash \in FlashType
  /\ bm \in BlockManagerType
  /\ data_list \in [Lbas -> Blocks \cup {NoBlock}]
  /\ DOMAIN log_map \subseteq Lbas
  /\ \A l \in DOMAIN log_map : log_map[l] \in LogPageBlock
  /\ Cardinality(DOMAIN log_map) <= BAST_LOG_BLOCK_LIMIT
  /\ abort \in Aborts
  /\ stored \in [Lpns -> Contents]

Init ==
  /\ flash = FlashInit
  /\ bm = BlockManagerInit
  /\ data_list = [l \in Lbas |-> NoBlock]
  /\ log_map = [l \in {} |-> NewLogBlock(0)]
  /\ abort = "none"
  /\ stored = [lpn \in Lpns |-> NoData]

Running == abort = "none"

Now ==
  [flash |-> flash, bm |-> bm, data_list |-> data_list, log_map |-> log_map,
   taken |-> NoBlock, abort |-> abort]

\* The handler ends in s; when it ends in an abort only that is recorded.
Becomes(s) ==
  /\ abort' = s.abort
  /\ IF Alive(s) THEN /\ flash' = s.flash
                     /\ bm' = s.bm
                     /\ data_list' = s.data_list
                     /\ log_map' = s.log_map
                ELSE UNCHANGED <<flash, bm, data_list, log_map>>

(***************************************************************************)
(* Where a logical page is, in a record s of tables.                       *)
(***************************************************************************)
HasLog(s, l) == l \in DOMAIN s.log_map
HasData(s, l) == s.data_list[l] # NoBlock
InLog(s, l, i) == HasLog(s, l) /\ s.log_map[l].pages[i] # NotLogged
LogPage(s, l, i) == <<s.log_map[l].address, s.log_map[l].pages[i]>>
DataPage(s, l, i) == <<s.data_list[l], i>>

(***************************************************************************)
(* Log blocks.                                                             *)
(***************************************************************************)
dispose_logblock(s, l) ==
  [s EXCEPT !.log_map = [m \in DOMAIN s.log_map \ {l} |-> s.log_map[m]]]

IsSequential(s, l) == \A i \in Offsets : s.log_map[l].pages[i] = i

\* Mutant: the old data block is forgotten instead of erased.
switch_Leaks(s, l) ==
  dispose_logblock(
    [s EXCEPT !.bm        = PromoteBlock(s.bm, "DATA"),
              !.data_list = [s.data_list EXCEPT ![l] = s.log_map[l].address]], l)

\* is_sequential when it succeeds: the log block becomes the data block.
switch(s, l) ==
  LET promoted == [s EXCEPT !.bm = PromoteBlock(s.bm, "DATA")]
      freed    == IF HasData(s, l) THEN EraseBlock(promoted, s.data_list[l], "DATA")
                                   ELSE promoted
  IN dispose_logblock(
       [freed EXCEPT !.data_list = [@ EXCEPT ![l] = s.log_map[l].address]], l)

\* The page random_merge copies to offset i: the log page, else the data page,
\* unless it is EMPTY or INVALID.
MergeSource(s, l, i) ==
  LET source == IF InLog(s, l, i) THEN LogPage(s, l, i)
                ELSE IF HasData(s, l) THEN DataPage(s, l, i) ELSE NoPpn
  IN IF source # NoPpn /\ s.flash.page[source] = "VALID" THEN source ELSE NoPpn

\* One turn of the loop of random_merge: offset i copied to block b, ...
MergePage(s, l, b, i) ==
  LET p == MergeSource(s, l, i)
  IN IF p = NoPpn THEN s ELSE CopyTo(s, p, <<b, i>>, p)

\* ... and the loop: copied[n] is the state after n turns.
Merged(s, l, b) ==
  LET copied[n \in 0 .. BLOCK_SIZE] ==
        IF n = 0 THEN s ELSE MergePage(copied[n - 1], l, b, n - 1)
  IN copied[BLOCK_SIZE]

\* Mutant: the log block is not erased.
random_merge_Leaks(s, l) ==
  LET t      == TakeBlock(s, "DATA")
      merged == Merged(t, l, t.taken)
      noData == IF HasData(s, l) THEN EraseBlock(merged, s.data_list[l], "DATA")
                                 ELSE merged
  IN IF ~Alive(t) THEN t
     ELSE dispose_logblock([noData EXCEPT !.data_list = [@ EXCEPT ![l] = t.taken]], l)

\* random_merge: log and data block are merged into a new data block, and
\* both are erased.
random_merge(s, l) ==
  LET t      == TakeBlock(s, "DATA")
      merged == Merged(t, l, t.taken)
      noLog  == EraseBlock(merged, s.log_map[l].address, "LOG")
      noData == IF HasData(s, l) THEN EraseBlock(noLog, s.data_list[l], "DATA")
                                 ELSE noLog
  IN IF ~Alive(t) THEN t
     ELSE dispose_logblock([noData EXCEPT !.data_list = [@ EXCEPT ![l] = t.taken]], l)

Reclaim(s, l) == IF IsSequential(s, l) THEN switch(s, l) ELSE random_merge(s, l)

\* The log block that makes room: random() % size - 1 steps from the first
\* entry of the map, so never the last entry unless there is only one.
Victims ==
  LET logged == DOMAIN log_map
  IN IF Cardinality(logged) = 1 THEN logged
     ELSE {l \in logged : \E m \in logged : l < m}

\* allocate_new_logblock for l, after the victim (if any) made room.
GiveLogBlock(s, l) ==
  LET t == TakeBlock(s, "LOG")
  IN [t EXCEPT !.log_map =
        IF Alive(t) THEN [m \in DOMAIN @ \cup {l} |->
                            IF m = l THEN NewLogBlock(t.taken) ELSE @[m]]
                    ELSE @]

(***************************************************************************)
(* The host's requests.                                                    *)
(***************************************************************************)
\* Mutant: only the log copy is ever replaced.
Replaced_LogOnly(s, l, i, logOld) == logOld

\* The page the event replaces: the data page, when it is not EMPTY, takes the
\* place of the log page that was named first.
Replaced(s, l, i, logOld) ==
  IF HasData(s, l) /\ s.flash.page[DataPage(s, l, i)] # "EMPTY"
    THEN DataPage(s, l, i) ELSE logOld

\* Offset i of logical block l is logged in page n of its log block.
Logged(s, l, i, n) ==
  [s EXCEPT !.log_map[l].pages[i] = n]

Store(s, l, i, n, d, logOld) ==
  LET logged == Logged(s, l, i, n)
  IN WritePage(logged, LogPage(logged, l, i), d, Replaced(s, l, i, logOld))

\* The next page of the log block, or page 0 of a new one.
WriteToLog(s, l, i, d) ==
  LET numValid == s.flash.pages_valid[s.log_map[l].address]
      fresh    == GiveLogBlock(Reclaim(s, l), l)
  IN IF ~Alive(s) THEN s
     ELSE IF numValid < BLOCK_SIZE
       THEN Store(s, l, i, numValid, d, IF InLog(s, l, i) THEN LogPage(s, l, i) ELSE NoPpn)
     ELSE IF Alive(fresh) THEN Store(fresh, l, i, 0, d, NoPpn)
     ELSE fresh

\* The logical block gets a log block first, if it has none.
write(lpn, d) ==
  /\ Running
  /\ \/ /\ HasLog(Now, lba(lpn))
        /\ Becomes(WriteToLog(Now, lba(lpn), off(lpn), d))
     \/ /\ ~HasLog(Now, lba(lpn))
        /\ Cardinality(DOMAIN log_map) < BAST_LOG_BLOCK_LIMIT
        /\ Becomes(WriteToLog(GiveLogBlock(Now, lba(lpn)), lba(lpn), off(lpn), d))
     \/ /\ ~HasLog(Now, lba(lpn))
        /\ Cardinality(DOMAIN log_map) >= BAST_LOG_BLOCK_LIMIT
        /\ \E v \in Victims :
             Becomes(WriteToLog(GiveLogBlock(Reclaim(Now, v), lba(lpn)),
                                lba(lpn), off(lpn), d))
  /\ stored' = [stored EXCEPT ![lpn] = d]

\* Mutant: the data block is looked up first.
ReadPpn_DataFirst(lpn) ==
  LET l == lba(lpn)
      p == IF HasData(Now, l) THEN DataPage(Now, l, off(lpn))
           ELSE IF InLog(Now, l, off(lpn)) THEN LogPage(Now, l, off(lpn))
           ELSE <<0, 0>>
  IN IF flash.page[p] = "INVALID" THEN <<0, 0>> ELSE p

\* The page read issues its event to; it changes nothing else.  A page that is
\* nowhere, or was trimmed, is read from physical page 0.
ReadPpn(lpn) ==
  LET l == lba(lpn)
      p == IF InLog(Now, l, off(lpn)) THEN LogPage(Now, l, off(lpn))
           ELSE IF HasData(Now, l) THEN DataPage(Now, l, off(lpn))
           ELSE <<0, 0>>
  IN IF flash.page[p] = "INVALID" THEN <<0, 0>> ELSE p

\* The first half of trim: the log copy; a log block with nothing left goes.
TrimLog(s, l, i) ==
  IF ~InLog(s, l, i) THEN s
  ELSE LET t == Logged(InvalidatePage(s, LogPage(s, l, i)), l, i, NotLogged)
       IN IF Inactive(t.flash, t.log_map[l].address)
            THEN EraseBlock(dispose_logblock(t, l), t.log_map[l].address, "LOG")
            ELSE t

\* The second half: the data page, whatever its state, and the data block.
TrimData(s, l, i) ==
  IF ~HasData(s, l) THEN s
  ELSE LET t == InvalidatePage(s, DataPage(s, l, i))
       IN IF Inactive(t.flash, t.data_list[l])
            THEN EraseBlock([t EXCEPT !.data_list = [@ EXCEPT ![l] = NoBlock]],
                            t.data_list[l], "DATA")
            ELSE t

trim(lpn) ==
  /\ Running
  /\ Becomes(TrimData(TrimLog(Now, lba(lpn), off(lpn)), lba(lpn), off(lpn)))
  /\ stored' = [stored EXCEPT ![lpn] = NoData]

Next ==
  \E lpn \in Lpns :
    \/ \E d \in Payloads : write(lpn, d)
    \/ trim(lpn)

Spec == Init /\ [][Next]_vars

(***************************************************************************)
(* Properties.                                                             *)
(***************************************************************************)
FreeBlocks == {bm.free_list[i] : i \in 1 .. Len(bm.free_list)}
FreshBlocks == bm.fresh .. NUMBER_OF_ADDRESSABLE_BLOCKS - 1
DataBlocks == {data_list[l] : l \in {m \in Lbas : data_list[m] # NoBlock}}
LogBlocks == {log_map[l].address : l \in DOMAIN log_map}

\* Through every switch, merge, eviction and trim each block has one owner: it
\* is the data block or the log block of one logical block, or free, or never
\* used.  No block is lost and none is handed out while it holds data; the
\* counters of the Block_manager agree.
BlocksOwnedOnce ==
  Running =>
    /\ Len(bm.free_list) = Cardinality(FreeBlocks)
    /\ Cardinality(DataBlocks) = Cardinality({l \in Lbas : data_list[l] # NoBlock})
    /\ Cardinality(LogBlocks) = Cardinality(DOMAIN log_map)
    /\ FreeBlocks \cup FreshBlocks \cup DataBlocks \cup LogBlocks = Blocks
    /\ Cardinality(Blocks) = Cardinality(FreeBlocks) + Cardinality(FreshBlocks)
                             + Cardinality(DataBlocks) + Cardinality(LogBlocks)
    /\ \A p \in Ppns : p[1] \in FreeBlocks \cup FreshBlocks => flash.page[p] = "EMPTY"
    /\ bm.data_active = Cardinality(DataBlocks)
    /\ bm.log_active = Cardinality(LogBlocks)

\* One block more than every logical block's data block and every log block is
\* enough for any sequence of requests: the assert of get_page_block that a
\* block is free never fails, nor do those that a written page is EMPTY.
\* Only wear ends the program.
OnlyWearEndsIt ==
  NUMBER_OF_ADDRESSABLE_BLOCKS > NumLbas + BAST_LOG_BLOCK_LIMIT =>
    /\ abort \in {"none", "erase_failed"}
    /\ abort = "erase_failed" => \E b \in Blocks : flash.erases_remaining[b] = 0

\* The copy of a page that merges take and reads find, or NoPpn.
CurrentPage(lpn) == MergeSource(Now, lba(lpn), off(lpn))

\* A log page that was written over is not invalidated (bast_ftl.cpp:185): log
\* blocks hold VALID pages that are nobody's.  They are the only ones: after
\* any switches, merges and trims a VALID page elsewhere is the current copy of
\* a logical page, a logged page is VALID, so that no merge or read passes over
\* it to an older copy, and no physical page is current for two logical ones.
StaleOnlyInLog ==
  Running =>
    /\ \A l \in DOMAIN log_map, i \in Offsets :
         InLog(Now, l, i) => flash.page[LogPage(Now, l, i)] = "VALID"
    /\ \A p \in Ppns : flash.page[p] = "VALID" /\ p[1] \notin LogBlocks =>
         \E lpn \in Lpns : CurrentPage(lpn) = p
    /\ \A lpn, m \in Lpns :
         CurrentPage(lpn) = CurrentPage(m) /\ lpn # m => CurrentPage(lpn) = NoPpn

\* Switches, merges and evictions move pages about, but what the host last
\* stored in a page is what a read of it finds, and no other page's content, on
\* a VALID page; a trimmed page is gone: no older copy of it comes back.
ReadsReturnLastWrite ==
  Running =>
    \A lpn \in Lpns :
      IF stored[lpn] # NoData
        THEN /\ flash.page[ReadPpn(lpn)] = "VALID"
             /\ flash.data[ReadPpn(lpn)] = stored[lpn]
        ELSE MergeSource(Now, lba(lpn), off(lpn)) = NoPpn
===============================================================================
