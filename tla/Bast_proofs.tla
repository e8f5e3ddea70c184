------------------------------ MODULE Bast_proofs ------------------------------
(***************************************************************************)
(* Proofs about Bast for every geometry, every number of logical blocks    *)
(* and every limit on log blocks.  A handler is a chain of operators on a  *)
(* record of tables; Sound is what each of them needs and leaves, and      *)
(* Content is what a logical page holds, which only Store and a trim       *)
(* change.  One lemma per operator, then one per request.                  *)
(***************************************************************************)
EXTENDS Bast, FtlLemmas

---------------------------------------------------------------------------
(* The records the operators work on.                                      *)

LogMaps == UNION {[D -> LogPageBlock] : D \in SUBSET Lbas}

Tables ==
  [flash : FlashType, bm : BlockManagerType,
   data_list : [Lbas -> Blocks \cup {NoBlock}], log_map : LogMaps,
   taken : Blocks \cup {NoBlock}, abort : Aborts]

\* The blocks get_free_block can hand out.
Available(s) == Members(s.bm.free_list) \cup {b \in Blocks : b >= s.bm.fresh}
Mapped(s) == {l \in Lbas : HasData(s, l)}
LogBlock(s, l) == s.log_map[l].address
DataBlock(s, l) == s.data_list[l]

\* Where merges and reads look for offset i of logical block l, whatever the
\* state of the page there.
Place(s, l, i) ==
  IF InLog(s, l, i) THEN LogPage(s, l, i)
  ELSE IF HasData(s, l) THEN DataPage(s, l, i) ELSE NoPpn

\* What offset i of logical block l holds for the host.
Content(s, l, i) ==
  IF MergeSource(s, l, i) = NoPpn THEN NoData ELSE s.flash.data[MergeSource(s, l, i)]

---------------------------------------------------------------------------
(* The inductive invariant, on a record of tables.                         *)

\* The lists of the Block_manager; BAST gives no block back for a later erase.
ManagerSound(m) == ListsSound(m) /\ m.invalid_list = << >>

\* The blocks of a logical block.
Own(s, l) ==
  (IF HasData(s, l) THEN {DataBlock(s, l)} ELSE {})
    \cup (IF HasLog(s, l) THEN {LogBlock(s, l)} ELSE {})

\* Each block has one owner, and the counters count the owners.
OwnersDistinct(s) ==
  /\ \A l \in Lbas : Own(s, l) \cap Available(s) = {}
  /\ \A l, m \in Lbas : l # m => Own(s, l) \cap Own(s, m) = {}
  /\ \A l \in Lbas : HasLog(s, l) => DataBlock(s, l) # LogBlock(s, l)

AllOwned(s) == \A b \in Blocks : b \in Available(s) \/ \E l \in Lbas : b \in Own(s, l)

Counted(s) ==
  /\ s.bm.data_active = Cardinality(Mapped(s))
  /\ s.bm.log_active = Cardinality(DOMAIN s.log_map)
  /\ Cardinality(DOMAIN s.log_map) <= BAST_LOG_BLOCK_LIMIT

\* A log block is filled in order; a page it logs is VALID, no other offset
\* shares it and the data page of the same offset is not VALID beside it.
LogSound(s, l) ==
  /\ s.flash.pages_valid[LogBlock(s, l)] <= BLOCK_SIZE
  /\ \A n \in Offsets : s.flash.page[<<LogBlock(s, l), n>>] = "EMPTY"
                         <=> n >= s.flash.pages_valid[LogBlock(s, l)]
  /\ \A i \in Offsets : InLog(s, l, i) =>
       /\ s.flash.page[LogPage(s, l, i)] = "VALID"
       /\ HasData(s, l) => s.flash.page[DataPage(s, l, i)] # "VALID"
  /\ \A i, j \in Offsets :
       InLog(s, l, i) /\ InLog(s, l, j) /\ LogPage(s, l, i) = LogPage(s, l, j) => i = j

Sound(s) ==
  /\ s \in Tables
  /\ Alive(s)
  /\ FlashSound(s.flash)
  /\ ManagerSound(s.bm)
  /\ OwnersDistinct(s)
  /\ AllOwned(s)
  /\ Counted(s)
  /\ \A b \in Available(s) : Erased(s.flash, b)
  /\ \A l \in Lbas : HasLog(s, l) => LogSound(s, l)

\* While the program runs the tables are sound and hold what was stored; it
\* ends for lack of a block only on a device that is too small.
IInv ==
  /\ TypeOK
  /\ Running => /\ Sound(Now)
                /\ \A lpn \in Lpns : stored[lpn] = Content(Now, lba(lpn), off(lpn))
  /\ OnlyWearEndsIt

---------------------------------------------------------------------------
(* Records, places and frames.                                             *)

LEMMA LogMapFacts ==
  ASSUME NEW m
  PROVE  m \in LogMaps <=> DOMAIN m \subseteq Lbas /\ m \in [DOMAIN m -> LogPageBlock]
  BY DEF LogMaps

LEMMA TablesFacts ==
  ASSUME NEW s \in Tables
  PROVE  /\ s.flash \in FlashType
         /\ s.bm \in BlockManagerType
         /\ s.data_list \in [Lbas -> Blocks \cup {NoBlock}]
         /\ DOMAIN s.log_map \subseteq Lbas
         /\ s.log_map \in [DOMAIN s.log_map -> LogPageBlock]
         /\ \A l \in Lbas : HasData(s, l) => DataBlock(s, l) \in Blocks
         /\ \A l \in Lbas : HasLog(s, l) =>
              /\ LogBlock(s, l) \in Blocks
              /\ s.log_map[l] \in LogPageBlock
              /\ s.log_map[l].pages \in [Offsets -> Offsets \cup {NotLogged}]
  <1>1. /\ s.flash \in FlashType
        /\ s.bm \in BlockManagerType
        /\ s.data_list \in [Lbas -> Blocks \cup {NoBlock}]
        /\ s.log_map \in LogMaps
    BY DEF Tables
  <1>2. DOMAIN s.log_map \subseteq Lbas /\ s.log_map \in [DOMAIN s.log_map -> LogPageBlock]
    BY <1>1, LogMapFacts
  <1>3. \A l \in Lbas : HasLog(s, l) => s.log_map[l] \in LogPageBlock
    BY <1>2 DEF HasLog
  <1>. QED
    BY <1>1, <1>2, <1>3 DEF HasData, DataBlock, LogBlock, LogPageBlock

\* Each offset has one place, in the log block or the data block.
LEMMA PlaceFacts ==
  ASSUME NEW s \in Tables, NEW l \in Lbas, NEW i \in Offsets
  PROVE  /\ InLog(s, l, i) => LogPage(s, l, i) \in Ppns /\ LogPage(s, l, i)[1] = LogBlock(s, l)
         /\ HasData(s, l) => DataPage(s, l, i) \in Ppns /\ DataPage(s, l, i)[1] = DataBlock(s, l)
         /\ Place(s, l, i) \in Ppns \cup {NoPpn}
         /\ Place(s, l, i) = NoPpn <=> ~InLog(s, l, i) /\ ~HasData(s, l)
         /\ MergeSource(s, l, i) =
              IF Place(s, l, i) # NoPpn /\ s.flash.page[Place(s, l, i)] = "VALID"
                THEN Place(s, l, i) ELSE NoPpn
         /\ Place(s, l, i) # NoPpn =>
              \/ HasLog(s, l) /\ Place(s, l, i)[1] = LogBlock(s, l)
              \/ HasData(s, l) /\ Place(s, l, i)[1] = DataBlock(s, l)
  <1>1. InLog(s, l, i) => LogPage(s, l, i) \in Ppns /\ LogPage(s, l, i)[1] = LogBlock(s, l)
    BY TablesFacts DEF InLog, LogPage, LogBlock, Ppns
  <1>2. HasData(s, l) => DataPage(s, l, i) \in Ppns /\ DataPage(s, l, i)[1] = DataBlock(s, l)
    BY TablesFacts DEF DataPage, DataBlock, Ppns
  <1>3. InLog(s, l, i) => HasLog(s, l)
    BY DEF InLog
  <1>. QED
    BY <1>1, <1>2, <1>3, NoPpnNotPage DEF Place, MergeSource

\* The two records agree on a logical block, its log block and its data block.
SameView(s, t, l) ==
  /\ HasLog(t, l) <=> HasLog(s, l)
  /\ HasLog(s, l) => t.log_map[l] = s.log_map[l] /\ SameBlock(s.flash, t.flash, LogBlock(s, l))
  /\ DataBlock(t, l) = DataBlock(s, l)
  /\ HasData(s, l) => SameBlock(s.flash, t.flash, DataBlock(s, l))

\* What is true of a logical block depends on nothing else.
LEMMA SameViewKeeps ==
  ASSUME NEW s \in Tables, NEW t \in Tables, NEW l \in Lbas, SameView(s, t, l)
  PROVE  /\ HasData(t, l) <=> HasData(s, l)
         /\ HasLog(s, l) => LogBlock(t, l) = LogBlock(s, l)
         /\ HasLog(s, l) /\ LogSound(s, l) => LogSound(t, l)
         /\ \A i \in Offsets : Content(t, l, i) = Content(s, l, i)
  <1>1. HasData(t, l) <=> HasData(s, l)
    BY DEF SameView, HasData, DataBlock
  <1>2. HasLog(s, l) => LogBlock(t, l) = LogBlock(s, l)
    BY DEF SameView, LogBlock
  <1>3. ASSUME NEW i \in Offsets
        PROVE  /\ InLog(t, l, i) <=> InLog(s, l, i)
               /\ InLog(s, l, i) => /\ LogPage(t, l, i) = LogPage(s, l, i)
                                    /\ t.flash.page[LogPage(s, l, i)] = s.flash.page[LogPage(s, l, i)]
                                    /\ t.flash.data[LogPage(s, l, i)] = s.flash.data[LogPage(s, l, i)]
               /\ HasData(s, l) => /\ DataPage(t, l, i) = DataPage(s, l, i)
                                   /\ t.flash.page[DataPage(s, l, i)] = s.flash.page[DataPage(s, l, i)]
                                   /\ t.flash.data[DataPage(s, l, i)] = s.flash.data[DataPage(s, l, i)]
    <2>1. InLog(t, l, i) <=> InLog(s, l, i)
      BY DEF SameView, InLog
    <2>2. ASSUME InLog(s, l, i)
          PROVE  /\ LogPage(t, l, i) = LogPage(s, l, i)
                 /\ t.flash.page[LogPage(s, l, i)] = s.flash.page[LogPage(s, l, i)]
                 /\ t.flash.data[LogPage(s, l, i)] = s.flash.data[LogPage(s, l, i)]
      <3>1. HasLog(s, l) /\ s.log_map[l].pages[i] \in Offsets
        BY <2>2, TablesFacts DEF InLog
      <3>. QED
        BY <3>1 DEF SameView, SameBlock, LogPage, LogBlock
    <2>3. ASSUME HasData(s, l)
          PROVE  /\ DataPage(t, l, i) = DataPage(s, l, i)
                 /\ t.flash.page[DataPage(s, l, i)] = s.flash.page[DataPage(s, l, i)]
                 /\ t.flash.data[DataPage(s, l, i)] = s.flash.data[DataPage(s, l, i)]
      BY <2>3 DEF SameView, SameBlock, DataPage, DataBlock
    <2>. QED
      BY <2>1, <2>2, <2>3
  <1>4. ASSUME HasLog(s, l), LogSound(s, l)
        PROVE  LogSound(t, l)
    <2>1. SameBlock(s.flash, t.flash, LogBlock(s, l)) /\ LogBlock(t, l) = LogBlock(s, l)
      BY <1>2, <1>4 DEF SameView
    <2>. QED
      BY <1>1, <1>3, <1>4, <2>1 DEF LogSound, SameBlock
  <1>5. ASSUME NEW i \in Offsets
        PROVE  Content(t, l, i) = Content(s, l, i)
    <2>1. Place(t, l, i) = Place(s, l, i)
      BY <1>1, <1>3 DEF Place
    <2>2. Place(s, l, i) # NoPpn =>
            /\ t.flash.page[Place(s, l, i)] = s.flash.page[Place(s, l, i)]
            /\ t.flash.data[Place(s, l, i)] = s.flash.data[Place(s, l, i)]
      BY <1>3 DEF Place
    <2>. QED
      BY <2>1, <2>2, PlaceFacts DEF Content
  <1>. QED
    BY <1>1, <1>2, <1>4, <1>5

---------------------------------------------------------------------------
(* The calls to the Block_manager.                                         *)

LEMMA TakeEffect ==
  ASSUME NEW s \in Tables, Alive(s), ManagerSound(s.bm), NEW type \in BlockTypes,
         NEW t, t = TakeBlock(s, type)
  PROVE  \/ t \in Tables /\ t.abort = "no_free_block" /\ Available(s) = {}
         \/ t.abort = "bad_alloc" /\ type = "LOG" /\ LogBlockRefused(s.bm)
         \/ /\ t \in Tables /\ Alive(t)
            /\ t.flash = s.flash /\ t.data_list = s.data_list /\ t.log_map = s.log_map
            /\ ManagerSound(t.bm)
            /\ t.taken \in Available(s) /\ t.taken \in Blocks
            /\ Available(t) = Available(s) \ {t.taken}
            /\ t.bm.data_active = s.bm.data_active + IF type = "DATA" THEN 1 ELSE 0
            /\ t.bm.log_active = s.bm.log_active + IF type = "LOG" THEN 1 ELSE 0
  <1>. DEFINE m == s.bm
              g == GetPageBlock(m)
              n == NextBlock(m)
  <1>1. /\ m \in BlockManagerType /\ s.flash \in FlashType
        /\ ListsSound(m) /\ m.invalid_list = << >>
        /\ m.fresh \in 0 .. NUMBER_OF_ADDRESSABLE_BLOCKS
    BY TablesFacts DEF ManagerSound, BlockManagerType
  <1>2. Reclaimed(m) = {} /\ ServicedFlash(m, s.flash) = s.flash /\ ~ServiceFails(m, s.flash)
    BY <1>1, NoGarbage
  <1>3. CASE OutOfBlocks(m)
    <2>1. t = Fails(s, "no_free_block")
      BY <1>2, <1>3 DEF TakeBlock
    <2>2. t \in Tables /\ t.abort = "no_free_block"
      BY <2>1 DEF Fails, Tables, Aborts
    <2>3. Members(m.free_list) = {}
      <3>1. Members(Serviced(m).free_list) = Members(m.free_list)
        <4>1. Members(Serviced(m).free_list) = Members(m.free_list) \cup Reclaimed(m)
          BY <1>1, <1>2, ServicedEffect
        <4>. QED
          BY <1>2, <4>1
      <3>2. Serviced(m).free_list = << >>
        BY <1>3 DEF OutOfBlocks
      <3>3. Members(<< >>) = {}
        BY DEF Members
      <3>. QED
        BY <3>1, <3>2, <3>3
    <2>4. \A b \in Blocks : ~(b >= m.fresh)
      BY <1>1, <1>3, GeometryAssumption DEF OutOfBlocks, FreshBlockLeft, Blocks
    <2>. QED
      BY <2>2, <2>3, <2>4 DEF Available
  <1>4. CASE ~OutOfBlocks(m) /\ type = "LOG" /\ LogBlockRefused(m)
    <2>1. t = Fails(s, "bad_alloc")
      BY <1>2, <1>4 DEF TakeBlock
    <2>. QED
      BY <1>4, <2>1 DEF Fails, Tables
  <1>5. CASE ~OutOfBlocks(m) /\ ~(type = "LOG" /\ LogBlockRefused(m))
    <2>1. t = [s EXCEPT !.flash = s.flash, !.bm = GetFreeBlock(m, type), !.taken = n]
      BY <1>2, <1>5 DEF TakeBlock
    <2>2. /\ ListsSound(g)
          /\ n \in Blocks
          /\ Members(g.invalid_list) = Members(m.invalid_list)
          /\ Members(g.free_list) = Members(m.free_list) \ {n}
          /\ \/ n = m.fresh /\ g.fresh = m.fresh + 1
             \/ n \in Members(m.free_list) /\ g.fresh = m.fresh
          /\ g.data_active = m.data_active
          /\ g.log_active = m.log_active
      BY <1>1, <1>2, <1>5, PageBlockEffect, ZenonT(60)
    <2>3. g \in BlockManagerType
      BY <2>2 DEF ListsSound
    <2>. DEFINE c == CountActive(g, type, 1)
    <2>4. /\ c \in BlockManagerType
          /\ c.fresh = g.fresh
          /\ c.free_list = g.free_list
          /\ c.invalid_list = g.invalid_list
          /\ c.out_of_blocks = g.out_of_blocks
          /\ c.data_active = g.data_active + IF type = "DATA" THEN 1 ELSE 0
          /\ c.log_active = g.log_active + IF type = "LOG" THEN 1 ELSE 0
      BY <2>3, CountActiveEffect
    <2>5. c = GetFreeBlock(m, type)
      BY DEF GetFreeBlock
    <2>. HIDE DEF c, g, n
    <2>6. /\ t \in Tables /\ Alive(t) /\ t.flash = s.flash /\ t.data_list = s.data_list
          /\ t.log_map = s.log_map /\ t.bm = c /\ t.taken = n
      BY <2>1, <2>2, <2>4, <2>5 DEF Tables, Alive
    <2>7. g.invalid_list = << >>
      <3>1. Members(<< >>) = {}
        BY DEF Members
      <3>2. Members(g.invalid_list) = {} /\ g.invalid_list \in Seq(Blocks)
        BY <1>1, <2>2, <2>3, <3>1 DEF BlockManagerType
      <3>3. Len(g.invalid_list) = 0
        <4>1. Len(g.invalid_list) # 0 => g.invalid_list[1] \in Members(g.invalid_list)
          BY <3>2 DEF Members
        <4>. QED
          BY <3>2, <4>1
      <3>. QED
        BY <3>2, <3>3
    <2>8. ManagerSound(c)
      BY <2>2, <2>4, <2>7 DEF ManagerSound, ListsSound
    <2>9. Available(t) = Available(s) \ {n} /\ n \in Available(s)
      <3>1. \A b \in Members(m.free_list) : b < m.fresh /\ b \in Blocks
        BY <1>1, ListMembers DEF ListsSound, BlockManagerType
      <3>2. \A b \in Blocks : b \in Int
        BY DEF Blocks
      <3>3. CASE n = m.fresh /\ g.fresh = m.fresh + 1
        <4>1. {b \in Blocks : b >= g.fresh} = {b \in Blocks : b >= m.fresh} \ {n}
          BY <1>1, <3>2, <3>3
        <4>2. n \in {b \in Blocks : b >= m.fresh}
          BY <1>1, <2>2, <3>2, <3>3
        <4>. QED
          BY <2>2, <2>4, <2>6, <4>1, <4>2 DEF Available
      <3>4. CASE n \in Members(m.free_list) /\ g.fresh = m.fresh
        <4>1. n \notin {b \in Blocks : b >= m.fresh}
          BY <1>1, <3>1, <3>2, <3>4
        <4>. QED
          BY <2>2, <2>4, <2>6, <3>4, <4>1 DEF Available
      <3>. QED
        BY <2>2, <3>3, <3>4
    <2>. QED
      BY <2>2, <2>4, <2>6, <2>8, <2>9
  <1>. QED
    BY <1>3, <1>4, <1>5

LEMMA EraseBlockEffect ==
  ASSUME NEW s \in Tables, Alive(s), ManagerSound(s.bm), FlashSound(s.flash),
         NEW b \in Blocks, b \notin Available(s), NEW type \in BlockTypes,
         NEW t, t = EraseBlock(s, b, type)
  PROVE  IF CanErase(s.flash, b)
           THEN /\ t \in Tables /\ Alive(t)
                /\ FlashSound(t.flash) /\ Erased(t.flash, b)
                /\ \A c \in Blocks : c # b =>
                     /\ SameBlock(s.flash, t.flash, c)
                     /\ t.flash.erases_remaining[c] = s.flash.erases_remaining[c]
                /\ t.data_list = s.data_list /\ t.log_map = s.log_map /\ t.taken = s.taken
                /\ ManagerSound(t.bm)
                /\ Available(t) = Available(s) \cup {b}
                /\ t.bm.data_active = s.bm.data_active - IF type = "DATA" THEN 1 ELSE 0
                /\ t.bm.log_active = s.bm.log_active - IF type = "LOG" THEN 1 ELSE 0
           ELSE t \in Tables /\ t.abort = "erase_failed" /\ s.flash.erases_remaining[b] = 0
  <1>. DEFINE m == s.bm
              a == [m EXCEPT !.free_list = Append(m.free_list, b)]
              c == CountActive(a, type, -1)
  <1>1. /\ m \in BlockManagerType /\ s.flash \in FlashType
        /\ ListsSound(m) /\ m.invalid_list = << >>
        /\ m.free_list \in Seq(Blocks)
        /\ m.fresh \in 0 .. NUMBER_OF_ADDRESSABLE_BLOCKS
        /\ m.data_active \in Int /\ m.log_active \in Int
    BY TablesFacts DEF ManagerSound, BlockManagerType
  <1>2. CASE ~CanErase(s.flash, b)
    <2>1. t \in Tables /\ t.abort = "erase_failed"
      BY <1>2 DEF EraseBlock, Alive, Fails, Tables, Aborts
    <2>2. s.flash.erases_remaining[b] = 0
      BY <1>1, <1>2 DEF CanErase, FlashType
    <2>. QED
      BY <1>2, <2>1, <2>2
  <1>3. CASE CanErase(s.flash, b)
    <2>1. t = [s EXCEPT !.flash = Erase(s.flash, {b}), !.bm = EraseAndInvalidate(m, b, type)]
      BY <1>3 DEF EraseBlock
    <2>2. /\ Append(m.free_list, b) \in Seq(Blocks)
          /\ Members(Append(m.free_list, b)) = Members(m.free_list) \cup {b}
          /\ NoRepeat(Append(m.free_list, b))
      BY <1>1, AppendedList DEF ListsSound, Available
    <2>3. /\ a \in BlockManagerType
          /\ a.fresh = m.fresh
          /\ a.free_list = Append(m.free_list, b)
          /\ a.invalid_list = << >>
          /\ a.out_of_blocks = m.out_of_blocks
          /\ a.data_active = m.data_active
          /\ a.log_active = m.log_active
      BY <1>1, <2>2 DEF BlockManagerType
    <2>4. c = EraseAndInvalidate(m, b, type)
      BY DEF EraseAndInvalidate
    <2>. HIDE DEF a
    <2>5. /\ c \in BlockManagerType
          /\ c.fresh = m.fresh
          /\ c.free_list = a.free_list
          /\ c.invalid_list = << >>
          /\ c.out_of_blocks = m.out_of_blocks
          /\ c.data_active = a.data_active + IF type = "DATA" THEN -1 ELSE 0
          /\ c.log_active = a.log_active + IF type = "LOG" THEN -1 ELSE 0
      <3>1. a \in BlockManagerType /\ -1 \in Int
        BY <2>3
      <3>2. /\ c \in BlockManagerType
            /\ c.fresh = a.fresh
            /\ c.free_list = a.free_list
            /\ c.invalid_list = a.invalid_list
            /\ c.out_of_blocks = a.out_of_blocks
            /\ c.data_active = a.data_active + IF type = "DATA" THEN -1 ELSE 0
            /\ c.log_active = a.log_active + IF type = "LOG" THEN -1 ELSE 0
        BY <3>1, CountActiveEffect
      <3>. QED
        BY <2>3, <3>2
    <2>. HIDE DEF c
    <2>6. Erase(s.flash, {b}) \in FlashType
      BY <1>1, <1>3, EraseEffect
    <2>. DEFINE e == Erase(s.flash, {b})
    <2>61. /\ FlashSound(e) /\ Erased(e, b)
           /\ \A x \in Blocks : x # b =>
                /\ SameBlock(s.flash, e, x)
                /\ e.erases_remaining[x] = s.flash.erases_remaining[x]
      BY <1>3, EraseSound
    <2>7. /\ t \in Tables /\ Alive(t) /\ t.flash = e
          /\ t.data_list = s.data_list /\ t.log_map = s.log_map /\ t.taken = s.taken
          /\ t.bm = c
      BY <2>1, <2>4, <2>5, <2>6 DEF Tables, Alive
    <2>8. b < m.fresh
      BY <1>1 DEF Available, Blocks
    <2>9. Members(c.free_list) = Members(m.free_list) \cup {b}
      BY <2>2, <2>3, <2>5
    <2>10. Members(<< >>) = {} /\ NoRepeat(<< >>)
      BY DEF Members, NoRepeat
    <2>11. ManagerSound(c)
      BY <1>1, <2>2, <2>3, <2>5, <2>8, <2>9, <2>10 DEF ManagerSound, ListsSound
    <2>12. Available(t) = Available(s) \cup {b}
      BY <2>5, <2>7, <2>9 DEF Available
    <2>13. /\ t.bm.data_active = m.data_active - IF type = "DATA" THEN 1 ELSE 0
           /\ t.bm.log_active = m.log_active - IF type = "LOG" THEN 1 ELSE 0
      BY <1>1, <2>3, <2>5, <2>7
    <2>. HIDE DEF e
    <2>. QED
      BY <1>3, <2>7, <2>61, <2>11, <2>12, <2>13
  <1>. QED
    BY <1>2, <1>3

---------------------------------------------------------------------------
(* Counting owners.                                                        *)

LEMMA LbasFinite ==
  /\ IsFiniteSet(Lbas)
  /\ Cardinality(Lbas) = NumLbas
  <1>1. 0 \in Int /\ NumLbas - 1 \in Int
    BY BastAssumption
  <1>. QED
    BY <1>1, FS_Interval, BastAssumption DEF Lbas

LEMMA LbaCount ==
  ASSUME NEW S \in SUBSET Lbas, NEW l
  PROVE  /\ IsFiniteSet(S)
         /\ Cardinality(S) \in Nat /\ Cardinality(S) <= NumLbas
         /\ Cardinality(S \cup {l}) = IF l \in S THEN Cardinality(S) ELSE Cardinality(S) + 1
         /\ Cardinality(S \ {l}) = IF l \in S THEN Cardinality(S) - 1 ELSE Cardinality(S)
  <1>1. IsFiniteSet(S) /\ Cardinality(S) <= NumLbas
    BY LbasFinite, FS_Subset
  <1>2. Cardinality(S) \in Nat
    BY <1>1, FS_CardinalityType
  <1>3. Cardinality(S \cup {l}) = IF l \in S THEN Cardinality(S) ELSE Cardinality(S) + 1
    BY <1>1, FS_AddElement
  <1>4. Cardinality(S \ {l}) = IF l \in S THEN Cardinality(S) - 1 ELSE Cardinality(S)
    BY <1>1, FS_RemoveElement
  <1>. QED
    BY <1>1, <1>2, <1>3, <1>4

\* There are as many data blocks as logical blocks that have one, and as many
\* log blocks as entries of log_map.
DataSet(s) == {DataBlock(s, l) : l \in Mapped(s)}
LogSet(s) == {LogBlock(s, l) : l \in DOMAIN s.log_map}

LEMMA OwnerCounts ==
  ASSUME NEW s \in Tables, OwnersDistinct(s)
  PROVE  /\ DataSet(s) \subseteq Blocks /\ IsFiniteSet(DataSet(s))
         /\ Cardinality(DataSet(s)) = Cardinality(Mapped(s))
         /\ LogSet(s) \subseteq Blocks /\ IsFiniteSet(LogSet(s))
         /\ Cardinality(LogSet(s)) = Cardinality(DOMAIN s.log_map)
         /\ DataSet(s) \cap LogSet(s) = {}
         /\ DataSet(s) \cap Available(s) = {}
         /\ LogSet(s) \cap Available(s) = {}
  <1>1. /\ Mapped(s) \subseteq Lbas
        /\ \A l \in Mapped(s) : DataBlock(s, l) \in Own(s, l) /\ DataBlock(s, l) \in Blocks
    BY TablesFacts DEF Mapped, Own
  <1>2. /\ DOMAIN s.log_map \subseteq Lbas
        /\ \A l \in DOMAIN s.log_map : LogBlock(s, l) \in Own(s, l) /\ LogBlock(s, l) \in Blocks
    BY TablesFacts DEF HasLog, Own
  <1>3. \A l, m \in Mapped(s) : DataBlock(s, l) = DataBlock(s, m) => l = m
    BY <1>1 DEF OwnersDistinct
  <1>4. \A l, m \in DOMAIN s.log_map : LogBlock(s, l) = LogBlock(s, m) => l = m
    BY <1>2 DEF OwnersDistinct
  <1>5. \A l \in Mapped(s), m \in DOMAIN s.log_map : DataBlock(s, l) # LogBlock(s, m)
    BY <1>1, <1>2 DEF OwnersDistinct, HasLog
  <1>6. ExistsBijection(Mapped(s), DataSet(s))
    <2>. DEFINE h == [l \in Mapped(s) |-> DataBlock(s, l)]
    <2>1. h \in Bijection(Mapped(s), DataSet(s))
      BY <1>3 DEF DataSet, Bijection, Injection, Surjection, IsInjective
    <2>. QED
      BY <2>1 DEF ExistsBijection
  <1>7. ExistsBijection(DOMAIN s.log_map, LogSet(s))
    <2>. DEFINE h == [l \in DOMAIN s.log_map |-> LogBlock(s, l)]
    <2>1. h \in Bijection(DOMAIN s.log_map, LogSet(s))
      BY <1>4 DEF LogSet, Bijection, Injection, Surjection, IsInjective
    <2>. QED
      BY <2>1 DEF ExistsBijection
  <1>8. IsFiniteSet(Mapped(s)) /\ IsFiniteSet(DOMAIN s.log_map)
    BY <1>1, <1>2, LbaCount
  <1>9. /\ IsFiniteSet(DataSet(s)) /\ Cardinality(DataSet(s)) = Cardinality(Mapped(s))
        /\ IsFiniteSet(LogSet(s)) /\ Cardinality(LogSet(s)) = Cardinality(DOMAIN s.log_map)
    BY <1>6, <1>7, <1>8, FS_Bijection
  <1>. QED
    BY <1>1, <1>2, <1>5, <1>9 DEF DataSet, LogSet, OwnersDistinct

\* A device with a block more than it can need always has one to hand out.
LargeEnough == NUMBER_OF_ADDRESSABLE_BLOCKS > NumLbas + BAST_LOG_BLOCK_LIMIT

LEMMA BlockLeft ==
  ASSUME NEW s, Sound(s)
  PROVE  /\ LargeEnough => Available(s) # {}
         /\ ~LogBlockRefused(s.bm)
  <1>1. /\ s \in Tables /\ OwnersDistinct(s) /\ AllOwned(s) /\ Counted(s)
    BY DEF Sound
  <1>2. /\ Cardinality(Mapped(s)) \in Nat /\ Cardinality(Mapped(s)) <= NumLbas
        /\ Cardinality(DOMAIN s.log_map) \in Nat
    BY <1>1, LbaCount, TablesFacts DEF Mapped
  <1>3. /\ DataSet(s) \subseteq Blocks /\ IsFiniteSet(DataSet(s))
        /\ Cardinality(DataSet(s)) = Cardinality(Mapped(s))
        /\ LogSet(s) \subseteq Blocks /\ IsFiniteSet(LogSet(s))
        /\ Cardinality(LogSet(s)) = Cardinality(DOMAIN s.log_map)
        /\ DataSet(s) \cap LogSet(s) = {}
    BY <1>1, OwnerCounts
  <1>4. ~LogBlockRefused(s.bm)
    <2>1. Cardinality(LogSet(s)) <= NUMBER_OF_ADDRESSABLE_BLOCKS
      BY <1>3, BlocksFinite, FS_Subset
    <2>2. s.bm.log_active = Cardinality(DOMAIN s.log_map)
      BY <1>1 DEF Counted
    <2>. QED
      BY <1>2, <1>3, <2>1, <2>2, BastAssumption, GeometryAssumption DEF LogBlockRefused
  <1>5. ASSUME LargeEnough, Available(s) = {}
        PROVE  FALSE
    <2>1. Blocks = DataSet(s) \cup LogSet(s)
      <3>1. \A b \in Blocks : b \in DataSet(s) \cup LogSet(s)
        BY <1>1, <1>5 DEF AllOwned, Own, DataSet, LogSet, Mapped, HasLog
      <3>. QED
        BY <1>3, <3>1
    <2>2. Cardinality(Blocks) = Cardinality(DataSet(s)) + Cardinality(LogSet(s))
      BY <1>3, <2>1, DisjointUnion
    <2>3. Cardinality(DOMAIN s.log_map) <= BAST_LOG_BLOCK_LIMIT
      BY <1>1 DEF Counted
    <2>. QED
      BY <1>2, <1>3, <1>5, <2>2, <2>3, BlocksFinite, BastAssumption, GeometryAssumption
         DEF LargeEnough
  <1>. QED
    BY <1>4, <1>5

---------------------------------------------------------------------------
(* A step that concerns one logical block: what the others see and own     *)
(* stays, and the blocks that are free or its own are the same as before.  *)

LEMMA SoundUpdate ==
  ASSUME NEW s, Sound(s), NEW t \in Tables, Alive(t), NEW l \in Lbas,
         FlashSound(t.flash), ManagerSound(t.bm),
         \A m \in Lbas : m # l => SameView(s, t, m),
         Available(t) \cup Own(t, l) = Available(s) \cup Own(s, l),
         Available(t) \cap Own(t, l) = {},
         HasLog(t, l) => DataBlock(t, l) # LogBlock(t, l) /\ LogSound(t, l),
         t.bm.data_active + (IF HasData(s, l) THEN 1 ELSE 0)
           = s.bm.data_active + (IF HasData(t, l) THEN 1 ELSE 0),
         t.bm.log_active + (IF HasLog(s, l) THEN 1 ELSE 0)
           = s.bm.log_active + (IF HasLog(t, l) THEN 1 ELSE 0),
         HasLog(t, l) /\ ~HasLog(s, l) => Cardinality(DOMAIN s.log_map) < BAST_LOG_BLOCK_LIMIT,
         \A b \in Available(t) : Erased(t.flash, b)
  PROVE  /\ Sound(t)
         /\ \A m \in Lbas : m # l => \A i \in Offsets : Content(t, m, i) = Content(s, m, i)
  <1>1. /\ s \in Tables /\ OwnersDistinct(s) /\ AllOwned(s) /\ Counted(s)
        /\ \A m \in Lbas : HasLog(s, m) => LogSound(s, m)
    BY DEF Sound
  <1>2. \A m \in Lbas : m # l =>
          /\ HasData(t, m) <=> HasData(s, m)
          /\ HasLog(t, m) <=> HasLog(s, m)
          /\ DataBlock(t, m) = DataBlock(s, m)
          /\ HasLog(s, m) => LogBlock(t, m) = LogBlock(s, m)
          /\ HasLog(s, m) /\ LogSound(s, m) => LogSound(t, m)
          /\ \A i \in Offsets : Content(t, m, i) = Content(s, m, i)
    BY <1>1, SameViewKeeps DEF SameView
  <1>3. \A m \in Lbas : m # l => Own(t, m) = Own(s, m)
    BY <1>2 DEF Own
  <1>4. OwnersDistinct(t)
    <2>1. \A m \in Lbas : m # l => Own(t, m) \cap (Available(t) \cup Own(t, l)) = {}
      BY <1>1, <1>3 DEF OwnersDistinct
    <2>2. \A m, n \in Lbas : m # n => Own(t, m) \cap Own(t, n) = {}
      BY <1>1, <1>3, <2>1 DEF OwnersDistinct
    <2>3. \A m \in Lbas : HasLog(t, m) => DataBlock(t, m) # LogBlock(t, m)
      BY <1>1, <1>2 DEF OwnersDistinct
    <2>. QED
      BY <2>1, <2>2, <2>3 DEF OwnersDistinct
  <1>5. AllOwned(t)
    <2>. SUFFICES ASSUME NEW b \in Blocks
                  PROVE  b \in Available(t) \/ \E m \in Lbas : b \in Own(t, m)
      BY DEF AllOwned
    <2>1. CASE b \in Available(s) \cup Own(s, l)
      BY <2>1
    <2>2. CASE b \notin Available(s) \cup Own(s, l)
      <3>1. PICK m \in Lbas : b \in Own(s, m)
        BY <1>1, <2>2 DEF AllOwned
      <3>. QED
        BY <1>3, <2>2, <3>1
    <2>. QED
      BY <2>1, <2>2
  <1>6. Counted(t)
    <2>1. Mapped(t) = IF HasData(t, l) THEN Mapped(s) \cup {l} ELSE Mapped(s) \ {l}
      BY <1>2 DEF Mapped
    <2>2. DOMAIN t.log_map = IF HasLog(t, l) THEN DOMAIN s.log_map \cup {l}
                                             ELSE DOMAIN s.log_map \ {l}
      BY <1>1, <1>2, TablesFacts DEF HasLog
    <2>3. Mapped(s) \in SUBSET Lbas /\ DOMAIN s.log_map \in SUBSET Lbas
      BY <1>1, TablesFacts DEF Mapped
    <2>4. /\ l \in Mapped(s) <=> HasData(s, l)
          /\ l \in DOMAIN s.log_map <=> HasLog(s, l)
      BY DEF Mapped, HasLog
    <2>5. /\ Cardinality(Mapped(s)) \in Nat
          /\ Cardinality(Mapped(s) \cup {l})
               = IF l \in Mapped(s) THEN Cardinality(Mapped(s)) ELSE Cardinality(Mapped(s)) + 1
          /\ Cardinality(Mapped(s) \ {l})
               = IF l \in Mapped(s) THEN Cardinality(Mapped(s)) - 1 ELSE Cardinality(Mapped(s))
      BY <2>3, LbaCount
    <2>6. /\ Cardinality(DOMAIN s.log_map) \in Nat
          /\ Cardinality(DOMAIN s.log_map \cup {l})
               = IF l \in DOMAIN s.log_map THEN Cardinality(DOMAIN s.log_map)
                                            ELSE Cardinality(DOMAIN s.log_map) + 1
          /\ Cardinality(DOMAIN s.log_map \ {l})
               = IF l \in DOMAIN s.log_map THEN Cardinality(DOMAIN s.log_map) - 1
                                            ELSE Cardinality(DOMAIN s.log_map)
      BY <2>3, LbaCount
    <2>7. /\ t.bm.data_active \in Int /\ t.bm.log_active \in Int
          /\ s.bm.data_active = Cardinality(Mapped(s))
          /\ s.bm.log_active = Cardinality(DOMAIN s.log_map)
          /\ Cardinality(DOMAIN s.log_map) <= BAST_LOG_BLOCK_LIMIT
      BY <1>1, TablesFacts DEF Counted, BlockManagerType
    <2>8. t.bm.data_active = Cardinality(Mapped(t))
      BY <2>1, <2>4, <2>5, <2>7
    <2>9. t.bm.log_active = Cardinality(DOMAIN t.log_map)
      BY <2>2, <2>4, <2>6, <2>7
    <2>10. Cardinality(DOMAIN t.log_map) <= BAST_LOG_BLOCK_LIMIT
      BY <2>2, <2>4, <2>6, <2>7, BastAssumption
    <2>. QED
      BY <2>8, <2>9, <2>10 DEF Counted
  <1>. QED
    BY <1>1, <1>2, <1>4, <1>5, <1>6 DEF Sound

---------------------------------------------------------------------------
(* How an operator on the tables of a sound state ends, ...                *)

Worn(s) == \E b \in Blocks : s.flash.erases_remaining[b] = 0

\* ... when it fails, ...
FailsSoundly(s, t) ==
  /\ t \in Tables
  /\ \/ t.abort = "erase_failed" /\ Worn(s)
     \/ t.abort = "no_free_block" /\ ~LargeEnough

OutOfRoom(t) == t \in Tables /\ t.abort = "no_free_block" /\ ~LargeEnough

\* ... and when it moves pages and blocks about without the host noticing.
Kept(s, t) == \A m \in Lbas, i \in Offsets : Content(t, m, i) = Content(s, m, i)

\* A block that stays as it was stays erased.
LEMMA StaysErased ==
  ASSUME NEW f, NEW g, NEW b, SameBlock(f, g, b), Erased(f, b)
  PROVE  Erased(g, b)
  BY DEF SameBlock, Erased

\* What sharing flash and tables with another record leaves of it.
LEMMA SameViewOf ==
  ASSUME NEW s \in Tables, NEW t \in Tables, NEW m \in Lbas,
         HasLog(t, m) <=> HasLog(s, m),
         HasLog(s, m) => t.log_map[m] = s.log_map[m],
         t.data_list[m] = s.data_list[m],
         \A b \in Own(s, m) : SameBlock(s.flash, t.flash, b)
  PROVE  SameView(s, t, m)
  BY DEF SameView, Own, DataBlock

LEMMA NewLogFacts ==
  ASSUME NEW b \in Blocks
  PROVE  /\ NewLogBlock(b) \in LogPageBlock
         /\ NewLogBlock(b).address = b
         /\ \A i \in Offsets : NewLogBlock(b).pages[i] = NotLogged
  BY DEF NewLogBlock, LogPageBlock

\* get_free_block(LOG) and a new entry of log_map.
LEMMA GiveLogBlockEffect ==
  ASSUME NEW s, Sound(s), NEW l \in Lbas, ~HasLog(s, l),
         Cardinality(DOMAIN s.log_map) < BAST_LOG_BLOCK_LIMIT,
         NEW t, t = GiveLogBlock(s, l)
  PROVE  \/ OutOfRoom(t)
         \/ /\ Sound(t) /\ Kept(s, t)
            /\ t.flash = s.flash
            /\ HasLog(t, l)
            /\ t.flash.pages_valid[LogBlock(t, l)] = 0
            /\ \A i \in Offsets : ~InLog(t, l, i)
  <1>. DEFINE u == TakeBlock(s, "LOG")
              lm == [m \in DOMAIN u.log_map \cup {l} |->
                       IF m = l THEN NewLogBlock(u.taken) ELSE u.log_map[m]]
  <1>1. /\ s \in Tables /\ Alive(s) /\ ManagerSound(s.bm) /\ FlashSound(s.flash)
        /\ OwnersDistinct(s)
        /\ \A b \in Available(s) : Erased(s.flash, b)
    BY DEF Sound
  <1>2. ~LogBlockRefused(s.bm) /\ (LargeEnough => Available(s) # {})
    BY BlockLeft
  <1>3. \/ u \in Tables /\ u.abort = "no_free_block" /\ Available(s) = {}
        \/ /\ u \in Tables /\ Alive(u)
           /\ u.flash = s.flash /\ u.data_list = s.data_list /\ u.log_map = s.log_map
           /\ ManagerSound(u.bm)
           /\ u.taken \in Available(s) /\ u.taken \in Blocks
           /\ Available(u) = Available(s) \ {u.taken}
           /\ u.bm.data_active = s.bm.data_active
           /\ u.bm.log_active = s.bm.log_active + 1
    <2>1. s.bm.data_active \in Int
      BY <1>1, TablesFacts DEF BlockManagerType
    <2>. QED
      BY <1>1, <1>2, <2>1, TakeEffect DEF BlockTypes
  <1>. HIDE DEF u
  <1>4. t = [u EXCEPT !.log_map = IF Alive(u) THEN lm ELSE u.log_map]
    BY DEF GiveLogBlock, u
  <1>5. CASE ~Alive(u)
    <2>1. t = [u EXCEPT !.log_map = u.log_map]
      BY <1>4, <1>5
    <2>2. u \in Tables /\ u.abort = "no_free_block" /\ Available(s) = {}
      BY <1>3, <1>5
    <2>3. t \in Tables /\ t.abort = "no_free_block"
      BY <2>1, <2>2 DEF Tables
    <2>. QED
      BY <1>2, <2>2, <2>3 DEF OutOfRoom
  <1>6. CASE Alive(u)
    <2>. DEFINE b == u.taken
    <2>1. /\ u \in Tables
          /\ u.flash = s.flash /\ u.data_list = s.data_list /\ u.log_map = s.log_map
          /\ ManagerSound(u.bm)
          /\ b \in Available(s) /\ b \in Blocks
          /\ Available(u) = Available(s) \ {b}
          /\ u.bm.data_active = s.bm.data_active
          /\ u.bm.log_active = s.bm.log_active + 1
      BY <1>3, <1>6 DEF Alive
    <2>2. DOMAIN s.log_map \subseteq Lbas /\ s.log_map \in [DOMAIN s.log_map -> LogPageBlock]
      BY <1>1, TablesFacts
    <2>3. /\ DOMAIN lm = DOMAIN s.log_map \cup {l}
          /\ lm[l] = NewLogBlock(b)
          /\ \A m \in DOMAIN s.log_map : lm[m] = s.log_map[m]
      BY <2>1 DEF HasLog
    <2>4. lm \in LogMaps
      <3>1. lm \in [DOMAIN lm -> LogPageBlock]
        BY <2>1, <2>2, <2>3, NewLogFacts
      <3>2. DOMAIN lm \subseteq Lbas
        BY <2>2, <2>3
      <3>. QED
        BY <3>1, <3>2, LogMapFacts
    <2>. HIDE DEF lm
    <2>5. /\ t \in Tables /\ Alive(t) /\ t.flash = s.flash /\ t.data_list = s.data_list
          /\ t.log_map = lm /\ t.bm = u.bm
      BY <1>4, <1>6, <2>1, <2>4 DEF Tables, Alive
    <2>6. /\ HasLog(t, l) /\ LogBlock(t, l) = b
          /\ \A i \in Offsets : ~InLog(t, l, i)
      BY <2>1, <2>3, <2>5, NewLogFacts DEF HasLog, LogBlock, InLog
    <2>7. Erased(t.flash, b)
      BY <1>1, <2>1, <2>5
    <2>8. \A m \in Lbas : m # l => SameView(s, t, m)
      BY <2>3, <2>5 DEF SameView, SameBlock, HasLog, DataBlock
    <2>9. /\ HasData(t, l) <=> HasData(s, l)
          /\ DataBlock(t, l) = DataBlock(s, l)
      BY <2>5 DEF HasData, DataBlock
    <2>10. Available(t) = Available(s) \ {b}
      BY <2>1, <2>5 DEF Available
    <2>11. Own(t, l) = Own(s, l) \cup {b} /\ Own(s, l) \cap Available(s) = {}
      BY <1>1, <2>6, <2>9 DEF Own, OwnersDistinct
    <2>12. DataBlock(t, l) # LogBlock(t, l)
      <3>1. HasData(s, l) => DataBlock(s, l) \in Own(s, l)
        BY DEF Own
      <3>2. ~HasData(s, l) => DataBlock(s, l) \notin Blocks
        BY DEF HasData, DataBlock, NoBlock, Blocks
      <3>. QED
        BY <2>1, <2>6, <2>9, <2>11, <3>1, <3>2
    <2>13. LogSound(t, l)
      <3>1. /\ t.flash.pages_valid[b] = 0
            /\ \A i \in Offsets : t.flash.page[<<b, i>>] = "EMPTY"
        BY <2>7 DEF Erased
      <3>2. \A i \in Offsets : i >= 0
        BY DEF Offsets
      <3>. QED
        BY <2>6, <3>1, <3>2, GeometryAssumption DEF LogSound
    <2>14. /\ s.bm.data_active \in Int /\ s.bm.log_active \in Int
      BY <1>1, TablesFacts DEF BlockManagerType
    <2>15. Sound(t) /\ \A m \in Lbas : m # l => \A i \in Offsets : Content(t, m, i) = Content(s, m, i)
      <3>1. FlashSound(t.flash) /\ ManagerSound(t.bm)
        BY <1>1, <2>1, <2>5
      <3>2. Available(t) \cup Own(t, l) = Available(s) \cup Own(s, l)
        BY <2>1, <2>10, <2>11
      <3>3. Available(t) \cap Own(t, l) = {}
        BY <2>10, <2>11
      <3>4. t.bm.data_active + (IF HasData(s, l) THEN 1 ELSE 0)
              = s.bm.data_active + (IF HasData(t, l) THEN 1 ELSE 0)
        BY <2>1, <2>5, <2>9, <2>14
      <3>5. t.bm.log_active + (IF HasLog(s, l) THEN 1 ELSE 0)
              = s.bm.log_active + (IF HasLog(t, l) THEN 1 ELSE 0)
        BY <2>1, <2>5, <2>6, <2>14
      <3>6. \A c \in Available(t) : Erased(t.flash, c)
        BY <1>1, <2>5, <2>10
      <3>. QED
        BY <2>5, <2>8, <2>12, <2>13, <3>1, <3>2, <3>3, <3>4, <3>5, <3>6, SoundUpdate
    <2>16. \A i \in Offsets : Content(t, l, i) = Content(s, l, i)
      <3>1. \A i \in Offsets : ~InLog(s, l, i)
        BY DEF InLog
      <3>. QED
        BY <2>5, <2>6, <2>9, <3>1 DEF Content, MergeSource, DataPage
    <2>. QED
      BY <2>5, <2>6, <2>7, <2>15, <2>16 DEF Kept, Erased
  <1>. QED
    BY <1>5, <1>6

---------------------------------------------------------------------------
(* Making room: the log block of a logical block goes.                     *)

LEMMA PromoteEffect ==
  ASSUME NEW m \in BlockManagerType, ManagerSound(m), NEW p, p = PromoteBlock(m, "DATA")
  PROVE  /\ p \in BlockManagerType
         /\ p.fresh = m.fresh
         /\ p.free_list = m.free_list
         /\ ManagerSound(p)
         /\ p.data_active = m.data_active + 1
         /\ p.log_active = m.log_active - 1
  <1>. DEFINE a == CountActive(m, "DATA", 1)
  <1>1. /\ a \in BlockManagerType
        /\ a.fresh = m.fresh
        /\ a.free_list = m.free_list
        /\ a.invalid_list = m.invalid_list
        /\ a.out_of_blocks = m.out_of_blocks
        /\ a.data_active = m.data_active + 1
        /\ a.log_active = m.log_active + 0
    BY CountActiveEffect DEF BlockTypes
  <1>. HIDE DEF a
  <1>2. p = CountActive(a, "LOG", -1)
    BY DEF PromoteBlock, a
  <1>3. -1 \in Int /\ "LOG" \in BlockTypes
    BY DEF BlockTypes
  <1>4. /\ p \in BlockManagerType
        /\ p.fresh = a.fresh
        /\ p.free_list = a.free_list
        /\ p.invalid_list = a.invalid_list
        /\ p.out_of_blocks = a.out_of_blocks
        /\ p.data_active = a.data_active + 0
        /\ p.log_active = a.log_active + -1
    BY <1>1, <1>2, <1>3, CountActiveEffect, SMTT(30)
  <1>5. /\ m.data_active \in Int /\ m.log_active \in Int
        /\ p.data_active \in Int /\ p.log_active \in Int
        /\ a.data_active \in Int /\ a.log_active \in Int
    BY <1>1, <1>4 DEF BlockManagerType
  <1>6. ManagerSound(p)
    BY <1>1, <1>4 DEF ManagerSound, ListsSound
  <1>. QED
    BY <1>1, <1>4, <1>5, <1>6

LEMMA DisposeLogEffect ==
  ASSUME NEW s \in Tables, NEW l \in Lbas, NEW t, t = dispose_logblock(s, l)
  PROVE  /\ t \in Tables
         /\ t.flash = s.flash /\ t.bm = s.bm /\ t.taken = s.taken /\ t.abort = s.abort
         /\ t.data_list = s.data_list
         /\ DOMAIN t.log_map = DOMAIN s.log_map \ {l}
         /\ \A m \in DOMAIN s.log_map : m # l => t.log_map[m] = s.log_map[m]
  <1>. DEFINE lm == [m \in DOMAIN s.log_map \ {l} |-> s.log_map[m]]
  <1>1. /\ DOMAIN s.log_map \subseteq Lbas
        /\ s.log_map \in [DOMAIN s.log_map -> LogPageBlock]
    BY TablesFacts
  <1>2. lm \in LogMaps
    <2>1. lm \in [DOMAIN lm -> LogPageBlock] /\ DOMAIN lm \subseteq Lbas
      BY <1>1
    <2>. QED
      BY <2>1, LogMapFacts
  <1>3. t = [s EXCEPT !.log_map = lm]
    BY DEF dispose_logblock
  <1>4. /\ DOMAIN lm = DOMAIN s.log_map \ {l}
        /\ \A m \in DOMAIN s.log_map : m # l => lm[m] = s.log_map[m]
    OBVIOUS
  <1>. HIDE DEF lm
  <1>5. /\ t \in Tables /\ t.flash = s.flash /\ t.bm = s.bm /\ t.taken = s.taken
        /\ t.abort = s.abort /\ t.log_map = lm /\ t.data_list = s.data_list
    BY <1>2, <1>3 DEF Tables
  <1>. QED
    BY <1>4, <1>5

\* A record whose data block for l is set to b, ...
Remapped(s, l, b) == [s EXCEPT !.data_list = [s.data_list EXCEPT ![l] = b]]

LEMMA RemappedEffect ==
  ASSUME NEW s \in Tables, NEW l \in Lbas, NEW b \in Blocks \cup {NoBlock},
         NEW t, t = Remapped(s, l, b)
  PROVE  /\ t \in Tables
         /\ t.flash = s.flash /\ t.bm = s.bm /\ t.taken = s.taken /\ t.abort = s.abort
         /\ t.log_map = s.log_map
         /\ t.data_list[l] = b
         /\ \A m \in Lbas : m # l => t.data_list[m] = s.data_list[m]
  <1>. DEFINE dl == [s.data_list EXCEPT ![l] = b]
  <1>1. s.data_list \in [Lbas -> Blocks \cup {NoBlock}]
    BY TablesFacts
  <1>2. /\ dl \in [Lbas -> Blocks \cup {NoBlock}]
        /\ dl[l] = b /\ \A m \in Lbas : m # l => dl[m] = s.data_list[m]
    BY <1>1
  <1>3. t = [s EXCEPT !.data_list = dl]
    BY DEF Remapped
  <1>. HIDE DEF dl
  <1>4. /\ t \in Tables /\ t.flash = s.flash /\ t.bm = s.bm /\ t.taken = s.taken
        /\ t.abort = s.abort /\ t.log_map = s.log_map /\ t.data_list = dl
    BY <1>2, <1>3 DEF Tables
  <1>. QED
    BY <1>2, <1>4

\* ... and its log block is disposed of.
Disposed(s, l, b) == dispose_logblock(Remapped(s, l, b), l)

LEMMA DisposeEffect ==
  ASSUME NEW s \in Tables, NEW l \in Lbas, NEW b \in Blocks \cup {NoBlock},
         NEW t, t = Disposed(s, l, b)
  PROVE  /\ t \in Tables
         /\ t.flash = s.flash /\ t.bm = s.bm /\ t.taken = s.taken /\ t.abort = s.abort
         /\ t.data_list[l] = b
         /\ \A m \in Lbas : m # l => t.data_list[m] = s.data_list[m]
         /\ DOMAIN t.log_map = DOMAIN s.log_map \ {l}
         /\ \A m \in DOMAIN s.log_map : m # l => t.log_map[m] = s.log_map[m]
  <1>. DEFINE r == Remapped(s, l, b)
  <1>1. /\ r \in Tables
        /\ r.flash = s.flash /\ r.bm = s.bm /\ r.taken = s.taken /\ r.abort = s.abort
        /\ r.log_map = s.log_map
        /\ r.data_list[l] = b
        /\ \A m \in Lbas : m # l => r.data_list[m] = s.data_list[m]
    BY RemappedEffect
  <1>2. t = dispose_logblock(r, l)
    BY DEF Disposed
  <1>. HIDE DEF r
  <1>3. /\ t \in Tables
        /\ t.flash = r.flash /\ t.bm = r.bm /\ t.taken = r.taken /\ t.abort = r.abort
        /\ t.data_list = r.data_list
        /\ DOMAIN t.log_map = DOMAIN r.log_map \ {l}
        /\ \A m \in DOMAIN r.log_map : m # l => t.log_map[m] = r.log_map[m]
    BY <1>1, <1>2, DisposeLogEffect
  <1>. QED
    BY <1>1, <1>3

\* How switch and random_merge end when nothing fails: block b, the old log
\* block or a free one, is the data block of l; everything else it had is free.
\* Hypotheses are about t only, but for the pages of b.
LEMMA ReclaimUpdate ==
  ASSUME NEW s, Sound(s), NEW l \in Lbas, HasLog(s, l), NEW b \in Blocks,
         NEW t \in Tables, Alive(t), FlashSound(t.flash), ManagerSound(t.bm),
         b \in Available(s) \/ b = LogBlock(s, l),
         t.data_list[l] = b, \A m \in Lbas : m # l => t.data_list[m] = s.data_list[m],
         DOMAIN t.log_map = DOMAIN s.log_map \ {l},
         \A m \in DOMAIN s.log_map : m # l => t.log_map[m] = s.log_map[m],
         Available(t) = (Available(s) \cup Own(s, l)) \ {b},
         t.bm.data_active = s.bm.data_active + (IF HasData(s, l) THEN 0 ELSE 1),
         t.bm.log_active = s.bm.log_active - 1,
         \A c \in Own(s, l) : c # b => Erased(t.flash, c),
         \A c \in Blocks : c # b /\ c \notin Own(s, l) => SameBlock(s.flash, t.flash, c),
         \A i \in Offsets :
           IF MergeSource(s, l, i) = NoPpn
             THEN t.flash.page[<<b, i>>] # "VALID"
             ELSE /\ t.flash.page[<<b, i>>] = "VALID"
                  /\ t.flash.data[<<b, i>>] = s.flash.data[MergeSource(s, l, i)]
  PROVE  Sound(t) /\ Kept(s, t)
  <1>1. /\ s \in Tables /\ Alive(s) /\ OwnersDistinct(s)
        /\ \A c \in Available(s) : Erased(s.flash, c)
    BY DEF Sound
  <1>2. /\ s.data_list \in [Lbas -> Blocks \cup {NoBlock}]
        /\ DOMAIN s.log_map \subseteq Lbas
        /\ \A m \in Lbas : Own(s, m) \subseteq Blocks
    BY <1>1, TablesFacts DEF Own
  <1>3. /\ t.data_list[l] = b
        /\ \A m \in Lbas : m # l => t.data_list[m] = s.data_list[m]
    OBVIOUS
  <1>4. b # NoBlock
    BY DEF Blocks, NoBlock
  <1>5. HasData(t, l) /\ ~HasLog(t, l) /\ Own(t, l) = {b}
    BY <1>3, <1>4 DEF HasData, HasLog, Own, DataBlock
  <1>6. b \notin UNION {Own(s, m) : m \in Lbas \ {l}}
    <2>1. b = LogBlock(s, l) => b \in Own(s, l)
      BY DEF Own
    <2>. QED
      BY <1>1, <2>1 DEF OwnersDistinct
  <1>7. ASSUME NEW m \in Lbas, m # l
        PROVE  SameView(s, t, m)
    <2>1. \A c \in Own(s, m) : c \in Blocks /\ c # b /\ c \notin Own(s, l)
      BY <1>1, <1>2, <1>6, <1>7 DEF OwnersDistinct
    <2>2. \A c \in Own(s, m) : SameBlock(s.flash, t.flash, c)
      BY <2>1
    <2>3. (HasLog(t, m) <=> HasLog(s, m)) /\ (HasLog(s, m) => t.log_map[m] = s.log_map[m])
      BY <1>7 DEF HasLog
    <2>. QED
      BY <1>1, <1>3, <1>7, <2>2, <2>3, SameViewOf
  <1>8. Available(t) \cup Own(t, l) = Available(s) \cup Own(s, l)
    <2>1. LogBlock(s, l) \in Own(s, l)
      BY DEF Own
    <2>. QED
      BY <1>5, <2>1
  <1>9. Available(t) \cap Own(t, l) = {}
    BY <1>5
  <1>10. \A c \in Available(t) : Erased(t.flash, c)
    <2>. SUFFICES ASSUME NEW c \in Available(t)
                  PROVE  Erased(t.flash, c)
      OBVIOUS
    <2>1. c # b /\ (c \in Available(s) \/ c \in Own(s, l))
      OBVIOUS
    <2>2. ASSUME c \notin Own(s, l)
          PROVE  Erased(t.flash, c)
      <3>1. c \in Blocks
        BY <1>1, <2>1, <2>2, TablesFacts, ListMembers DEF Available, BlockManagerType
      <3>. QED
        BY <1>1, <2>1, <2>2, <3>1, StaysErased
    <2>. QED
      BY <2>1, <2>2
  <1>11. /\ s.bm.data_active \in Int /\ s.bm.log_active \in Int
    BY <1>1, TablesFacts DEF BlockManagerType
  <1>12. /\ t.bm.data_active + (IF HasData(s, l) THEN 1 ELSE 0)
             = s.bm.data_active + (IF HasData(t, l) THEN 1 ELSE 0)
         /\ t.bm.log_active + (IF HasLog(s, l) THEN 1 ELSE 0)
             = s.bm.log_active + (IF HasLog(t, l) THEN 1 ELSE 0)
    BY <1>5, <1>11
  <1>13. Sound(t) /\ \A m \in Lbas : m # l => \A i \in Offsets : Content(t, m, i) = Content(s, m, i)
    BY <1>5, <1>7, <1>8, <1>9, <1>10, <1>12, SoundUpdate
  <1>14. ASSUME NEW i \in Offsets
         PROVE  Content(t, l, i) = Content(s, l, i)
    <2>1. Place(t, l, i) = <<b, i>>
      BY <1>3, <1>5 DEF Place, InLog, DataPage
    <2>2. <<b, i>> \in Ppns
      BY DEF Ppns
    <2>3. MergeSource(t, l, i) = IF t.flash.page[<<b, i>>] = "VALID" THEN <<b, i>> ELSE NoPpn
      BY <2>1, <2>2, PlaceFacts, NoPpnNotPage
    <2>. QED
      BY <2>2, <2>3, NoPpnNotPage DEF Content
  <1>. QED
    BY <1>13, <1>14 DEF Kept

\* What reclaiming the log block of l leaves.
LogReclaimed(s, t, l) ==
  /\ Sound(t) /\ Kept(s, t)
  /\ DOMAIN t.log_map = DOMAIN s.log_map \ {l}

\* Facts of a logical block with a log block.
LEMMA LogBlockFacts ==
  ASSUME NEW s, Sound(s), NEW l \in Lbas, HasLog(s, l)
  PROVE  /\ LogBlock(s, l) \in Blocks
         /\ LogBlock(s, l) \notin Available(s)
         /\ LogBlock(s, l) # DataBlock(s, l)
         /\ HasData(s, l) => /\ DataBlock(s, l) \in Blocks
                             /\ DataBlock(s, l) \notin Available(s)
         /\ Own(s, l) = IF HasData(s, l) THEN {DataBlock(s, l), LogBlock(s, l)}
                                         ELSE {LogBlock(s, l)}
         /\ LogSound(s, l)
  <1>1. s \in Tables /\ OwnersDistinct(s) /\ LogSound(s, l)
    BY DEF Sound
  <1>2. /\ LogBlock(s, l) \in Own(s, l)
        /\ HasData(s, l) => DataBlock(s, l) \in Own(s, l)
    BY DEF Own
  <1>3. Own(s, l) \cap Available(s) = {} /\ DataBlock(s, l) # LogBlock(s, l)
    BY <1>1 DEF OwnersDistinct
  <1>. QED
    BY <1>1, <1>2, <1>3, TablesFacts DEF Own

\* is_sequential: the log block becomes the data block.
LEMMA SwitchEffect ==
  ASSUME NEW s, Sound(s), NEW l \in Lbas, HasLog(s, l), IsSequential(s, l),
         NEW t, t = switch(s, l)
  PROVE  FailsSoundly(s, t) \/ LogReclaimed(s, t, l)
  <1>. DEFINE p == [s EXCEPT !.bm = PromoteBlock(s.bm, "DATA")]
              d == DataBlock(s, l)
              a == LogBlock(s, l)
              u == IF HasData(s, l) THEN EraseBlock(p, d, "DATA") ELSE p
  <1>1. /\ s \in Tables /\ Alive(s) /\ ManagerSound(s.bm) /\ FlashSound(s.flash)
        /\ s.bm \in BlockManagerType
        /\ s.bm.data_active \in Int /\ s.bm.log_active \in Int
    BY TablesFacts DEF Sound, BlockManagerType
  <1>2. /\ a \in Blocks /\ a \notin Available(s) /\ a # d
        /\ HasData(s, l) => d \in Blocks /\ d \notin Available(s)
        /\ Own(s, l) = IF HasData(s, l) THEN {d, a} ELSE {a}
        /\ LogSound(s, l)
    BY LogBlockFacts
  <1>. DEFINE pb == PromoteBlock(s.bm, "DATA")
  <1>3. /\ pb \in BlockManagerType /\ ManagerSound(pb)
        /\ pb.fresh = s.bm.fresh /\ pb.free_list = s.bm.free_list
        /\ pb.data_active = s.bm.data_active + 1
        /\ pb.log_active = s.bm.log_active - 1
    BY <1>1, PromoteEffect
  <1>. HIDE DEF pb
  <1>4. /\ p \in Tables /\ Alive(p) /\ p.flash = s.flash /\ p.bm = pb
        /\ p.data_list = s.data_list /\ p.log_map = s.log_map
    BY <1>1, <1>3 DEF Tables, Alive, pb
  <1>5. Available(p) = Available(s)
    BY <1>3, <1>4 DEF Available
  <1>. HIDE DEF p, d, a
  <1>6. t = Disposed(u, l, a)
    BY DEF switch, Disposed, Remapped, u, p, d, a, DataBlock, LogBlock
  <1>7. CASE HasData(s, l) /\ ~CanErase(s.flash, d)
    <2>1. u \in Tables /\ u.abort = "erase_failed" /\ s.flash.erases_remaining[d] = 0
      BY <1>1, <1>2, <1>3, <1>4, <1>5, <1>7, EraseBlockEffect DEF BlockTypes
    <2>. HIDE DEF u
    <2>2. a \in Blocks \cup {NoBlock} /\ u \in Tables
      BY <1>2, <2>1
    <2>3. t \in Tables /\ t.abort = u.abort
      BY <1>6, <2>2, DisposeEffect
    <2>. QED
      BY <1>2, <1>7, <2>1, <2>3 DEF FailsSoundly, Worn
  <1>8. CASE ~(HasData(s, l) /\ ~CanErase(s.flash, d))
    <2>1. /\ u \in Tables /\ Alive(u) /\ ManagerSound(u.bm) /\ FlashSound(u.flash)
          /\ u.data_list = s.data_list /\ u.log_map = s.log_map
          /\ Available(u) = (Available(s) \cup Own(s, l)) \ {a}
          /\ u.bm.data_active = s.bm.data_active + (IF HasData(s, l) THEN 0 ELSE 1)
          /\ u.bm.log_active = s.bm.log_active - 1
          /\ HasData(s, l) => Erased(u.flash, d)
          /\ \A c \in Blocks : ~(HasData(s, l) /\ c = d) => SameBlock(s.flash, u.flash, c)
      <3>1. CASE HasData(s, l)
        <4>0. u = EraseBlock(p, d, "DATA") /\ CanErase(p.flash, d) /\ d \in Blocks
              /\ d \notin Available(p)
          BY <1>2, <1>4, <1>5, <1>8, <3>1
        <4>. HIDE DEF u
        <4>1. /\ u \in Tables /\ Alive(u) /\ FlashSound(u.flash) /\ Erased(u.flash, d)
              /\ \A c \in Blocks : c # d => SameBlock(p.flash, u.flash, c)
              /\ u.data_list = s.data_list /\ u.log_map = s.log_map
              /\ ManagerSound(u.bm)
              /\ Available(u) = Available(s) \cup {d}
              /\ u.bm.data_active = pb.data_active - 1
              /\ u.bm.log_active = pb.log_active - 0
          BY <1>1, <1>3, <1>4, <1>5, <4>0, EraseBlockEffect DEF BlockTypes
        <4>3. Available(u) = (Available(s) \cup Own(s, l)) \ {a}
          BY <1>2, <3>1, <4>1
        <4>4. /\ u.bm.data_active = s.bm.data_active
              /\ u.bm.log_active = s.bm.log_active - 1
          BY <1>1, <1>3, <4>1
        <4>. QED
          BY <1>1, <1>4, <3>1, <4>1, <4>3, <4>4
      <3>2. CASE ~HasData(s, l)
        <4>1. u = p
          BY <3>2
        <4>. HIDE DEF u
        <4>2. Available(u) = (Available(s) \cup Own(s, l)) \ {a}
          BY <1>2, <1>5, <3>2, <4>1
        <4>. QED
          BY <1>1, <1>3, <1>4, <3>2, <4>1, <4>2 DEF SameBlock
      <3>. QED
        BY <3>1, <3>2
    <2>. HIDE DEF u
    <2>2. /\ t \in Tables /\ Alive(t)
          /\ t.flash = u.flash /\ t.bm = u.bm
          /\ t.data_list[l] = a
          /\ \A m \in Lbas : m # l => t.data_list[m] = s.data_list[m]
          /\ DOMAIN t.log_map = DOMAIN s.log_map \ {l}
          /\ \A m \in DOMAIN s.log_map : m # l => t.log_map[m] = s.log_map[m]
      BY <1>2, <1>6, <2>1, DisposeEffect DEF Alive
    <2>3. Available(t) = (Available(s) \cup Own(s, l)) \ {a}
      BY <2>1, <2>2 DEF Available
    <2>4. ASSUME NEW i \in Offsets
          PROVE  /\ MergeSource(s, l, i) = <<a, i>> /\ MergeSource(s, l, i) # NoPpn
                 /\ t.flash.page[<<a, i>>] = "VALID"
                 /\ t.flash.data[<<a, i>>] = s.flash.data[<<a, i>>]
      <3>1. InLog(s, l, i) /\ LogPage(s, l, i) = <<a, i>>
        BY DEF IsSequential, InLog, NotLogged, Offsets, LogPage, LogBlock, a
      <3>2. s.flash.page[<<a, i>>] = "VALID"
        BY <1>2, <3>1 DEF LogSound
      <3>3. <<a, i>> \in Ppns
        BY <1>2 DEF Ppns
      <3>4. MergeSource(s, l, i) = <<a, i>>
        BY <3>1, <3>2, <3>3, NoPpnNotPage DEF MergeSource
      <3>5. SameBlock(s.flash, t.flash, a)
        BY <1>2, <2>1, <2>2
      <3>. QED
        BY <3>2, <3>3, <3>4, <3>5, NoPpnNotPage DEF SameBlock
    <2>5. \A c \in Own(s, l) : c # a => Erased(t.flash, c)
      BY <1>2, <2>1, <2>2
    <2>6. \A c \in Blocks : c # a /\ c \notin Own(s, l) => SameBlock(s.flash, t.flash, c)
      BY <1>2, <2>1, <2>2
    <2>7. a = LogBlock(s, l)
      BY DEF a
    <2>8. /\ FlashSound(t.flash) /\ ManagerSound(t.bm)
          /\ t.bm.data_active = s.bm.data_active + (IF HasData(s, l) THEN 0 ELSE 1)
          /\ t.bm.log_active = s.bm.log_active - 1
      BY <2>1, <2>2
    <2>9. \A i \in Offsets :
            IF MergeSource(s, l, i) = NoPpn
              THEN t.flash.page[<<a, i>>] # "VALID"
              ELSE /\ t.flash.page[<<a, i>>] = "VALID"
                   /\ t.flash.data[<<a, i>>] = s.flash.data[MergeSource(s, l, i)]
      BY <2>4
    <2>10. Sound(t) /\ Kept(s, t)
      BY <1>2, <2>2, <2>3, <2>5, <2>6, <2>7, <2>8, <2>9, ReclaimUpdate
    <2>. QED
      BY <2>2, <2>10 DEF LogReclaimed
  <1>. QED
    BY <1>7, <1>8

---------------------------------------------------------------------------
(* The loop of random_merge.                                               *)

\* Two offsets of a logical block are never in the same place, nor is one in a
\* block that is neither its log block nor its data block.
LEMMA PlacesDistinct ==
  ASSUME NEW s \in Tables, NEW l \in Lbas, HasLog(s, l), LogSound(s, l),
         DataBlock(s, l) # LogBlock(s, l)
  PROVE  /\ \A i, j \in Offsets :
              Place(s, l, i) = Place(s, l, j) /\ Place(s, l, i) # NoPpn => i = j
         /\ \A i \in Offsets, b \in Blocks :
              b \notin Own(s, l) /\ Place(s, l, i) # NoPpn => Place(s, l, i)[1] # b
  <1>1. ASSUME NEW i \in Offsets, NEW j \in Offsets,
               Place(s, l, i) = Place(s, l, j), Place(s, l, i) # NoPpn
        PROVE  i = j
    <2>1. CASE InLog(s, l, i) /\ InLog(s, l, j)
      BY <1>1, <2>1 DEF Place, LogSound
    <2>2. CASE ~InLog(s, l, i) /\ ~InLog(s, l, j)
      <3>1. HasData(s, l)
        BY <1>1, <2>2 DEF Place
      <3>. QED
        BY <1>1, <2>2, <3>1 DEF Place, DataPage
    <2>3. \A m, n \in Offsets : InLog(s, l, m) /\ ~InLog(s, l, n) => Place(s, l, m) # Place(s, l, n)
      <3>. SUFFICES ASSUME NEW m \in Offsets, NEW n \in Offsets,
                           InLog(s, l, m), ~InLog(s, l, n), Place(s, l, m) = Place(s, l, n)
                    PROVE  FALSE
        OBVIOUS
      <3>1. Place(s, l, m) \in Ppns /\ Place(s, l, m)[1] = LogBlock(s, l)
        BY PlaceFacts DEF Place
      <3>2. HasData(s, l) => Place(s, l, n)[1] = DataBlock(s, l)
        BY PlaceFacts DEF Place
      <3>3. ~HasData(s, l) => Place(s, l, n) = NoPpn
        BY DEF Place
      <3>. QED
        BY <3>1, <3>2, <3>3, NoPpnNotPage
    <2>. QED
      BY <1>1, <2>1, <2>2, <2>3
  <1>2. ASSUME NEW i \in Offsets, NEW b \in Blocks, b \notin Own(s, l), Place(s, l, i) # NoPpn
        PROVE  Place(s, l, i)[1] # b
    BY <1>2, PlaceFacts DEF Own
  <1>. QED
    BY <1>1, <1>2

\* States the loop maps to each other, whatever it is started in.
LoopStates == {u \in Tables : FlashSound(u.flash)}

LEMMA LoopStatesKept ==
  ASSUME NEW u \in LoopStates, NEW l \in Lbas, NEW b \in Blocks, NEW i \in Offsets
  PROVE  MergePage(u, l, b, i) \in LoopStates
  <1>. DEFINE p == MergeSource(u, l, i)
  <1>1. u \in Tables /\ FlashSound(u.flash) /\ u.flash \in FlashType
    BY TablesFacts DEF LoopStates
  <1>2. CASE p = NoPpn \/ ~Alive(u)
    BY <1>2 DEF MergePage, CopyTo, WritePage
  <1>3. CASE p # NoPpn /\ Alive(u) /\ ~CanProgram(u.flash, <<b, i>>)
    <2>1. MergePage(u, l, b, i) = Fails(u, "page_not_empty")
      BY <1>3 DEF MergePage, CopyTo, WritePage
    <2>. QED
      BY <1>1, <2>1 DEF Fails, Tables, LoopStates, Aborts
  <1>4. CASE p # NoPpn /\ Alive(u) /\ CanProgram(u.flash, <<b, i>>)
    <2>. DEFINE g == Replace(Program(u.flash, <<b, i>>, u.flash.data[p]), p)
    <2>1. p \in Ppns /\ u.flash.page[p] = "VALID"
      BY <1>1, <1>4, PlaceFacts
    <2>2. /\ u.flash.data[p] \in Payloads
          /\ <<b, i>> \in Ppns
          /\ u.flash.page[<<b, i>>] = "EMPTY"
          /\ p # <<b, i>>
      BY <1>1, <1>4, <2>1 DEF FlashSound, Ppns, CanProgram
    <2>. HIDE DEF p
    <2>3. FlashSound(g)
      BY <1>1, <2>1, <2>2, ProgramReplaceEffect
    <2>4. MergePage(u, l, b, i) = [u EXCEPT !.flash = g]
      BY <1>4 DEF MergePage, CopyTo, WritePage, p
    <2>. HIDE DEF g
    <2>5. g \in FlashType
      BY <2>3 DEF FlashSound
    <2>. QED
      BY <1>1, <2>3, <2>4, <2>5 DEF Tables, LoopStates
  <1>. QED
    BY <1>2, <1>3, <1>4

\* What n turns of the loop leave, started in s with the free block b.
MergeInv(s, l, b, n, u) ==
  /\ u \in LoopStates
  /\ Alive(u)
  /\ u.bm = s.bm /\ u.data_list = s.data_list /\ u.log_map = s.log_map /\ u.taken = s.taken
  /\ u.flash.erases_remaining = s.flash.erases_remaining
  /\ \A c \in Blocks : c # b /\ c \notin Own(s, l) => SameBlock(s.flash, u.flash, c)
  /\ \A i \in Offsets :
       IF i < n /\ MergeSource(s, l, i) # NoPpn
         THEN /\ u.flash.page[<<b, i>>] = "VALID"
              /\ u.flash.data[<<b, i>>] = s.flash.data[MergeSource(s, l, i)]
         ELSE u.flash.page[<<b, i>>] = "EMPTY"
  /\ \A i \in Offsets : i >= n /\ Place(s, l, i) # NoPpn =>
       /\ u.flash.page[Place(s, l, i)] = s.flash.page[Place(s, l, i)]
       /\ u.flash.data[Place(s, l, i)] = s.flash.data[Place(s, l, i)]

LEMMA MergeTurn ==
  ASSUME NEW s \in Tables, NEW l \in Lbas, HasLog(s, l), LogSound(s, l),
         DataBlock(s, l) # LogBlock(s, l),
         NEW b \in Blocks, b \notin Own(s, l),
         NEW n \in Offsets, NEW u, MergeInv(s, l, b, n, u)
  PROVE  MergeInv(s, l, b, n + 1, MergePage(u, l, b, n))
  <1>. DEFINE p == MergeSource(u, l, n)
              v == MergePage(u, l, b, n)
  <1>1. u \in Tables /\ FlashSound(u.flash) /\ u.flash \in FlashType /\ Alive(u) /\ n \in Int
    BY TablesFacts DEF MergeInv, LoopStates, Offsets
  <1>2. \A i \in Offsets : Place(u, l, i) = Place(s, l, i)
    BY DEF MergeInv, Place, InLog, HasLog, HasData, LogPage, DataPage
  <1>3. p = MergeSource(s, l, n) /\ (p # NoPpn => p = Place(s, l, n))
    BY <1>1, <1>2, PlaceFacts DEF MergeInv
  <1>4. \A i \in Offsets : i \in Int /\ (i < n + 1 <=> i < n \/ i = n) /\ (i >= n + 1 => i >= n /\ i # n)
    BY DEF Offsets
  <1>5. v \in LoopStates
    BY LoopStatesKept DEF MergeInv
  <1>6. CASE p = NoPpn
    <2>1. v = u
      BY <1>6 DEF MergePage
    <2>2. MergeSource(s, l, n) = NoPpn
      BY <1>3, <1>6
    <2>3. MergeInv(s, l, b, n + 1, u)
      <3>1. \A i \in Offsets :
              IF i < n + 1 /\ MergeSource(s, l, i) # NoPpn
                THEN /\ u.flash.page[<<b, i>>] = "VALID"
                     /\ u.flash.data[<<b, i>>] = s.flash.data[MergeSource(s, l, i)]
                ELSE u.flash.page[<<b, i>>] = "EMPTY"
        BY <1>4, <2>2 DEF MergeInv
      <3>2. \A i \in Offsets : i >= n + 1 /\ Place(s, l, i) # NoPpn =>
              /\ u.flash.page[Place(s, l, i)] = s.flash.page[Place(s, l, i)]
              /\ u.flash.data[Place(s, l, i)] = s.flash.data[Place(s, l, i)]
        BY <1>4 DEF MergeInv
      <3>. QED
        BY <3>1, <3>2 DEF MergeInv
    <2>. QED
      BY <2>1, <2>3
  <1>7. CASE p # NoPpn
    <2>. DEFINE g == Replace(Program(u.flash, <<b, n>>, u.flash.data[p]), p)
    <2>1. /\ p \in Ppns /\ u.flash.page[p] = "VALID" /\ u.flash.data[p] \in Payloads
          /\ <<b, n>> \in Ppns /\ u.flash.page[<<b, n>>] = "EMPTY" /\ p # <<b, n>>
      <3>1. p \in Ppns /\ u.flash.page[p] = "VALID"
        BY <1>1, <1>7, PlaceFacts
      <3>2. u.flash.page[<<b, n>>] = "EMPTY"
        BY <1>1 DEF MergeInv
      <3>. QED
        BY <1>1, <3>1, <3>2 DEF FlashSound, Ppns
    <2>2. v = [u EXCEPT !.flash = g]
      BY <1>1, <1>7, <2>1 DEF MergePage, CopyTo, WritePage, CanProgram
    <2>3. u.flash.data[p] = s.flash.data[MergeSource(s, l, n)]
      BY <1>1, <1>3, <1>7 DEF MergeInv
    <2>. HIDE DEF p, v
    <2>4. /\ FlashSound(g)
          /\ g.erases_remaining = u.flash.erases_remaining
          /\ \A q \in Ppns :
               /\ g.page[q] = IF q = <<b, n>> THEN "VALID"
                              ELSE IF q = p THEN "INVALID" ELSE u.flash.page[q]
               /\ g.data[q] = IF q = <<b, n>> THEN u.flash.data[p] ELSE u.flash.data[q]
          /\ \A c \in Blocks : c # <<b, n>>[1] /\ c # p[1] => SameBlock(u.flash, g, c)
      BY <1>1, <2>1, ProgramReplaceEffect
    <2>. HIDE DEF g
    <2>5. /\ v.flash = g /\ Alive(v)
          /\ v.bm = s.bm /\ v.data_list = s.data_list /\ v.log_map = s.log_map
          /\ v.taken = s.taken
          /\ g.erases_remaining = s.flash.erases_remaining
      BY <1>1, <2>2, <2>4 DEF MergeInv, Tables, Alive
    <2>6. \A i, j \in Offsets :
            Place(s, l, i) = Place(s, l, j) /\ Place(s, l, i) # NoPpn => i = j
      BY PlacesDistinct
    <2>7. \A i \in Offsets : Place(s, l, i) # NoPpn =>
            /\ Place(s, l, i) \in Ppns
            /\ Place(s, l, i)[1] # b
            /\ Place(s, l, i)[1] \in Own(s, l)
      BY PlacesDistinct, PlaceFacts DEF Own
    <2>8. \A c \in Blocks : c # b /\ c \notin Own(s, l) => SameBlock(s.flash, g, c)
      <3>1. p[1] \in Own(s, l) /\ <<b, n>>[1] = b
        BY <1>3, <1>7, <2>7
      <3>2. \A c \in Blocks : c # b /\ c \notin Own(s, l) => SameBlock(s.flash, u.flash, c)
        BY DEF MergeInv
      <3>. QED
        BY <2>4, <3>1, <3>2 DEF SameBlock
    <2>9. ASSUME NEW i \in Offsets
          PROVE  IF i < n + 1 /\ MergeSource(s, l, i) # NoPpn
                   THEN /\ g.page[<<b, i>>] = "VALID"
                        /\ g.data[<<b, i>>] = s.flash.data[MergeSource(s, l, i)]
                   ELSE g.page[<<b, i>>] = "EMPTY"
      <3>1. <<b, i>> \in Ppns /\ <<b, i>> # p
        BY <1>3, <1>7, <2>7 DEF Ppns
      <3>2. CASE i = n
        BY <1>3, <1>4, <1>7, <2>3, <2>4, <3>1, <3>2
      <3>3. CASE i # n
        <4>1. <<b, i>> # <<b, n>>
          BY <3>3
        <4>2. g.page[<<b, i>>] = u.flash.page[<<b, i>>] /\ g.data[<<b, i>>] = u.flash.data[<<b, i>>]
          BY <2>4, <3>1, <4>1
        <4>3. IF i < n /\ MergeSource(s, l, i) # NoPpn
                THEN /\ u.flash.page[<<b, i>>] = "VALID"
                     /\ u.flash.data[<<b, i>>] = s.flash.data[MergeSource(s, l, i)]
                ELSE u.flash.page[<<b, i>>] = "EMPTY"
          BY DEF MergeInv
        <4>. QED
          BY <1>4, <3>3, <4>2, <4>3
      <3>. QED
        BY <3>2, <3>3
    <2>10. ASSUME NEW i \in Offsets, i >= n + 1, Place(s, l, i) # NoPpn
           PROVE  /\ g.page[Place(s, l, i)] = s.flash.page[Place(s, l, i)]
                  /\ g.data[Place(s, l, i)] = s.flash.data[Place(s, l, i)]
      <3>1. i >= n /\ i # n
        BY <1>4, <2>10
      <3>2. Place(s, l, i) # p
        BY <1>3, <1>7, <2>6, <2>10, <3>1
      <3>3. Place(s, l, i) \in Ppns /\ Place(s, l, i) # <<b, n>>
        BY <2>7, <2>10
      <3>4. /\ u.flash.page[Place(s, l, i)] = s.flash.page[Place(s, l, i)]
            /\ u.flash.data[Place(s, l, i)] = s.flash.data[Place(s, l, i)]
        BY <2>10, <3>1 DEF MergeInv
      <3>. QED
        BY <2>4, <3>2, <3>3, <3>4
    <2>11. \A i \in Offsets : i >= n + 1 /\ Place(s, l, i) # NoPpn =>
             /\ v.flash.page[Place(s, l, i)] = s.flash.page[Place(s, l, i)]
             /\ v.flash.data[Place(s, l, i)] = s.flash.data[Place(s, l, i)]
      BY <2>5, <2>10
    <2>12. \A i \in Offsets :
             IF i < n + 1 /\ MergeSource(s, l, i) # NoPpn
               THEN /\ v.flash.page[<<b, i>>] = "VALID"
                    /\ v.flash.data[<<b, i>>] = s.flash.data[MergeSource(s, l, i)]
               ELSE v.flash.page[<<b, i>>] = "EMPTY"
      BY <2>5, <2>9
    <2>13. MergeInv(s, l, b, n + 1, v)
      BY <1>5, <2>5, <2>8, <2>11, <2>12 DEF MergeInv
    <2>. QED
      BY <2>13 DEF v
  <1>. QED
    BY <1>6, <1>7

\* The loop: copied, as random_merge runs it, exists and keeps MergeInv.
LEMMA MergedEffect ==
  ASSUME NEW s, s \in LoopStates, Alive(s), NEW l \in Lbas, HasLog(s, l), LogSound(s, l),
         DataBlock(s, l) # LogBlock(s, l),
         NEW b \in Blocks, b \notin Own(s, l), Erased(s.flash, b)
  PROVE  MergeInv(s, l, b, BLOCK_SIZE, Merged(s, l, b))
  <1>. DEFINE R == LoopStates
              N == BLOCK_SIZE
              F == [n \in 0 .. N - 1 |-> [u \in R |-> MergePage(u, l, b, n)]]
              Copies(f) == f = [n \in 0 .. N |-> IF n = 0 THEN s ELSE MergePage(f[n - 1], l, b, n - 1)]
              run == CHOOSE f : Copies(f)
  <1>1. N \in Nat /\ 0 .. N - 1 = Offsets
    BY GeometryAssumption DEF Offsets
  <1>2. F \in [0 .. N - 1 -> [R -> R]]
    BY <1>1, LoopStatesKept
  <1>3. \E f : Copies(f)
    <2>. HIDE DEF F
    <2>0. N \in Nat /\ s \in R /\ F \in Turns(N, R)
      BY <1>1, <1>2 DEF Turns
    <2>1. PICK f : IsRun(f, N, R, s, F)
      BY <2>0, LoopExists
    <2>2. \A n \in 0 .. N : n # 0 => n - 1 \in 0 .. N /\ n - 1 \in 0 .. N - 1 /\ f[n - 1] \in R
      <3>1. \A n \in 0 .. N : n # 0 => n - 1 \in 0 .. N /\ n - 1 \in 0 .. N - 1
        BY <1>1
      <3>2. f \in [0 .. N -> R]
        BY <2>1 DEF IsRun
      <3>. QED
        BY <3>1, <3>2
    <2>3. \A n \in 0 .. N : n # 0 => F[n - 1][f[n - 1]] = MergePage(f[n - 1], l, b, n - 1)
      BY <2>2 DEF F
    <2>4. f = [n \in 0 .. N |-> IF n = 0 THEN s ELSE MergePage(f[n - 1], l, b, n - 1)]
      BY <2>1, <2>3 DEF IsRun
    <2>. QED
      BY <2>4
  <1>4. Copies(run)
    BY <1>3, Zenon
  <1>5. Merged(s, l, b) = run[N]
    BY DEF Merged
  <1>. HIDE DEF run, F
  <1>6. /\ run[0] = s
        /\ \A n \in 1 .. N : run[n] = MergePage(run[n - 1], l, b, n - 1)
    BY <1>1, <1>4
  <1>. DEFINE Bad == {n \in Nat : n <= N /\ ~MergeInv(s, l, b, n, run[n])}
  <1>7. SUFFICES ASSUME Bad # {} PROVE FALSE
    BY <1>1, <1>5
  <1>8. PICK m \in Bad : \A n \in Bad : m <= n
    BY <1>7, LeastNumber
  <1>9. MergeInv(s, l, b, 0, s)
    <2>1. \A i \in Offsets : ~(i < 0) /\ i >= 0
      BY DEF Offsets
    <2>. QED
      BY <2>1 DEF MergeInv, Erased, SameBlock
  <1>10. m # 0
    BY <1>6, <1>8, <1>9
  <1>11. m - 1 \in Nat /\ m - 1 <= N /\ m - 1 \in Offsets /\ ~(m <= m - 1) /\ m \in 1 .. N
    BY <1>1, <1>8, <1>10
  <1>12. MergeInv(s, l, b, m - 1, run[m - 1])
    BY <1>8, <1>11
  <1>13. s \in Tables
    BY DEF LoopStates
  <1>14. MergeInv(s, l, b, (m - 1) + 1, MergePage(run[m - 1], l, b, m - 1))
    BY <1>11, <1>12, <1>13, MergeTurn
  <1>15. (m - 1) + 1 = m
    BY <1>11
  <1>16. MergeInv(s, l, b, m, run[m])
    BY <1>6, <1>11, <1>14, <1>15
  <1>. QED
    BY <1>8, <1>16

\* random_merge: a page is copied for every offset that has a current one.
LEMMA MergeEffect ==
  ASSUME NEW s, Sound(s), NEW l \in Lbas, HasLog(s, l),
         NEW t, t = random_merge(s, l)
  PROVE  FailsSoundly(s, t) \/ LogReclaimed(s, t, l)
  <1>. DEFINE u == TakeBlock(s, "DATA")
              b == u.taken
              d == DataBlock(s, l)
              a == LogBlock(s, l)
              m == Merged(u, l, b)
              n == EraseBlock(m, a, "LOG")
              e == IF HasData(s, l) THEN EraseBlock(n, d, "DATA") ELSE n
  <1>1. /\ s \in Tables /\ Alive(s) /\ ManagerSound(s.bm) /\ FlashSound(s.flash)
        /\ s.bm.data_active \in Int /\ s.bm.log_active \in Int
        /\ OwnersDistinct(s)
        /\ \A c \in Available(s) : Erased(s.flash, c)
    BY TablesFacts DEF Sound, BlockManagerType
  <1>2. /\ a \in Blocks /\ a \notin Available(s) /\ a # d
        /\ HasData(s, l) => d \in Blocks /\ d \notin Available(s)
        /\ Own(s, l) = IF HasData(s, l) THEN {d, a} ELSE {a}
        /\ LogSound(s, l)
    BY LogBlockFacts
  <1>3. \/ u \in Tables /\ u.abort = "no_free_block" /\ Available(s) = {}
        \/ /\ u \in Tables /\ Alive(u)
           /\ u.flash = s.flash /\ u.data_list = s.data_list /\ u.log_map = s.log_map
           /\ ManagerSound(u.bm)
           /\ b \in Available(s) /\ b \in Blocks
           /\ Available(u) = Available(s) \ {b}
           /\ u.bm.data_active = s.bm.data_active + 1
           /\ u.bm.log_active = s.bm.log_active + 0
    BY <1>1, TakeEffect DEF BlockTypes
  <1>4. t = IF ~Alive(u) THEN u ELSE Disposed(e, l, b)
    BY DEF random_merge, Disposed, Remapped, DataBlock, LogBlock
  <1>. HIDE DEF u, a, d
  <1>5. CASE ~Alive(u)
    BY <1>3, <1>4, <1>5, BlockLeft DEF FailsSoundly
  <1>6. CASE Alive(u)
    <2>1. /\ u \in Tables
          /\ u.flash = s.flash /\ u.data_list = s.data_list /\ u.log_map = s.log_map
          /\ ManagerSound(u.bm)
          /\ b \in Available(s) /\ b \in Blocks
          /\ Available(u) = Available(s) \ {b}
          /\ u.bm.data_active = s.bm.data_active + 1
          /\ u.bm.log_active = s.bm.log_active
      BY <1>1, <1>3, <1>6 DEF Alive
    <2>2. /\ HasLog(u, l) /\ (HasData(u, l) <=> HasData(s, l))
          /\ Own(u, l) = Own(s, l)
          /\ DataBlock(u, l) # LogBlock(u, l)
          /\ LogSound(u, l)
      <3>1. SameView(s, u, l)
        BY <2>1 DEF SameView, SameBlock, HasLog, DataBlock
      <3>2. DataBlock(u, l) = d /\ LogBlock(u, l) = a
        BY <2>1 DEF d, a, DataBlock, LogBlock
      <3>3. (HasData(u, l) <=> HasData(s, l)) /\ LogSound(u, l)
        BY <1>1, <1>2, <2>1, <3>1, SameViewKeeps
      <3>. QED
        BY <1>2, <3>1, <3>2, <3>3 DEF Own, SameView, d, a
    <2>3. b \notin Own(s, l) /\ Erased(u.flash, b)
      BY <1>1, <2>1 DEF OwnersDistinct
    <2>. HIDE DEF b
    <2>4. MergeInv(u, l, b, BLOCK_SIZE, m)
      BY <1>1, <1>6, <2>1, <2>2, <2>3, MergedEffect DEF LoopStates
    <2>. HIDE DEF m
    <2>5. /\ m \in Tables /\ FlashSound(m.flash) /\ Alive(m)
          /\ m.bm = u.bm /\ m.data_list = s.data_list /\ m.log_map = s.log_map
          /\ m.flash.erases_remaining = s.flash.erases_remaining
          /\ \A c \in Blocks : c # b /\ c \notin Own(s, l) => SameBlock(s.flash, m.flash, c)
      BY <2>1, <2>2, <2>4 DEF MergeInv, LoopStates
    <2>6. \A i \in Offsets :
            IF MergeSource(s, l, i) = NoPpn
              THEN m.flash.page[<<b, i>>] # "VALID"
              ELSE /\ m.flash.page[<<b, i>>] = "VALID"
                   /\ m.flash.data[<<b, i>>] = s.flash.data[MergeSource(s, l, i)]
      <3>1. \A i \in Offsets : MergeSource(u, l, i) = MergeSource(s, l, i)
        BY <2>1 DEF MergeSource, InLog, HasLog, HasData, LogPage, DataPage
      <3>2. \A i \in Offsets : i < BLOCK_SIZE
        BY GeometryAssumption DEF Offsets
      <3>. QED
        BY <2>1, <2>4, <3>1, <3>2 DEF MergeInv
    <2>7. Available(m) = Available(s) \ {b}
      BY <2>1, <2>5 DEF Available
    <2>8. IF CanErase(m.flash, a)
            THEN /\ n \in Tables /\ Alive(n)
                 /\ FlashSound(n.flash) /\ Erased(n.flash, a)
                 /\ \A c \in Blocks : c # a =>
                      /\ SameBlock(m.flash, n.flash, c)
                      /\ n.flash.erases_remaining[c] = m.flash.erases_remaining[c]
                 /\ n.data_list = m.data_list /\ n.log_map = m.log_map
                 /\ ManagerSound(n.bm)
                 /\ Available(n) = Available(m) \cup {a}
                 /\ n.bm.data_active = m.bm.data_active - 0
                 /\ n.bm.log_active = m.bm.log_active - 1
            ELSE n \in Tables /\ n.abort = "erase_failed" /\ m.flash.erases_remaining[a] = 0
      <3>1. ManagerSound(m.bm) /\ a \notin Available(m)
        BY <1>2, <2>1, <2>5, <2>7
      <3>. QED
        BY <1>2, <2>5, <3>1, EraseBlockEffect DEF BlockTypes
    <2>. HIDE DEF n
    <2>9. CASE ~CanErase(m.flash, a)
      <3>1. e = n
        BY <2>8, <2>9 DEF EraseBlock, Alive
      <3>. HIDE DEF e
      <3>2. t \in Tables /\ t.abort = "erase_failed"
        BY <1>4, <1>6, <2>1, <2>8, <2>9, <3>1, DisposeEffect
      <3>. QED
        BY <1>2, <2>5, <2>8, <2>9, <3>2 DEF FailsSoundly, Worn
    <2>10. CASE CanErase(m.flash, a) /\ HasData(s, l) /\ ~CanErase(n.flash, d)
      <3>1. e = EraseBlock(n, d, "DATA")
        BY <2>10
      <3>. HIDE DEF e
      <3>2. d \notin Available(n)
        BY <1>2, <2>7, <2>8, <2>10
      <3>3. e \in Tables /\ e.abort = "erase_failed" /\ n.flash.erases_remaining[d] = 0
        BY <1>2, <2>8, <2>10, <3>1, <3>2, EraseBlockEffect DEF BlockTypes
      <3>4. t \in Tables /\ t.abort = "erase_failed"
        BY <1>4, <1>6, <2>1, <3>3, DisposeEffect
      <3>5. s.flash.erases_remaining[d] = 0
        BY <1>2, <2>5, <2>8, <2>10, <3>3
      <3>. QED
        BY <1>2, <2>10, <3>4, <3>5 DEF FailsSoundly, Worn
    <2>11. CASE CanErase(m.flash, a) /\ ~(HasData(s, l) /\ ~CanErase(n.flash, d))
      <3>1. /\ e \in Tables /\ Alive(e) /\ ManagerSound(e.bm) /\ FlashSound(e.flash)
            /\ e.data_list = s.data_list /\ e.log_map = s.log_map
            /\ Available(e) = (Available(s) \cup Own(s, l)) \ {b}
            /\ e.bm.data_active = s.bm.data_active + (IF HasData(s, l) THEN 0 ELSE 1)
            /\ e.bm.log_active = s.bm.log_active - 1
            /\ \A c \in Own(s, l) : Erased(e.flash, c)
            /\ \A c \in Blocks : c \notin Own(s, l) => SameBlock(m.flash, e.flash, c)
        <4>1. CASE HasData(s, l)
          <5>1. e = EraseBlock(n, d, "DATA") /\ CanErase(n.flash, d)
            BY <2>11, <4>1
          <5>. HIDE DEF e
          <5>2. d \notin Available(n)
            BY <1>2, <2>7, <2>8, <2>11, <4>1
          <5>3. /\ e \in Tables /\ Alive(e)
                /\ FlashSound(e.flash) /\ Erased(e.flash, d)
                /\ \A c \in Blocks : c # d => SameBlock(n.flash, e.flash, c)
                /\ e.data_list = n.data_list /\ e.log_map = n.log_map
                /\ ManagerSound(e.bm)
                /\ Available(e) = Available(n) \cup {d}
                /\ e.bm.data_active = n.bm.data_active - 1
                /\ e.bm.log_active = n.bm.log_active - 0
            BY <1>2, <2>8, <2>11, <4>1, <5>1, <5>2, EraseBlockEffect DEF BlockTypes
          <5>4. Available(e) = (Available(s) \cup Own(s, l)) \ {b}
            BY <1>2, <2>3, <2>1, <2>7, <2>8, <2>11, <4>1, <5>3
          <5>5. /\ e.bm.data_active = s.bm.data_active
                /\ e.bm.log_active = s.bm.log_active - 1
            BY <1>1, <2>1, <2>5, <2>8, <2>11, <5>3
          <5>6. Erased(e.flash, a)
            BY <1>2, <2>8, <2>11, <5>3, StaysErased
          <5>7. \A c \in Own(s, l) : Erased(e.flash, c)
            BY <1>2, <4>1, <5>3, <5>6
          <5>8. \A c \in Blocks : c \notin Own(s, l) => SameBlock(m.flash, e.flash, c)
            BY <1>2, <2>8, <2>11, <4>1, <5>3 DEF SameBlock
          <5>9. /\ e \in Tables /\ Alive(e) /\ ManagerSound(e.bm) /\ FlashSound(e.flash)
                /\ e.data_list = s.data_list /\ e.log_map = s.log_map
            BY <2>5, <2>8, <2>11, <5>3
          <5>10. e.bm.data_active = s.bm.data_active + (IF HasData(s, l) THEN 0 ELSE 1)
            BY <1>1, <4>1, <5>5
          <5>. QED
            BY <5>4, <5>5, <5>7, <5>8, <5>9, <5>10
        <4>2. CASE ~HasData(s, l)
          <5>1. e = n
            BY <4>2
          <5>. HIDE DEF e
          <5>2. Available(e) = (Available(s) \cup Own(s, l)) \ {b}
            BY <1>2, <2>3, <2>1, <2>7, <2>8, <2>11, <4>2, <5>1
          <5>3. /\ e.bm.data_active = s.bm.data_active + 1
                /\ e.bm.log_active = s.bm.log_active - 1
            BY <1>1, <2>1, <2>5, <2>8, <2>11, <5>1
          <5>4. /\ \A c \in Own(s, l) : Erased(e.flash, c)
                /\ \A c \in Blocks : c \notin Own(s, l) => SameBlock(m.flash, e.flash, c)
            BY <1>2, <2>8, <2>11, <4>2, <5>1
          <5>5. /\ e \in Tables /\ Alive(e) /\ ManagerSound(e.bm) /\ FlashSound(e.flash)
                /\ e.data_list = s.data_list /\ e.log_map = s.log_map
            BY <2>5, <2>8, <2>11, <5>1
          <5>. QED
            BY <4>2, <5>2, <5>3, <5>4, <5>5
        <4>. QED
          BY <4>1, <4>2
      <3>. HIDE DEF e
      <3>2. /\ t \in Tables /\ Alive(t)
            /\ t.flash = e.flash /\ t.bm = e.bm
            /\ t.data_list[l] = b
            /\ \A k \in Lbas : k # l => t.data_list[k] = s.data_list[k]
            /\ DOMAIN t.log_map = DOMAIN s.log_map \ {l}
            /\ \A k \in DOMAIN s.log_map : k # l => t.log_map[k] = s.log_map[k]
        BY <1>4, <1>6, <2>1, <3>1, DisposeEffect DEF Alive
      <3>3. Available(t) = (Available(s) \cup Own(s, l)) \ {b}
        BY <3>1, <3>2 DEF Available
      <3>4. SameBlock(m.flash, t.flash, b)
        BY <2>1, <2>3, <3>1, <3>2
      <3>5. \A i \in Offsets :
              IF MergeSource(s, l, i) = NoPpn
                THEN t.flash.page[<<b, i>>] # "VALID"
                ELSE /\ t.flash.page[<<b, i>>] = "VALID"
                     /\ t.flash.data[<<b, i>>] = s.flash.data[MergeSource(s, l, i)]
        BY <2>6, <3>4 DEF SameBlock
      <3>6. \A c \in Own(s, l) : c # b => Erased(t.flash, c)
        BY <3>1, <3>2
      <3>7. \A c \in Blocks : c # b /\ c \notin Own(s, l) => SameBlock(s.flash, t.flash, c)
        BY <2>5, <3>1, <3>2 DEF SameBlock
      <3>8. /\ FlashSound(t.flash) /\ ManagerSound(t.bm)
            /\ t.bm.data_active = s.bm.data_active + (IF HasData(s, l) THEN 0 ELSE 1)
            /\ t.bm.log_active = s.bm.log_active - 1
        BY <3>1, <3>2
      <3>9. Sound(t) /\ Kept(s, t)
        BY <2>1, <3>2, <3>3, <3>5, <3>6, <3>7, <3>8, ReclaimUpdate
      <3>. QED
        BY <3>2, <3>9 DEF LogReclaimed
    <2>. QED
      BY <2>9, <2>10, <2>11
  <1>. QED
    BY <1>5, <1>6

LEMMA ReclaimEffect ==
  ASSUME NEW s, Sound(s), NEW l \in Lbas, HasLog(s, l),
         NEW t, t = Reclaim(s, l)
  PROVE  FailsSoundly(s, t) \/ LogReclaimed(s, t, l)
  BY SwitchEffect, MergeEffect DEF Reclaim

---------------------------------------------------------------------------
(* Writing to a log block with room.                                       *)

\* Logged changes one entry of one log block.
LEMMA LoggedEffect ==
  ASSUME NEW s \in Tables, NEW l \in Lbas, HasLog(s, l), NEW i \in Offsets,
         NEW n \in Offsets \cup {NotLogged}, NEW t, t = Logged(s, l, i, n)
  PROVE  /\ t \in Tables
         /\ t.flash = s.flash /\ t.bm = s.bm /\ t.data_list = s.data_list
         /\ t.taken = s.taken /\ t.abort = s.abort
         /\ DOMAIN t.log_map = DOMAIN s.log_map
         /\ \A m \in DOMAIN s.log_map : m # l => t.log_map[m] = s.log_map[m]
         /\ LogBlock(t, l) = LogBlock(s, l)
         /\ t.log_map[l].pages[i] = n
         /\ \A j \in Offsets : j # i => t.log_map[l].pages[j] = s.log_map[l].pages[j]
  <1>. DEFINE r == s.log_map[l]
              ps == [r.pages EXCEPT ![i] = n]
              q == [r EXCEPT !.pages = ps]
              lm == [s.log_map EXCEPT ![l] = q]
  <1>1. /\ DOMAIN s.log_map \subseteq Lbas
        /\ s.log_map \in [DOMAIN s.log_map -> LogPageBlock]
        /\ l \in DOMAIN s.log_map
        /\ r \in LogPageBlock
        /\ r.pages \in [Offsets -> Offsets \cup {NotLogged}]
    BY TablesFacts DEF HasLog
  <1>2. t = [s EXCEPT !.log_map = lm]
    BY DEF Logged
  <1>3. /\ ps \in [Offsets -> Offsets \cup {NotLogged}]
        /\ ps[i] = n
        /\ \A j \in Offsets : j # i => ps[j] = r.pages[j]
    BY <1>1
  <1>. HIDE DEF ps
  <1>4. q \in LogPageBlock /\ q.address = r.address /\ q.pages = ps
    BY <1>1, <1>3 DEF LogPageBlock
  <1>. HIDE DEF q
  <1>5. /\ lm \in [DOMAIN lm -> LogPageBlock] /\ DOMAIN lm = DOMAIN s.log_map
        /\ lm[l] = q
        /\ \A m \in DOMAIN s.log_map : m # l => lm[m] = s.log_map[m]
    BY <1>1, <1>4
  <1>. HIDE DEF lm
  <1>6. lm \in LogMaps
    BY <1>1, <1>5, LogMapFacts
  <1>7. /\ t \in Tables
        /\ t.flash = s.flash /\ t.bm = s.bm /\ t.data_list = s.data_list
        /\ t.taken = s.taken /\ t.abort = s.abort /\ t.log_map = lm
    BY <1>2, <1>6 DEF Tables
  <1>. QED
    BY <1>3, <1>4, <1>5, <1>7 DEF LogBlock

\* The host's other pages.
OthersKept(s, t, l, i) ==
  \A m \in Lbas, j \in Offsets : m # l \/ j # i => Content(t, m, j) = Content(s, m, j)

LEMMA StoreEffect ==
  ASSUME NEW s, Sound(s), NEW l \in Lbas, HasLog(s, l), NEW i \in Offsets,
         NEW n, n = s.flash.pages_valid[LogBlock(s, l)], n < BLOCK_SIZE,
         NEW d \in Payloads,
         NEW old, old = IF InLog(s, l, i) THEN LogPage(s, l, i) ELSE NoPpn,
         NEW t, t = Store(s, l, i, n, d, old)
  PROVE  Sound(t) /\ Content(t, l, i) = d /\ OthersKept(s, t, l, i)
  <1>. DEFINE a == LogBlock(s, l)
              p == <<a, n>>
              u == Logged(s, l, i, n)
              rep == Replaced(s, l, i, old)
              g == Replace(Program(s.flash, p, d), rep)
  <1>1. /\ s \in Tables /\ Alive(s) /\ ManagerSound(s.bm) /\ FlashSound(s.flash)
        /\ OwnersDistinct(s)
        /\ \A c \in Available(s) : Erased(s.flash, c)
    BY DEF Sound
  <1>2. /\ a \in Blocks /\ a \notin Available(s) /\ a # DataBlock(s, l)
        /\ HasData(s, l) => DataBlock(s, l) \in Blocks /\ DataBlock(s, l) \notin Available(s)
        /\ Own(s, l) = IF HasData(s, l) THEN {DataBlock(s, l), a} ELSE {a}
        /\ LogSound(s, l)
    BY LogBlockFacts
  <1>3. n \in Nat /\ n \in Offsets
    BY <1>1, <1>2, TablesFacts, GeometryAssumption DEF FlashType, Offsets
  <1>4. p \in Ppns /\ s.flash.page[p] = "EMPTY"
    BY <1>2, <1>3 DEF Ppns, LogSound
  <1>. HIDE DEF a
  <1>5. /\ u \in Tables
        /\ u.flash = s.flash /\ u.bm = s.bm /\ u.data_list = s.data_list
        /\ u.taken = s.taken /\ u.abort = s.abort
        /\ DOMAIN u.log_map = DOMAIN s.log_map
        /\ \A m \in DOMAIN s.log_map : m # l => u.log_map[m] = s.log_map[m]
        /\ LogBlock(u, l) = a
        /\ u.log_map[l].pages[i] = n
        /\ \A j \in Offsets : j # i => u.log_map[l].pages[j] = s.log_map[l].pages[j]
    BY <1>1, <1>3, LoggedEffect, SMTT(30) DEF a
  <1>. HIDE DEF u
  <1>6. rep = IF HasData(s, l) /\ s.flash.page[DataPage(s, l, i)] # "EMPTY"
                THEN DataPage(s, l, i) ELSE old
    BY DEF Replaced
  <1>7. /\ InLog(s, l, i) => /\ LogPage(s, l, i) \in Ppns /\ LogPage(s, l, i)[1] = a
                             /\ s.flash.page[LogPage(s, l, i)] = "VALID"
        /\ HasData(s, l) => /\ DataPage(s, l, i) \in Ppns
                            /\ DataPage(s, l, i)[1] = DataBlock(s, l)
    BY <1>1, <1>2, PlaceFacts DEF LogSound, a
  <1>8. rep \in Ppns \cup {NoPpn} /\ rep # p
    BY <1>2, <1>4, <1>6, <1>7, NoPpnNotPage
  <1>9. t = [u EXCEPT !.flash = g]
    <2>1. LogPage(u, l, i) = p
      BY <1>5 DEF LogPage, LogBlock
    <2>2. t = WritePage(u, LogPage(u, l, i), d, rep)
      BY DEF Store, u
    <2>3. Alive(u) /\ CanProgram(u.flash, p)
      BY <1>1, <1>4, <1>5 DEF Alive, CanProgram
    <2>4. t = WritePage(u, p, d, rep)
      BY <2>1, <2>2
    <2>. HIDE DEF rep
    <2>. QED
      BY <1>5, <2>3, <2>4 DEF WritePage
  <1>. HIDE DEF rep
  <1>10. /\ FlashSound(g)
         /\ \A c \in Blocks :
              g.pages_valid[c] = IF c = p[1] THEN s.flash.pages_valid[c] + 1
                                             ELSE s.flash.pages_valid[c]
         /\ \A q \in Ppns :
              /\ g.page[q] = IF q = p THEN "VALID"
                             ELSE IF q = rep THEN "INVALID" ELSE s.flash.page[q]
              /\ g.data[q] = IF q = p THEN d ELSE s.flash.data[q]
         /\ \A c \in Blocks : c # p[1] /\ c # rep[1] => SameBlock(s.flash, g, c)
    BY <1>1, <1>4, <1>8, ProgramReplaceEffect, SMTT(30)
  <1>. HIDE DEF g
  <1>11. g \in FlashType
    BY <1>10 DEF FlashSound
  <1>12. /\ t \in Tables /\ Alive(t)
         /\ t.flash = g /\ t.bm = s.bm /\ t.data_list = s.data_list
         /\ t.log_map = u.log_map
    BY <1>1, <1>5, <1>9, <1>11 DEF Tables, Alive
  <1>13. /\ HasLog(t, l) /\ LogBlock(t, l) = a
         /\ DataBlock(t, l) = DataBlock(s, l) /\ (HasData(t, l) <=> HasData(s, l))
         /\ InLog(t, l, i) /\ LogPage(t, l, i) = p
         /\ \A j \in Offsets : j # i => /\ InLog(t, l, j) <=> InLog(s, l, j)
                                        /\ LogPage(t, l, j) = LogPage(s, l, j)
         /\ \A j \in Offsets : DataPage(t, l, j) = DataPage(s, l, j)
    <2>1. n # NotLogged
      BY <1>3 DEF NotLogged
    <2>. QED
      BY <1>5, <1>12, <2>1, ZenonT(60)
         DEF HasLog, LogBlock, DataBlock, HasData, InLog, LogPage, DataPage, a
  <1>14. p[1] = a /\ (rep # NoPpn => rep[1] \in Own(s, l))
    BY <1>2, <1>6, <1>7
  <1>15. \A c \in Blocks : c \notin Own(s, l) => SameBlock(s.flash, g, c)
    <2>1. NoPpn[1] \notin Blocks
      BY DEF NoPpn, Blocks
    <2>. QED
      BY <1>2, <1>10, <1>14, <2>1
  <1>16. \A m \in Lbas : m # l => SameView(s, t, m)
    <2>. SUFFICES ASSUME NEW m \in Lbas, m # l
                  PROVE  SameView(s, t, m)
      OBVIOUS
    <2>0. Own(s, m) \subseteq Blocks
      BY <1>1, TablesFacts DEF Own
    <2>1. Own(s, m) \subseteq Blocks /\ Own(s, m) \cap Own(s, l) = {}
      BY <1>1, <2>0 DEF OwnersDistinct
    <2>2. \A c \in Own(s, m) : SameBlock(s.flash, t.flash, c)
      BY <1>12, <1>15, <2>1
    <2>3. (HasLog(t, m) <=> HasLog(s, m)) /\ (HasLog(s, m) => t.log_map[m] = s.log_map[m])
      BY <1>5, <1>12 DEF HasLog
    <2>. QED
      BY <1>1, <1>12, <2>2, <2>3, SameViewOf
  <1>17. \A j \in Offsets : j # i =>
           /\ InLog(s, l, j) => /\ LogPage(s, l, j) \in Ppns
                                /\ LogPage(s, l, j) # p /\ LogPage(s, l, j) # rep
           /\ HasData(s, l) => /\ DataPage(s, l, j) \in Ppns
                               /\ DataPage(s, l, j) # p /\ DataPage(s, l, j) # rep
    <2>. SUFFICES ASSUME NEW j \in Offsets, j # i
                  PROVE  /\ InLog(s, l, j) => /\ LogPage(s, l, j) \in Ppns
                                              /\ LogPage(s, l, j) # p /\ LogPage(s, l, j) # rep
                         /\ HasData(s, l) => /\ DataPage(s, l, j) \in Ppns
                                             /\ DataPage(s, l, j) # p /\ DataPage(s, l, j) # rep
      OBVIOUS
    <2>1. ASSUME InLog(s, l, j)
          PROVE  /\ LogPage(s, l, j) \in Ppns
                 /\ LogPage(s, l, j) # p /\ LogPage(s, l, j) # rep
      <3>1. /\ LogPage(s, l, j) \in Ppns /\ LogPage(s, l, j)[1] = a
            /\ s.flash.page[LogPage(s, l, j)] = "VALID"
        BY <1>1, <1>2, <2>1, PlaceFacts DEF LogSound, a
      <3>2. InLog(s, l, i) => LogPage(s, l, j) # LogPage(s, l, i)
        BY <1>2, <2>1 DEF LogSound
      <3>. QED
        BY <1>2, <1>4, <1>6, <1>7, <3>1, <3>2, NoPpnNotPage
    <2>2. ASSUME HasData(s, l)
          PROVE  /\ DataPage(s, l, j) \in Ppns
                 /\ DataPage(s, l, j) # p /\ DataPage(s, l, j) # rep
      <3>1. DataPage(s, l, j) \in Ppns /\ DataPage(s, l, j)[1] = DataBlock(s, l)
        BY <1>1, <2>2, PlaceFacts
      <3>2. DataPage(s, l, j) # DataPage(s, l, i)
        <4>1. \A x : <<x, j>> # <<x, i>>
          OBVIOUS
        <4>. QED
          BY <4>1, Zenon DEF DataPage
      <3>. QED
        BY <1>2, <1>6, <1>7, <1>14, <3>1, <3>2, NoPpnNotPage
    <2>. QED
      BY <2>1, <2>2
  <1>18. LogSound(t, l)
    <2>1. g.pages_valid[a] = n + 1 /\ n + 1 <= BLOCK_SIZE
      BY <1>2, <1>3, <1>10, <1>14, GeometryAssumption DEF a
    <2>2. ASSUME NEW k \in Offsets
          PROVE  g.page[<<a, k>>] = "EMPTY" <=> k >= n + 1
      <3>1. <<a, k>> \in Ppns /\ k \in Int
        BY <1>2 DEF Ppns, Offsets
      <3>2. s.flash.page[<<a, k>>] = "EMPTY" <=> k >= n
        BY <1>2 DEF LogSound, a
      <3>3. CASE k = n
        BY <1>3, <1>10, <3>1, <3>3
      <3>4. CASE k # n
        <4>1. <<a, k>> # p
          BY <3>4
        <4>2. rep = <<a, k>> => s.flash.page[<<a, k>>] # "EMPTY"
          BY <1>2, <1>6, <1>7, <3>1, NoPpnNotPage
        <4>. QED
          BY <1>3, <1>10, <3>1, <3>2, <3>4, <4>1, <4>2
      <3>. QED
        BY <3>3, <3>4
    <2>3. ASSUME NEW j \in Offsets, InLog(t, l, j)
          PROVE  /\ g.page[LogPage(t, l, j)] = "VALID"
                 /\ HasData(t, l) => g.page[DataPage(t, l, j)] # "VALID"
      <3>1. CASE j = i
        <4>1. g.page[p] = "VALID"
          BY <1>4, <1>10
        <4>2. ASSUME HasData(s, l)
              PROVE  g.page[DataPage(s, l, i)] # "VALID"
          <5>1. DataPage(s, l, i) # p
            BY <1>2, <1>7, <1>14, <4>2
          <5>. QED
            BY <1>6, <1>7, <1>10, <4>2, <5>1
        <4>. QED
          BY <1>13, <3>1, <4>1, <4>2
      <3>2. CASE j # i
        <4>1. /\ s.flash.page[LogPage(s, l, j)] = "VALID"
              /\ HasData(s, l) => s.flash.page[DataPage(s, l, j)] # "VALID"
          BY <1>2, <1>13, <2>3, <3>2 DEF LogSound
        <4>. QED
          BY <1>10, <1>13, <1>17, <2>3, <3>2, <4>1
      <3>. QED
        BY <3>1, <3>2
    <2>4. ASSUME NEW j \in Offsets, NEW k \in Offsets, InLog(t, l, j), InLog(t, l, k),
                 LogPage(t, l, j) = LogPage(t, l, k)
          PROVE  j = k
      <3>1. \A x \in Offsets : x # i /\ InLog(t, l, x) =>
              InLog(s, l, x) /\ LogPage(t, l, x) = LogPage(s, l, x) /\ LogPage(s, l, x) # p
        BY <1>13, <1>17
      <3>2. LogPage(t, l, i) = p
        BY <1>13
      <3>3. j # i /\ k # i => j = k
        BY <1>2, <2>4, <3>1 DEF LogSound
      <3>. QED
        BY <2>4, <3>1, <3>2, <3>3
    <2>5. t.flash = g /\ LogBlock(t, l) = a
      BY <1>12, <1>13
    <2>6. t.flash.pages_valid[LogBlock(t, l)] = n + 1
      BY <2>1, <2>5
    <2>7. t.flash.pages_valid[LogBlock(t, l)] <= BLOCK_SIZE
      BY <2>1, <2>6
    <2>8. \A k \in Offsets : t.flash.page[<<LogBlock(t, l), k>>] = "EMPTY"
                             <=> k >= t.flash.pages_valid[LogBlock(t, l)]
      BY <2>2, <2>5, <2>6
    <2>9. \A j \in Offsets : InLog(t, l, j) =>
            /\ t.flash.page[LogPage(t, l, j)] = "VALID"
            /\ HasData(t, l) => t.flash.page[DataPage(t, l, j)] # "VALID"
      BY <2>3, <2>5
    <2>. QED
      BY <2>4, <2>7, <2>8, <2>9, Zenon DEF LogSound
  <1>19. Sound(t) /\ \A m \in Lbas : m # l => \A j \in Offsets : Content(t, m, j) = Content(s, m, j)
    <2>1. Own(t, l) = Own(s, l)
      BY <1>13 DEF Own, HasLog, a
    <2>2. Available(t) = Available(s)
      BY <1>12 DEF Available
    <2>3. Own(s, l) \cap Available(s) = {}
      BY <1>1 DEF OwnersDistinct
    <2>4. \A c \in Available(t) : Erased(t.flash, c)
      <3>1. \A c \in Available(s) : c \in Blocks /\ c \notin Own(s, l)
        BY <1>1, <2>3, TablesFacts, ListMembers DEF Available, BlockManagerType
      <3>. QED
        BY <1>1, <1>12, <1>15, <2>2, <3>1, StaysErased
    <2>5. FlashSound(t.flash) /\ ManagerSound(t.bm) /\ t.bm = s.bm
      BY <1>1, <1>10, <1>12
    <2>. QED
      BY <1>2, <1>12, <1>13, <1>16, <1>18, <2>1, <2>2, <2>3, <2>4, <2>5, SoundUpdate,
         SMTT(30)
  <1>20. Content(t, l, i) = d
    <2>1. g.page[p] = "VALID" /\ g.data[p] = d
      BY <1>4, <1>10, SMTT(30)
    <2>2. MergeSource(t, l, i) = p /\ p # NoPpn
      BY <1>4, <1>12, <1>13, <2>1, NoPpnNotPage, ZenonT(30) DEF MergeSource
    <2>. QED
      BY <1>12, <2>1, <2>2 DEF Content
  <1>21. \A j \in Offsets : j # i => Content(t, l, j) = Content(s, l, j)
    <2>. SUFFICES ASSUME NEW j \in Offsets, j # i
                  PROVE  Content(t, l, j) = Content(s, l, j)
      OBVIOUS
    <2>1. Place(t, l, j) = Place(s, l, j)
      BY <1>13 DEF Place
    <2>2. Place(s, l, j) # NoPpn =>
            /\ g.page[Place(s, l, j)] = s.flash.page[Place(s, l, j)]
            /\ g.data[Place(s, l, j)] = s.flash.data[Place(s, l, j)]
      BY <1>10, <1>17 DEF Place
    <2>. QED
      BY <1>1, <1>12, <2>1, <2>2, PlaceFacts DEF Content
  <1>. QED
    BY <1>19, <1>20, <1>21 DEF OthersKept

---------------------------------------------------------------------------
(* write, from the log block it finds or is given.                         *)

\* After a failure nothing more happens.
LEMMA StaysFailed ==
  ASSUME NEW s \in Tables, ~Alive(s), NEW l \in Lbas, NEW t, t = GiveLogBlock(s, l)
  PROVE  t \in Tables /\ t.abort = s.abort
  <1>1. TakeBlock(s, "LOG") = s
    BY DEF TakeBlock
  <1>2. t = [s EXCEPT !.log_map = s.log_map]
    BY <1>1 DEF GiveLogBlock
  <1>. QED
    BY <1>2 DEF Tables

LEMMA RoomMade ==
  ASSUME NEW s, Sound(s), NEW l \in Lbas, HasLog(s, l), NEW t, LogReclaimed(s, t, l)
  PROVE  /\ ~HasLog(t, l)
         /\ Cardinality(DOMAIN t.log_map) < BAST_LOG_BLOCK_LIMIT
  <1>1. /\ DOMAIN s.log_map \in SUBSET Lbas
        /\ Cardinality(DOMAIN s.log_map) <= BAST_LOG_BLOCK_LIMIT
    BY TablesFacts DEF Sound, Counted
  <1>2. DOMAIN t.log_map = DOMAIN s.log_map \ {l}
    BY DEF LogReclaimed
  <1>3. /\ Cardinality(DOMAIN s.log_map) \in Nat
        /\ Cardinality(DOMAIN s.log_map \ {l}) = Cardinality(DOMAIN s.log_map) - 1
    BY <1>1, LbaCount DEF HasLog
  <1>. QED
    BY <1>1, <1>2, <1>3, BastAssumption DEF HasLog

Written(s, t, l, i, d) == Sound(t) /\ Content(t, l, i) = d /\ OthersKept(s, t, l, i)

LEMMA WriteToLogEffect ==
  ASSUME NEW s, Sound(s), NEW l \in Lbas, HasLog(s, l), NEW i \in Offsets,
         NEW d \in Payloads, NEW t, t = WriteToLog(s, l, i, d)
  PROVE  \/ Written(s, t, l, i, d)
         \/ FailsSoundly(s, t) /\ ~(s.flash.pages_valid[LogBlock(s, l)] < BLOCK_SIZE)
  <1>. DEFINE n == s.flash.pages_valid[LogBlock(s, l)]
              r == Reclaim(s, l)
              f == GiveLogBlock(r, l)
              old == IF InLog(s, l, i) THEN LogPage(s, l, i) ELSE NoPpn
  <1>1. t = IF n < BLOCK_SIZE THEN Store(s, l, i, n, d, old)
            ELSE IF Alive(f) THEN Store(f, l, i, 0, d, NoPpn) ELSE f
    BY DEF WriteToLog, Sound, LogBlock
  <1>2. CASE n < BLOCK_SIZE
    BY <1>1, <1>2, StoreEffect DEF Written
  <1>3. CASE ~(n < BLOCK_SIZE)
    <2>1. FailsSoundly(s, r) \/ LogReclaimed(s, r, l)
      BY ReclaimEffect
    <2>. HIDE DEF r
    <2>2. CASE FailsSoundly(s, r)
      <3>1. r \in Tables /\ ~Alive(r)
        BY <2>2 DEF FailsSoundly, Alive
      <3>2. f \in Tables /\ f.abort = r.abort /\ ~Alive(f)
        BY <3>1, StaysFailed DEF Alive
      <3>. HIDE DEF f
      <3>. QED
        BY <1>1, <1>3, <2>2, <3>2 DEF FailsSoundly
    <2>3. CASE LogReclaimed(s, r, l)
      <3>1. /\ Sound(r) /\ Kept(s, r)
            /\ ~HasLog(r, l) /\ Cardinality(DOMAIN r.log_map) < BAST_LOG_BLOCK_LIMIT
        BY <2>3, RoomMade DEF LogReclaimed
      <3>2. \/ OutOfRoom(f)
            \/ /\ Sound(f) /\ Kept(r, f)
               /\ HasLog(f, l)
               /\ f.flash.pages_valid[LogBlock(f, l)] = 0
               /\ \A j \in Offsets : ~InLog(f, l, j)
        BY <3>1, GiveLogBlockEffect
      <3>. HIDE DEF f
      <3>3. CASE OutOfRoom(f)
        BY <1>1, <1>3, <3>3 DEF OutOfRoom, FailsSoundly, Alive
      <3>4. CASE ~OutOfRoom(f)
        <4>1. /\ Sound(f) /\ Kept(r, f) /\ Alive(f)
              /\ HasLog(f, l)
              /\ f.flash.pages_valid[LogBlock(f, l)] = 0
              /\ ~InLog(f, l, i)
          BY <3>2, <3>4 DEF Sound
        <4>2. t = Store(f, l, i, 0, d, NoPpn) /\ 0 < BLOCK_SIZE
          BY <1>1, <1>3, <4>1, GeometryAssumption
        <4>3. Sound(t) /\ Content(t, l, i) = d /\ OthersKept(f, t, l, i)
          BY <4>1, <4>2, StoreEffect
        <4>. QED
          BY <3>1, <4>1, <4>3 DEF Kept, OthersKept, Written
      <3>. QED
        BY <3>3, <3>4
    <2>. QED
      BY <2>1, <2>2, <2>3
  <1>. QED
    BY <1>2, <1>3

\* A write that gives l a log block first, in a state r that owes s nothing
\* but what the host sees.
LEMMA WriteToNewLog ==
  ASSUME NEW s, NEW r, Sound(r), Kept(s, r), NEW l \in Lbas, ~HasLog(r, l),
         Cardinality(DOMAIN r.log_map) < BAST_LOG_BLOCK_LIMIT,
         NEW i \in Offsets, NEW d \in Payloads,
         NEW t, t = WriteToLog(GiveLogBlock(r, l), l, i, d)
  PROVE  Written(s, t, l, i, d) \/ OutOfRoom(t)
  <1>. DEFINE f == GiveLogBlock(r, l)
  <1>1. \/ OutOfRoom(f)
        \/ /\ Sound(f) /\ Kept(r, f)
           /\ HasLog(f, l)
           /\ f.flash.pages_valid[LogBlock(f, l)] = 0
    BY GiveLogBlockEffect
  <1>2. t = WriteToLog(f, l, i, d)
    OBVIOUS
  <1>. HIDE DEF f
  <1>3. CASE OutOfRoom(f)
    <2>1. ~Alive(f)
      BY <1>3 DEF OutOfRoom, Alive
    <2>. QED
      BY <1>2, <1>3, <2>1 DEF WriteToLog
  <1>4. CASE ~OutOfRoom(f)
    <2>1. /\ Sound(f) /\ Kept(r, f) /\ HasLog(f, l)
          /\ f.flash.pages_valid[LogBlock(f, l)] < BLOCK_SIZE
      BY <1>1, <1>4, GeometryAssumption
    <2>2. Written(f, t, l, i, d)
      BY <1>2, <2>1, WriteToLogEffect
    <2>. QED
      BY <2>1, <2>2 DEF Kept, OthersKept, Written
  <1>. QED
    BY <1>3, <1>4

---------------------------------------------------------------------------
(* trim: the log copy, then the data page.                                 *)

\* What a record of tables that differs from s in its flash and in the log
\* and data block of l alone is for the other logical blocks.
LEMMA ViewOutside ==
  ASSUME NEW s, Sound(s), NEW t \in Tables, NEW l \in Lbas, NEW m \in Lbas, m # l,
         HasLog(t, m) <=> HasLog(s, m),
         HasLog(s, m) => t.log_map[m] = s.log_map[m],
         t.data_list[m] = s.data_list[m],
         \A c \in Blocks : c \notin Own(s, l) => SameBlock(s.flash, t.flash, c)
  PROVE  SameView(s, t, m)
  <1>1. s \in Tables /\ OwnersDistinct(s)
    BY DEF Sound
  <1>2. Own(s, m) \subseteq Blocks
    BY <1>1, TablesFacts DEF Own
  <1>3. Own(s, m) \cap Own(s, l) = {}
    BY <1>1 DEF OwnersDistinct
  <1>4. \A c \in Own(s, m) : SameBlock(s.flash, t.flash, c)
    BY <1>2, <1>3
  <1>. QED
    BY <1>1, <1>4, SameViewOf

LEMMA TrimLogEffect ==
  ASSUME NEW s, Sound(s), NEW l \in Lbas, NEW i \in Offsets, NEW t, t = TrimLog(s, l, i)
  PROVE  \/ FailsSoundly(s, t)
         \/ /\ Sound(t) /\ OthersKept(s, t, l, i)
            /\ ~InLog(t, l, i)
            /\ DataBlock(t, l) = DataBlock(s, l)
            /\ HasData(s, l) => t.flash.erases_remaining[DataBlock(s, l)]
                                  = s.flash.erases_remaining[DataBlock(s, l)]
  <1>1. CASE ~InLog(s, l, i)
    BY <1>1 DEF TrimLog, OthersKept
  <1>2. CASE InLog(s, l, i)
    <2>. DEFINE a == LogBlock(s, l)
                d == DataBlock(s, l)
                p == LogPage(s, l, i)
                g == Invalidate(s.flash, p)
                u == [s EXCEPT !.flash = g]
                w == Logged(u, l, i, NotLogged)
                x == dispose_logblock(w, l)
    <2>1. /\ s \in Tables /\ Alive(s) /\ ManagerSound(s.bm) /\ FlashSound(s.flash)
          /\ s.bm.data_active \in Int /\ s.bm.log_active \in Int
          /\ OwnersDistinct(s)
          /\ \A c \in Available(s) : Erased(s.flash, c)
          /\ HasLog(s, l)
      BY <1>2, TablesFacts DEF Sound, BlockManagerType, InLog
    <2>2. /\ a \in Blocks /\ a \notin Available(s) /\ a # d
          /\ HasData(s, l) => d \in Blocks /\ d \notin Available(s)
          /\ Own(s, l) = IF HasData(s, l) THEN {d, a} ELSE {a}
          /\ LogSound(s, l)
      BY <2>1, LogBlockFacts
    <2>3. p \in Ppns /\ p[1] = a /\ s.flash.page[p] = "VALID"
      BY <1>2, <2>1, <2>2, PlaceFacts DEF LogSound
    <2>. HIDE DEF p, a, d
    <2>4. /\ FlashSound(g)
          /\ g.erases_remaining = s.flash.erases_remaining
          /\ g.pages_valid = s.flash.pages_valid
          /\ \A q \in Ppns : /\ g.page[q] = IF q = p THEN "INVALID" ELSE s.flash.page[q]
                             /\ g.data[q] = s.flash.data[q]
          /\ \A c \in Blocks : c # a => SameBlock(s.flash, g, c)
      BY <2>1, <2>3, InvalidateEffect, SMTT(30)
    <2>. HIDE DEF g
    <2>5. /\ u \in Tables
          /\ u.flash = g /\ u.bm = s.bm /\ u.data_list = s.data_list /\ u.log_map = s.log_map
          /\ u.abort = s.abort
      BY <2>1, <2>4 DEF Tables, FlashSound
    <2>6. t = IF Inactive(w.flash, LogBlock(w, l)) THEN EraseBlock(x, LogBlock(w, l), "LOG")
                                                   ELSE w
      BY <1>2, <2>1 DEF TrimLog, InvalidatePage, LogBlock, p, g
    <2>. HIDE DEF u
    <2>7. /\ w \in Tables
          /\ w.flash = g /\ w.bm = s.bm /\ w.data_list = s.data_list /\ w.abort = s.abort
          /\ DOMAIN w.log_map = DOMAIN s.log_map
          /\ \A m \in DOMAIN s.log_map : m # l => w.log_map[m] = s.log_map[m]
          /\ LogBlock(w, l) = a
          /\ w.log_map[l].pages[i] = NotLogged
          /\ \A j \in Offsets : j # i => w.log_map[l].pages[j] = s.log_map[l].pages[j]
      BY <2>1, <2>5, LoggedEffect DEF HasLog, LogBlock, a
    <2>. HIDE DEF w
    <2>8. \A j \in Offsets : j # i =>
            /\ InLog(s, l, j) => /\ LogPage(s, l, j) \in Ppns /\ LogPage(s, l, j) # p
                                 /\ s.flash.page[LogPage(s, l, j)] = "VALID"
            /\ HasData(s, l) => DataPage(s, l, j) \in Ppns /\ DataPage(s, l, j) # p
      BY <1>2, <2>1, <2>2, <2>3, PlaceFacts DEF LogSound, p, d
    <2>9. /\ HasData(s, l) => DataPage(s, l, i) \in Ppns /\ DataPage(s, l, i) # p
      BY <2>1, <2>2, <2>3, PlaceFacts DEF d
    <2>10. CASE ~Inactive(g, a)
      <3>1. t = w
        BY <2>6, <2>7, <2>10
      <3>2. /\ t \in Tables /\ Alive(t) /\ t.flash = g /\ t.bm = s.bm
            /\ t.data_list = s.data_list
            /\ HasLog(t, l) /\ LogBlock(t, l) = a
            /\ DataBlock(t, l) = d /\ (HasData(t, l) <=> HasData(s, l))
            /\ ~InLog(t, l, i)
            /\ \A j \in Offsets : j # i => /\ InLog(t, l, j) <=> InLog(s, l, j)
                                           /\ LogPage(t, l, j) = LogPage(s, l, j)
            /\ \A j \in Offsets : DataPage(t, l, j) = DataPage(s, l, j)
        BY <2>1, <2>7, <3>1
           DEF Alive, HasLog, DataBlock, HasData, InLog, LogPage, DataPage, LogBlock, a, d
      <3>3. \A m \in Lbas : m # l => SameView(s, t, m)
        <4>1. \A c \in Blocks : c \notin Own(s, l) => SameBlock(s.flash, t.flash, c)
          BY <2>2, <2>4, <3>2
        <4>. QED
          BY <2>7, <3>1, <3>2, <4>1, ViewOutside DEF HasLog
      <3>4. LogSound(t, l)
        <4>1. g.pages_valid[a] = s.flash.pages_valid[a]
          BY <2>4
        <4>2. ASSUME NEW k \in Offsets
              PROVE  g.page[<<a, k>>] = "EMPTY" <=> s.flash.page[<<a, k>>] = "EMPTY"
          <5>1. <<a, k>> \in Ppns
            BY <2>2 DEF Ppns
          <5>. QED
            BY <2>3, <2>4, <5>1
        <4>3. ASSUME NEW j \in Offsets, InLog(t, l, j)
              PROVE  /\ g.page[LogPage(t, l, j)] = "VALID"
                     /\ HasData(t, l) => g.page[DataPage(t, l, j)] # "VALID"
          <5>1. j # i /\ InLog(s, l, j)
            BY <3>2, <4>3
          <5>2. HasData(s, l) => s.flash.page[DataPage(s, l, j)] # "VALID"
            BY <2>2, <5>1 DEF LogSound
          <5>. QED
            BY <2>4, <2>8, <3>2, <5>1, <5>2
        <4>4. ASSUME NEW j \in Offsets, NEW k \in Offsets, InLog(t, l, j), InLog(t, l, k),
                     LogPage(t, l, j) = LogPage(t, l, k)
              PROVE  j = k
          BY <2>2, <3>2, <4>4 DEF LogSound
        <4>. QED
          BY <2>2, <3>2, <4>1, <4>2, <4>3, <4>4 DEF LogSound, a
      <3>5. Sound(t) /\ \A m \in Lbas : m # l => \A j \in Offsets : Content(t, m, j) = Content(s, m, j)
        <4>1. Own(t, l) = Own(s, l) /\ Own(s, l) \cap Available(s) = {}
          BY <2>1, <3>2 DEF Own, OwnersDistinct, a, d
        <4>2. Available(t) = Available(s)
          BY <3>2 DEF Available
        <4>3. \A c \in Available(t) : Erased(t.flash, c)
          <5>1. \A c \in Available(s) : c \in Blocks /\ c # a
            BY <2>1, <2>2, TablesFacts, ListMembers DEF Available, BlockManagerType
          <5>. QED
            BY <2>1, <2>4, <3>2, <4>2, <5>1, StaysErased
        <4>. QED
          BY <2>1, <2>2, <2>4, <3>2, <3>3, <3>4, <4>1, <4>2, <4>3, SoundUpdate DEF a, d
      <3>6. ASSUME NEW j \in Offsets, j # i
            PROVE  Content(t, l, j) = Content(s, l, j)
        <4>1. Place(t, l, j) = Place(s, l, j)
          BY <3>2, <3>6 DEF Place
        <4>2. Place(s, l, j) # NoPpn =>
                /\ g.page[Place(s, l, j)] = s.flash.page[Place(s, l, j)]
                /\ g.data[Place(s, l, j)] = s.flash.data[Place(s, l, j)]
          BY <2>4, <2>8, <3>6 DEF Place
        <4>. QED
          BY <2>1, <3>2, <4>1, <4>2, PlaceFacts DEF Content
      <3>. QED
        BY <2>4, <3>2, <3>5, <3>6 DEF OthersKept, d
    <2>11. CASE Inactive(g, a)
      <3>1. t = EraseBlock(x, a, "LOG")
        BY <2>6, <2>7, <2>11
      <3>2. /\ x \in Tables /\ Alive(x)
            /\ x.flash = g /\ x.bm = s.bm /\ x.data_list = s.data_list
            /\ DOMAIN x.log_map = DOMAIN s.log_map \ {l}
            /\ \A m \in DOMAIN s.log_map : m # l => x.log_map[m] = s.log_map[m]
        BY <2>1, <2>7, DisposeLogEffect DEF Alive
      <3>. HIDE DEF x
      <3>3. Available(x) = Available(s)
        BY <3>2 DEF Available
      <3>4. IF CanErase(g, a)
              THEN /\ t \in Tables /\ Alive(t)
                   /\ FlashSound(t.flash) /\ Erased(t.flash, a)
                   /\ \A c \in Blocks : c # a =>
                        /\ SameBlock(g, t.flash, c)
                        /\ t.flash.erases_remaining[c] = g.erases_remaining[c]
                   /\ t.data_list = s.data_list /\ t.log_map = x.log_map
                   /\ ManagerSound(t.bm)
                   /\ Available(t) = Available(s) \cup {a}
                   /\ t.bm.data_active = s.bm.data_active - 0
                   /\ t.bm.log_active = s.bm.log_active - 1
              ELSE t \in Tables /\ t.abort = "erase_failed" /\ g.erases_remaining[a] = 0
        BY <2>1, <2>2, <2>4, <3>1, <3>2, <3>3, EraseBlockEffect DEF BlockTypes
      <3>5. CASE ~CanErase(g, a)
        BY <2>2, <2>4, <3>4, <3>5 DEF FailsSoundly, Worn
      <3>6. CASE CanErase(g, a)
        <4>1. /\ ~HasLog(t, l)
              /\ DataBlock(t, l) = d /\ (HasData(t, l) <=> HasData(s, l))
              /\ \A j \in Offsets : ~InLog(t, l, j)
              /\ \A j \in Offsets : DataPage(t, l, j) = DataPage(s, l, j)
          BY <3>2, <3>4, <3>6 DEF HasLog, DataBlock, HasData, InLog, DataPage, d
        <4>2. \A m \in Lbas : m # l => SameView(s, t, m)
          <5>1. \A c \in Blocks : c # a => SameBlock(s.flash, t.flash, c)
            BY <2>4, <3>4, <3>6 DEF SameBlock
          <5>2. \A c \in Blocks : c \notin Own(s, l) => SameBlock(s.flash, t.flash, c)
            BY <2>2, <5>1
          <5>. QED
            BY <3>2, <3>4, <3>6, <5>2, ViewOutside DEF HasLog
        <4>3. Sound(t) /\ \A m \in Lbas : m # l => \A j \in Offsets : Content(t, m, j) = Content(s, m, j)
          <5>1. Own(t, l) = Own(s, l) \ {a} /\ a \in Own(s, l) /\ Own(s, l) \cap Available(s) = {}
            BY <2>1, <2>2, <4>1 DEF Own, OwnersDistinct, d
          <5>2. Available(t) \cup Own(t, l) = Available(s) \cup Own(s, l)
            BY <3>4, <3>6, <5>1
          <5>3. Available(t) \cap Own(t, l) = {}
            BY <3>4, <3>6, <5>1
          <5>4. \A c \in Available(t) : Erased(t.flash, c)
            <6>1. \A c \in Available(s) : c \in Blocks /\ c # a
              BY <2>1, <2>2, TablesFacts, ListMembers DEF Available, BlockManagerType
            <6>2. \A c \in Available(s) : Erased(g, c)
              BY <2>1, <2>4, <6>1, StaysErased
            <6>3. \A c \in Available(s) : Erased(t.flash, c)
              BY <3>4, <3>6, <6>1, <6>2, StaysErased
            <6>. QED
              BY <3>4, <3>6, <6>3
          <5>5. t.bm.data_active + (IF HasData(s, l) THEN 1 ELSE 0)
                  = s.bm.data_active + (IF HasData(t, l) THEN 1 ELSE 0)
            BY <2>1, <3>4, <3>6, <4>1
          <5>6. t.bm.log_active + (IF HasLog(s, l) THEN 1 ELSE 0)
                  = s.bm.log_active + (IF HasLog(t, l) THEN 1 ELSE 0)
            BY <2>1, <3>4, <3>6, <4>1
          <5>. QED
            BY <3>4, <3>6, <4>1, <4>2, <5>2, <5>3, <5>4, <5>5, <5>6, SoundUpdate
        <4>4. ASSUME NEW j \in Offsets, j # i
              PROVE  Content(t, l, j) = Content(s, l, j)
          <5>1. ~InLog(s, l, j)
            <6>. SUFFICES ASSUME InLog(s, l, j) PROVE FALSE
              OBVIOUS
            <6>1. LogPage(s, l, j) \in Ppns /\ g.page[LogPage(s, l, j)] = "VALID"
              BY <2>4, <2>8, <4>4
            <6>2. \A k \in Offsets : g.page[<<a, k>>] = "INVALID"
              BY <2>2, <2>4, <2>11, AllInvalid DEF Inactive
            <6>3. LogPage(s, l, j) = <<a, s.log_map[l].pages[j]>> /\ s.log_map[l].pages[j] \in Offsets
              BY <2>1, TablesFacts DEF InLog, LogPage, LogBlock, a
            <6>. QED
              BY <6>1, <6>2, <6>3
          <5>2. Place(t, l, j) = Place(s, l, j)
            BY <4>1, <5>1 DEF Place
          <5>3. Place(s, l, j) # NoPpn =>
                  /\ t.flash.page[Place(s, l, j)] = s.flash.page[Place(s, l, j)]
                  /\ t.flash.data[Place(s, l, j)] = s.flash.data[Place(s, l, j)]
            <6>. SUFFICES ASSUME Place(s, l, j) # NoPpn
                          PROVE  /\ t.flash.page[Place(s, l, j)] = s.flash.page[Place(s, l, j)]
                                 /\ t.flash.data[Place(s, l, j)] = s.flash.data[Place(s, l, j)]
              OBVIOUS
            <6>1. HasData(s, l) /\ Place(s, l, j) = <<d, j>>
              BY <5>1 DEF Place, DataPage, DataBlock, d
            <6>2. SameBlock(s.flash, g, d) /\ SameBlock(g, t.flash, d)
              BY <2>2, <2>4, <3>4, <3>6, <6>1
            <6>. QED
              BY <6>1, <6>2 DEF SameBlock
          <5>. QED
            BY <2>1, <3>4, <3>6, <5>2, <5>3, PlaceFacts DEF Content
        <4>5. HasData(s, l) => t.flash.erases_remaining[d] = s.flash.erases_remaining[d]
          BY <2>2, <2>4, <3>4, <3>6
        <4>. QED
          BY <4>1, <4>3, <4>4, <4>5 DEF OthersKept, d
      <3>. QED
        BY <3>5, <3>6
    <2>. QED
      BY <2>10, <2>11
  <1>. QED
    BY <1>1, <1>2

LEMMA TrimDataEffect ==
  ASSUME NEW s, Sound(s), NEW l \in Lbas, NEW i \in Offsets, ~InLog(s, l, i),
         NEW t, t = TrimData(s, l, i)
  PROVE  \/ /\ t \in Tables /\ t.abort = "erase_failed"
            /\ HasData(s, l) /\ s.flash.erases_remaining[DataBlock(s, l)] = 0
         \/ Written(s, t, l, i, NoData)
  <1>0. /\ s \in Tables /\ Alive(s) /\ ManagerSound(s.bm) /\ FlashSound(s.flash)
        /\ s.bm.data_active \in Int /\ s.bm.log_active \in Int
        /\ OwnersDistinct(s)
        /\ \A c \in Available(s) : Erased(s.flash, c)
    BY TablesFacts DEF Sound, BlockManagerType
  <1>1. CASE ~HasData(s, l)
    <2>1. t = s
      BY <1>1 DEF TrimData
    <2>2. Content(s, l, i) = NoData
      BY <1>1 DEF Content, MergeSource
    <2>. QED
      BY <2>1, <2>2 DEF Written, OthersKept
  <1>2. CASE HasData(s, l)
    <2>. DEFINE d == DataBlock(s, l)
                p == DataPage(s, l, i)
                g == Invalidate(s.flash, p)
                u == [s EXCEPT !.flash = g]
                x == Remapped(u, l, NoBlock)
    <2>1. /\ p \in Ppns /\ p[1] = d /\ d \in Blocks
      BY <1>0, <1>2, PlaceFacts, TablesFacts
    <2>2. /\ d \in Own(s, l) /\ d \notin Available(s)
          /\ HasLog(s, l) => /\ LogBlock(s, l) # d
                             /\ LogBlock(s, l) \in Blocks
                             /\ Own(s, l) = {d, LogBlock(s, l)}
                             /\ LogSound(s, l)
          /\ ~HasLog(s, l) => Own(s, l) = {d}
      <3>1. d \in Own(s, l)
        BY <1>2 DEF Own
      <3>2. Own(s, l) \cap Available(s) = {}
        BY <1>0 DEF OwnersDistinct
      <3>3. HasLog(s, l) => /\ LogBlock(s, l) # d
                            /\ LogBlock(s, l) \in Blocks
                            /\ Own(s, l) = {d, LogBlock(s, l)}
                            /\ LogSound(s, l)
        BY <1>2, LogBlockFacts
      <3>4. ~HasLog(s, l) => Own(s, l) = {d}
        BY <1>2 DEF Own
      <3>. QED
        BY <3>1, <3>2, <3>3, <3>4
    <2>. HIDE DEF p, d
    <2>4. /\ FlashSound(g)
          /\ g.erases_remaining = s.flash.erases_remaining
          /\ \A q \in Ppns : /\ g.page[q] = IF q = p THEN "INVALID" ELSE s.flash.page[q]
                             /\ g.data[q] = s.flash.data[q]
          /\ \A c \in Blocks : c # d => SameBlock(s.flash, g, c)
      BY <1>0, <2>1, InvalidateEffect
    <2>. HIDE DEF g
    <2>5. /\ u \in Tables /\ Alive(u)
          /\ u.flash = g /\ u.bm = s.bm /\ u.data_list = s.data_list /\ u.log_map = s.log_map
      BY <1>0, <2>4 DEF Tables, FlashSound, Alive
    <2>6. t = IF Inactive(g, d) THEN EraseBlock(x, d, "DATA") ELSE u
      <3>1. InvalidatePage(s, p) = u
        BY <1>0 DEF InvalidatePage, g
      <3>2. u.data_list[l] = d
        BY <2>5 DEF DataBlock, d
      <3>. HIDE DEF u
      <3>3. t = IF Inactive(u.flash, u.data_list[l])
                  THEN EraseBlock(x, u.data_list[l], "DATA") ELSE u
        BY <1>2, <3>1 DEF TrimData, Remapped, p
      <3>. QED
        BY <2>5, <3>2, <3>3
    <2>. HIDE DEF u
    <2>7. \A j \in Offsets :
            /\ InLog(s, l, j) => /\ LogPage(s, l, j) \in Ppns /\ LogPage(s, l, j) # p
                                 /\ s.flash.page[LogPage(s, l, j)] = "VALID"
                                 /\ s.flash.page[DataPage(s, l, j)] # "VALID"
            /\ DataPage(s, l, j) \in Ppns
            /\ j # i => DataPage(s, l, j) # p
      <3>. SUFFICES ASSUME NEW j \in Offsets
                    PROVE  /\ InLog(s, l, j) =>
                                /\ LogPage(s, l, j) \in Ppns /\ LogPage(s, l, j) # p
                                /\ s.flash.page[LogPage(s, l, j)] = "VALID"
                                /\ s.flash.page[DataPage(s, l, j)] # "VALID"
                           /\ DataPage(s, l, j) \in Ppns
                           /\ j # i => DataPage(s, l, j) # p
        OBVIOUS
      <3>1. DataPage(s, l, j) \in Ppns
        BY <1>0, <1>2, PlaceFacts
      <3>2. j # i => DataPage(s, l, j) # p
        BY DEF p, DataPage
      <3>3. ASSUME InLog(s, l, j)
            PROVE  /\ LogPage(s, l, j) \in Ppns /\ LogPage(s, l, j) # p
                   /\ s.flash.page[LogPage(s, l, j)] = "VALID"
                   /\ s.flash.page[DataPage(s, l, j)] # "VALID"
        <4>1. HasLog(s, l)
          BY <3>3 DEF InLog
        <4>2. LogPage(s, l, j) \in Ppns /\ LogPage(s, l, j)[1] = LogBlock(s, l)
          BY <1>0, <3>3, PlaceFacts
        <4>. QED
          BY <1>2, <2>1, <2>2, <3>3, <4>1, <4>2 DEF LogSound
      <3>. QED
        BY <3>1, <3>2, <3>3
    \* The log block is not touched, and no page of d becomes VALID.
    <2>8. ASSUME t \in Tables, t.log_map = s.log_map, HasLog(s, l),
                 SameBlock(g, t.flash, LogBlock(s, l)),
                 HasData(t, l) => t.flash = g /\ DataBlock(t, l) = d
          PROVE  LogSound(t, l) /\ LogBlock(t, l) = LogBlock(s, l) /\ HasLog(t, l)
      <3>1. /\ \A j \in Offsets : /\ InLog(t, l, j) <=> InLog(s, l, j)
                                  /\ LogPage(t, l, j) = LogPage(s, l, j)
            /\ LogBlock(t, l) = LogBlock(s, l) /\ HasLog(t, l)
        BY <2>8 DEF InLog, LogPage, LogBlock, HasLog
      <3>2. SameBlock(s.flash, t.flash, LogBlock(s, l))
        BY <2>2, <2>4, <2>8 DEF SameBlock
      <3>3. ASSUME NEW j \in Offsets, InLog(s, l, j)
            PROVE  /\ t.flash.page[LogPage(s, l, j)] = "VALID"
                   /\ HasData(t, l) => t.flash.page[DataPage(t, l, j)] # "VALID"
        <4>1. LogPage(s, l, j) = <<LogBlock(s, l), s.log_map[l].pages[j]>>
              /\ s.log_map[l].pages[j] \in Offsets
          BY <1>0, <3>3, TablesFacts DEF InLog, LogPage, LogBlock
        <4>2. t.flash.page[LogPage(s, l, j)] = "VALID"
          BY <2>7, <3>2, <3>3, <4>1 DEF SameBlock
        <4>3. ASSUME HasData(t, l)
              PROVE  t.flash.page[DataPage(t, l, j)] # "VALID"
          <5>1. t.flash = g /\ DataPage(t, l, j) = DataPage(s, l, j)
            BY <2>8, <4>3 DEF DataPage, DataBlock, d
          <5>. QED
            BY <2>4, <2>7, <3>3, <5>1
        <4>. QED
          BY <4>2, <4>3
      <3>4. /\ t.flash.pages_valid[LogBlock(s, l)] = s.flash.pages_valid[LogBlock(s, l)]
            /\ \A k \in Offsets : t.flash.page[<<LogBlock(s, l), k>>]
                                    = s.flash.page[<<LogBlock(s, l), k>>]
        BY <3>2 DEF SameBlock
      <3>. QED
        BY <2>2, <2>8, <3>1, <3>3, <3>4 DEF LogSound
    <2>9. CASE ~Inactive(g, d)
      <3>1. t = u
        BY <2>6, <2>9
      <3>2. /\ t \in Tables /\ Alive(t) /\ t.flash = g /\ t.bm = s.bm
            /\ t.log_map = s.log_map /\ t.data_list = s.data_list
            /\ DataBlock(t, l) = d /\ HasData(t, l) /\ (HasLog(t, l) <=> HasLog(s, l))
            /\ HasLog(s, l) => LogBlock(t, l) = LogBlock(s, l)
            /\ \A j \in Offsets : Place(t, l, j) = Place(s, l, j)
        BY <1>2, <2>5, <3>1
           DEF DataBlock, HasData, HasLog, LogBlock, Place, InLog, LogPage, DataPage, d
      <3>3. \A m \in Lbas : m # l => SameView(s, t, m)
        <4>1. \A c \in Blocks : c \notin Own(s, l) => SameBlock(s.flash, t.flash, c)
          BY <2>2, <2>4, <3>2
        <4>. QED
          BY <3>2, <4>1, ViewOutside DEF HasLog
      <3>4. Sound(t) /\ \A m \in Lbas : m # l => \A j \in Offsets : Content(t, m, j) = Content(s, m, j)
        <4>1. Own(t, l) = Own(s, l) /\ Own(s, l) \cap Available(s) = {}
          BY <1>0, <1>2, <3>2 DEF Own, OwnersDistinct, d
        <4>2. Available(t) = Available(s)
          BY <3>2 DEF Available
        <4>3. \A c \in Available(t) : Erased(t.flash, c)
          <5>1. \A c \in Available(s) : c \in Blocks /\ c # d
            BY <1>0, <2>2, TablesFacts, ListMembers DEF Available, BlockManagerType
          <5>. QED
            BY <1>0, <2>4, <3>2, <4>2, <5>1, StaysErased
        <4>4. HasLog(t, l) => DataBlock(t, l) # LogBlock(t, l) /\ LogSound(t, l)
          <5>1. SameBlock(g, t.flash, LogBlock(s, l))
            BY <3>2 DEF SameBlock
          <5>. QED
            BY <2>2, <2>8, <3>2, <5>1
        <4>. QED
          BY <1>0, <1>2, <2>4, <3>2, <3>3, <4>1, <4>2, <4>3, <4>4, SoundUpdate
      <3>5. ASSUME NEW j \in Offsets, j # i
            PROVE  Content(t, l, j) = Content(s, l, j)
        <4>1. Place(s, l, j) # NoPpn =>
                /\ g.page[Place(s, l, j)] = s.flash.page[Place(s, l, j)]
                /\ g.data[Place(s, l, j)] = s.flash.data[Place(s, l, j)]
          BY <2>4, <2>7, <3>5 DEF Place
        <4>. QED
          BY <1>0, <3>2, <4>1, PlaceFacts DEF Content
      <3>6. Content(t, l, i) = NoData
        <4>1. Place(s, l, i) = p
          BY <1>2 DEF Place, p
        <4>2. g.page[p] # "VALID"
          BY <2>1, <2>4
        <4>. QED
          BY <3>2, <4>1, <4>2, PlaceFacts DEF Content
      <3>. QED
        BY <3>4, <3>5, <3>6 DEF OthersKept, Written
    <2>10. CASE Inactive(g, d)
      <3>1. t = EraseBlock(x, d, "DATA")
        BY <2>6, <2>10
      <3>2. /\ x \in Tables /\ Alive(x)
            /\ x.flash = g /\ x.bm = s.bm /\ x.log_map = s.log_map
            /\ x.data_list[l] = NoBlock
            /\ \A m \in Lbas : m # l => x.data_list[m] = s.data_list[m]
        BY <2>5, RemappedEffect DEF Alive
      <3>. HIDE DEF x
      <3>3. Available(x) = Available(s)
        BY <3>2 DEF Available
      <3>4. IF CanErase(g, d)
              THEN /\ t \in Tables /\ Alive(t)
                   /\ FlashSound(t.flash) /\ Erased(t.flash, d)
                   /\ \A c \in Blocks : c # d => SameBlock(g, t.flash, c)
                   /\ t.data_list = x.data_list /\ t.log_map = s.log_map
                   /\ ManagerSound(t.bm)
                   /\ Available(t) = Available(s) \cup {d}
                   /\ t.bm.data_active = s.bm.data_active - 1
                   /\ t.bm.log_active = s.bm.log_active - 0
              ELSE t \in Tables /\ t.abort = "erase_failed" /\ g.erases_remaining[d] = 0
        BY <1>0, <2>1, <2>2, <2>4, <3>1, <3>2, <3>3, EraseBlockEffect DEF BlockTypes
      <3>5. CASE ~CanErase(g, d)
        BY <1>2, <2>4, <3>4, <3>5 DEF d
      <3>6. CASE CanErase(g, d)
        <4>1. /\ ~HasData(t, l) /\ DataBlock(t, l) = NoBlock
              /\ (HasLog(t, l) <=> HasLog(s, l))
              /\ HasLog(s, l) => LogBlock(t, l) = LogBlock(s, l)
              /\ \A j \in Offsets : InLog(t, l, j) <=> InLog(s, l, j)
              /\ \A j \in Offsets : LogPage(t, l, j) = LogPage(s, l, j)
          BY <3>2, <3>4, <3>6 DEF HasLog, DataBlock, HasData, InLog, LogPage, LogBlock
        <4>2. \A m \in Lbas : m # l => SameView(s, t, m)
          <5>1. \A c \in Blocks : c # d => SameBlock(s.flash, t.flash, c)
            BY <2>4, <3>4, <3>6 DEF SameBlock
          <5>2. \A c \in Blocks : c \notin Own(s, l) => SameBlock(s.flash, t.flash, c)
            BY <2>2, <5>1
          <5>. QED
            BY <3>2, <3>4, <3>6, <5>2, ViewOutside DEF HasLog
        <4>3. Sound(t) /\ \A m \in Lbas : m # l => \A j \in Offsets : Content(t, m, j) = Content(s, m, j)
          <5>0. Own(s, l) \cap Available(s) = {}
            BY <1>0 DEF OwnersDistinct
          <5>1. Own(t, l) = Own(s, l) \ {d}
            BY <1>2, <2>2, <4>1 DEF Own
          <5>2. Available(t) \cup Own(t, l) = Available(s) \cup Own(s, l)
            BY <2>2, <3>4, <3>6, <5>1
          <5>3. Available(t) \cap Own(t, l) = {}
            BY <3>4, <3>6, <5>0, <5>1
          <5>4. \A c \in Available(t) : Erased(t.flash, c)
            <6>1. \A c \in Available(s) : c \in Blocks /\ c # d
              BY <1>0, <2>2, TablesFacts, ListMembers DEF Available, BlockManagerType
            <6>2. \A c \in Available(s) : Erased(g, c)
              BY <1>0, <2>4, <6>1, StaysErased
            <6>3. \A c \in Available(s) : Erased(t.flash, c)
              BY <3>4, <3>6, <6>1, <6>2, StaysErased
            <6>. QED
              BY <3>4, <3>6, <6>3
          <5>5. t.bm.data_active + (IF HasData(s, l) THEN 1 ELSE 0)
                  = s.bm.data_active + (IF HasData(t, l) THEN 1 ELSE 0)
            BY <1>0, <1>2, <3>4, <3>6, <4>1
          <5>6. t.bm.log_active + (IF HasLog(s, l) THEN 1 ELSE 0)
                  = s.bm.log_active + (IF HasLog(t, l) THEN 1 ELSE 0)
            BY <1>0, <3>4, <3>6, <4>1
          <5>7. HasLog(t, l) => DataBlock(t, l) # LogBlock(t, l) /\ LogSound(t, l)
            <6>1. HasLog(s, l) => SameBlock(g, t.flash, LogBlock(s, l)) /\ LogBlock(s, l) # NoBlock
              BY <2>2, <3>4, <3>6 DEF NoBlock, Blocks
            <6>. QED
              BY <2>8, <3>4, <3>6, <4>1, <6>1
          <5>. QED
            BY <3>4, <3>6, <4>1, <4>2, <5>2, <5>3, <5>4, <5>5, <5>6, <5>7, SoundUpdate
        <4>4. \A k \in Offsets : g.page[<<d, k>>] = "INVALID"
          BY <2>1, <2>4, <2>10, AllInvalid DEF Inactive
        <4>5. ASSUME NEW j \in Offsets, j # i
              PROVE  Content(t, l, j) = Content(s, l, j)
          <5>1. CASE InLog(s, l, j)
            <6>1. Place(t, l, j) = LogPage(s, l, j) /\ Place(s, l, j) = LogPage(s, l, j)
              BY <4>1, <5>1 DEF Place
            <6>2. /\ LogPage(s, l, j) = <<LogBlock(s, l), s.log_map[l].pages[j]>>
                  /\ s.log_map[l].pages[j] \in Offsets /\ HasLog(s, l)
              BY <1>0, <5>1, TablesFacts DEF InLog, LogPage, LogBlock
            <6>3. SameBlock(s.flash, g, LogBlock(s, l)) /\ SameBlock(g, t.flash, LogBlock(s, l))
              BY <2>2, <2>4, <3>4, <3>6, <6>2
            <6>4. /\ t.flash.page[LogPage(s, l, j)] = s.flash.page[LogPage(s, l, j)]
                  /\ t.flash.data[LogPage(s, l, j)] = s.flash.data[LogPage(s, l, j)]
              BY <6>2, <6>3 DEF SameBlock
            <6>. QED
              BY <1>0, <3>4, <3>6, <6>1, <6>4, PlaceFacts DEF Content
          <5>2. CASE ~InLog(s, l, j)
            <6>1. MergeSource(t, l, j) = NoPpn
              BY <4>1, <5>2 DEF MergeSource
            <6>2. Place(s, l, j) = DataPage(s, l, j) /\ DataPage(s, l, j) = <<d, j>>
              BY <1>2, <5>2 DEF Place, DataPage, DataBlock, d
            <6>3. s.flash.page[DataPage(s, l, j)] = "INVALID"
              BY <2>4, <2>7, <4>4, <4>5, <6>2
            <6>4. MergeSource(s, l, j) = NoPpn
              BY <1>0, <6>2, <6>3, PlaceFacts
            <6>. QED
              BY <6>1, <6>4 DEF Content
          <5>. QED
            BY <5>1, <5>2
        <4>6. Content(t, l, i) = NoData
          <5>1. ~InLog(t, l, i)
            BY <4>1
          <5>. QED
            BY <4>1, <5>1 DEF Content, MergeSource
        <4>. QED
          BY <4>3, <4>5, <4>6 DEF OthersKept, Written
      <3>. QED
        BY <3>5, <3>6
    <2>. QED
      BY <2>9, <2>10
  <1>. QED
    BY <1>1, <1>2

LEMMA TrimEffect ==
  ASSUME NEW s, Sound(s), NEW l \in Lbas, NEW i \in Offsets,
         NEW t, t = TrimData(TrimLog(s, l, i), l, i)
  PROVE  FailsSoundly(s, t) \/ Written(s, t, l, i, NoData)
  <1>. DEFINE u == TrimLog(s, l, i)
  <1>1. \/ FailsSoundly(s, u)
        \/ /\ Sound(u) /\ OthersKept(s, u, l, i)
           /\ ~InLog(u, l, i)
           /\ DataBlock(u, l) = DataBlock(s, l)
           /\ HasData(s, l) => u.flash.erases_remaining[DataBlock(s, l)]
                                 = s.flash.erases_remaining[DataBlock(s, l)]
    BY TrimLogEffect
  <1>2. t = TrimData(u, l, i)
    OBVIOUS
  <1>3. s \in Tables
    BY DEF Sound
  <1>. HIDE DEF u
  <1>4. CASE FailsSoundly(s, u)
    <2>1. u \in Tables /\ ~Alive(u) /\ DataBlock(u, l) \in Blocks \cup {NoBlock}
      BY <1>4, TablesFacts DEF FailsSoundly, Alive, DataBlock
    <2>2. t \in Tables /\ t.abort = u.abort
      <3>1. CASE ~HasData(u, l)
        BY <1>2, <2>1, <3>1 DEF TrimData
      <3>2. CASE HasData(u, l)
        <4>. DEFINE x == Remapped(u, l, NoBlock)
        <4>1. x \in Tables /\ x.abort = u.abort /\ ~Alive(x)
          BY <2>1, RemappedEffect DEF Alive
        <4>2. InvalidatePage(u, DataPage(u, l, i)) = u
          BY <2>1 DEF InvalidatePage
        <4>3. t = IF Inactive(u.flash, u.data_list[l])
                    THEN EraseBlock(x, u.data_list[l], "DATA") ELSE u
          BY <1>2, <3>2, <4>2 DEF TrimData, Remapped
        <4>. HIDE DEF x
        <4>4. EraseBlock(x, u.data_list[l], "DATA") = x
          BY <4>1 DEF EraseBlock
        <4>. QED
          BY <2>1, <4>1, <4>3, <4>4
      <3>. QED
        BY <3>1, <3>2
    <2>. QED
      BY <1>4, <2>2 DEF FailsSoundly
  <1>5. CASE ~FailsSoundly(s, u)
    <2>1. /\ Sound(u) /\ OthersKept(s, u, l, i)
          /\ ~InLog(u, l, i)
          /\ DataBlock(u, l) = DataBlock(s, l)
          /\ HasData(s, l) => u.flash.erases_remaining[DataBlock(s, l)]
                                = s.flash.erases_remaining[DataBlock(s, l)]
      BY <1>1, <1>5
    <2>2. \/ /\ t \in Tables /\ t.abort = "erase_failed"
             /\ HasData(u, l) /\ u.flash.erases_remaining[DataBlock(u, l)] = 0
          \/ Written(u, t, l, i, NoData)
      BY <1>2, <2>1, TrimDataEffect
    <2>3. CASE Written(u, t, l, i, NoData)
      BY <2>1, <2>3 DEF Written, OthersKept
    <2>4. CASE ~Written(u, t, l, i, NoData)
      <3>1. HasData(s, l) /\ DataBlock(s, l) \in Blocks
        BY <1>3, <2>1, <2>2, <2>4, TablesFacts DEF HasData, DataBlock
      <3>. QED
        BY <2>1, <2>2, <2>4, <3>1 DEF FailsSoundly, Worn
    <2>. QED
      BY <2>3, <2>4
  <1>. QED
    BY <1>4, <1>5

---------------------------------------------------------------------------
(* Requests.                                                               *)

\* The block last taken is not part of the state between two requests.
LEMMA TakenForgotten ==
  ASSUME NEW s, Sound(s), NEW t \in Tables,
         t.flash = s.flash, t.bm = s.bm, t.data_list = s.data_list,
         t.log_map = s.log_map, t.abort = s.abort
  PROVE  /\ Sound(t)
         /\ \A l \in Lbas, i \in Offsets : Content(t, l, i) = Content(s, l, i)
  <1>1. s \in Tables /\ Alive(s) /\ OwnersDistinct(s) /\ AllOwned(s) /\ Counted(s)
    BY DEF Sound
  <1>2. \A l \in Lbas : /\ HasLog(t, l) <=> HasLog(s, l)
                        /\ HasData(t, l) <=> HasData(s, l)
                        /\ LogBlock(t, l) = LogBlock(s, l)
                        /\ DataBlock(t, l) = DataBlock(s, l)
    BY DEF HasLog, HasData, LogBlock, DataBlock
  <1>3. \A l \in Lbas : SameView(s, t, l)
    BY <1>2 DEF SameView, SameBlock
  <1>4. \A l \in Lbas : Own(t, l) = Own(s, l)
    BY <1>2 DEF Own
  <1>5. Available(t) = Available(s) /\ Mapped(t) = Mapped(s)
    BY <1>2 DEF Available, Mapped
  <1>6. OwnersDistinct(t) /\ AllOwned(t) /\ Counted(t)
    BY <1>1, <1>2, <1>4, <1>5 DEF OwnersDistinct, AllOwned, Counted
  <1>7. \A l \in Lbas : HasLog(t, l) => LogSound(t, l)
    BY <1>1, <1>2, <1>3, SameViewKeeps DEF Sound
  <1>8. \A l \in Lbas, i \in Offsets : Content(t, l, i) = Content(s, l, i)
    BY <1>1, <1>3, SameViewKeeps
  <1>. QED
    BY <1>5, <1>6, <1>7, <1>8 DEF Sound, Alive

\* A logical page is one offset of one logical block.
LEMMA LpnFacts ==
  ASSUME NEW lpn \in Lpns
  PROVE  /\ lpn \in Nat
         /\ lba(lpn) \in Lbas /\ off(lpn) \in Offsets
         /\ lpn = BLOCK_SIZE * lba(lpn) + off(lpn)
  <1>1. /\ NumLbas \in Nat /\ BLOCK_SIZE \in Nat \ {0}
        /\ lpn \in Nat /\ lpn < NumLbas * BLOCK_SIZE
    BY BastAssumption, GeometryAssumption DEF Lpns
  <1>2. NumLbas * BLOCK_SIZE = BLOCK_SIZE * NumLbas
    BY <1>1
  <1>3. /\ lba(lpn) \in Nat /\ off(lpn) \in 0 .. BLOCK_SIZE - 1
        /\ lpn = BLOCK_SIZE * lba(lpn) + off(lpn)
    BY <1>1, DivMod DEF lba, off
  <1>4. lba(lpn) < NumLbas
    BY <1>1, <1>2, DivBound DEF lba
  <1>. QED
    BY <1>1, <1>3, <1>4 DEF Lbas, Offsets

LEMMA LpnSplit ==
  ASSUME NEW lpn \in Lpns, NEW q \in Lpns, q # lpn
  PROVE  lba(q) # lba(lpn) \/ off(q) # off(lpn)
  BY LpnFacts

\* The quotient and the remainder of a number are unique.
LEMMA QuotientUnique ==
  ASSUME NEW n \in Nat \ {0}, NEW x \in Nat, NEW y \in Nat,
         NEW r \in 0 .. n - 1, NEW s \in 0 .. n - 1, n * x + r = n * y + s
  PROVE  x = y /\ r = s
  <1>1. ASSUME x > y PROVE FALSE
    <2>1. PICK k \in Nat \ {0} : x = y + k
      BY <1>1
    <2>2. n * x = n * y + n * k
      BY <2>1
    <2>3. n * k >= n
      BY <2>1
    <2>. QED
      BY <2>2, <2>3
  <1>2. ASSUME y > x PROVE FALSE
    <2>1. PICK k \in Nat \ {0} : y = x + k
      BY <1>2
    <2>2. n * y = n * x + n * k
      BY <2>1
    <2>3. n * k >= n
      BY <2>1
    <2>. QED
      BY <2>2, <2>3
  <1>3. x = y
    BY <1>1, <1>2
  <1>. QED
    BY <1>3

LEMMA DivUnique ==
  ASSUME NEW n \in Nat \ {0}, NEW x \in Nat, NEW r \in 0 .. n - 1
  PROVE  (n * x + r) \div n = x /\ (n * x + r) % n = r
  <1>. DEFINE a == n * x + r
  <1>1. a \in Nat
    OBVIOUS
  <1>. HIDE DEF a
  <1>2. /\ a \div n \in Nat
        /\ a % n \in 0 .. n - 1
        /\ a = n * (a \div n) + (a % n)
    BY <1>1, DivMod
  <1>3. n * (a \div n) + (a % n) = n * x + r
    BY <1>2 DEF a
  <1>4. a \div n = x /\ a % n = r
    BY <1>2, <1>3, QuotientUnique
  <1>. QED
    BY <1>4 DEF a

\* Every offset of every logical block is a logical page.
LEMMA LpnOfPlace ==
  ASSUME NEW l \in Lbas, NEW i \in Offsets
  PROVE  \E lpn \in Lpns : lba(lpn) = l /\ off(lpn) = i
  <1>. DEFINE lpn == BLOCK_SIZE * l + i
  <1>1. /\ NumLbas \in Nat \ {0} /\ BLOCK_SIZE \in Nat \ {0}
        /\ l \in Nat /\ l <= NumLbas - 1 /\ i \in 0 .. BLOCK_SIZE - 1
    BY BastAssumption, GeometryAssumption DEF Lbas, Offsets
  <1>2. lba(lpn) = l /\ off(lpn) = i
    BY <1>1, DivUnique DEF lba, off
  <1>3. lpn \in Lpns
    <2>1. BLOCK_SIZE * l <= BLOCK_SIZE * (NumLbas - 1)
      BY <1>1
    <2>2. BLOCK_SIZE * (NumLbas - 1) = NumLbas * BLOCK_SIZE - BLOCK_SIZE
      BY <1>1
    <2>3. lpn \in Nat /\ lpn <= NumLbas * BLOCK_SIZE - 1
      <3>1. BLOCK_SIZE * l \in Nat /\ NumLbas * BLOCK_SIZE \in Nat
        BY <1>1
      <3>. QED
        BY <1>1, <2>1, <2>2, <3>1
    <2>. QED
      BY <1>1, <2>3 DEF Lpns
  <1>. QED
    BY <1>2, <1>3

\* While the program runs the state is a record of tables.
LEMMA NowFacts ==
  /\ Now.flash = flash /\ Now.bm = bm /\ Now.data_list = data_list
  /\ Now.log_map = log_map /\ Now.taken = NoBlock /\ Now.abort = abort
  BY DEF Now

\* A request on page lpn that ends in t, soundly, keeps the invariant.
LEMMA Concludes ==
  ASSUME IInv, Running, NEW lpn \in Lpns, NEW d \in Contents, NEW t,
         \/ FailsSoundly(Now, t)
         \/ Written(Now, t, lba(lpn), off(lpn), d),
         Becomes(t), stored' = [stored EXCEPT ![lpn] = d]
  PROVE  IInv'
  <1>1. /\ Sound(Now) /\ TypeOK
        /\ \A q \in Lpns : stored[q] = Content(Now, lba(q), off(q))
    BY DEF IInv
  <1>2. stored \in [Lpns -> Contents]
    BY <1>1 DEF TypeOK
  <1>3. /\ stored' \in [Lpns -> Contents]
        /\ stored'[lpn] = d
        /\ \A q \in Lpns : q # lpn => stored'[q] = stored[q]
    BY <1>2
  <1>4. CASE FailsSoundly(Now, t)
    <2>1. t \in Tables /\ ~Alive(t) /\ t.abort # "none"
      BY <1>4 DEF FailsSoundly, Alive
    <2>2. UNCHANGED <<flash, bm, data_list, log_map>> /\ abort' = t.abort
      BY <2>1 DEF Becomes
    <2>3. ~(Running')
      BY <2>1, <2>2 DEF Running
    <2>4. t.abort \in Aborts
      BY <2>1 DEF Tables
    <2>5. TypeOK'
      BY <1>1, <1>3, <2>2, <2>4 DEF TypeOK
    <2>6. OnlyWearEndsIt'
      <3>1. LargeEnough => t.abort = "erase_failed" /\ \E b \in Blocks : flash.erases_remaining[b] = 0
        BY <1>4, NowFacts DEF FailsSoundly, Worn
      <3>. QED
        BY <2>2, <3>1 DEF OnlyWearEndsIt, LargeEnough
    <2>. QED
      BY <2>3, <2>5, <2>6 DEF IInv
  <1>5. CASE Written(Now, t, lba(lpn), off(lpn), d)
    <2>1. /\ Sound(t)
          /\ Content(t, lba(lpn), off(lpn)) = d
          /\ OthersKept(Now, t, lba(lpn), off(lpn))
          /\ t \in Tables /\ Alive(t) /\ t.abort = "none" /\ Counted(t)
      BY <1>5 DEF Written, Sound, Alive
    <2>2. /\ abort' = "none" /\ flash' = t.flash /\ bm' = t.bm
          /\ data_list' = t.data_list /\ log_map' = t.log_map
      BY <2>1 DEF Becomes
    <2>. DEFINE n == [flash |-> flash', bm |-> bm', data_list |-> data_list',
                      log_map |-> log_map', taken |-> NoBlock, abort |-> abort']
    <2>3. Now' = n
      BY DEF Now
    <2>4. /\ n.flash = t.flash /\ n.bm = t.bm /\ n.data_list = t.data_list
          /\ n.log_map = t.log_map /\ n.abort = t.abort
      BY <2>1, <2>2
    <2>5. n \in Tables
      BY <2>1, <2>2 DEF Tables, Aborts
    <2>. HIDE DEF n
    <2>6. /\ Sound(n)
          /\ \A l \in Lbas, i \in Offsets : Content(n, l, i) = Content(t, l, i)
      BY <2>1, <2>4, <2>5, TakenForgotten
    <2>7. \A q \in Lpns : stored'[q] = Content(n, lba(q), off(q))
      <3>. SUFFICES ASSUME NEW q \in Lpns
                    PROVE  stored'[q] = Content(t, lba(q), off(q))
        BY <2>6, LpnFacts
      <3>1. CASE q = lpn
        BY <1>3, <2>1, <3>1
      <3>2. CASE q # lpn
        <4>1. Content(t, lba(q), off(q)) = Content(Now, lba(q), off(q))
          BY <2>1, <3>2, LpnFacts, LpnSplit DEF OthersKept
        <4>. QED
          BY <1>1, <1>3, <3>2, <4>1
      <3>. QED
        BY <3>1, <3>2
    <2>8. TypeOK'
      <3>1. /\ t.flash \in FlashType /\ t.bm \in BlockManagerType
            /\ t.data_list \in [Lbas -> Blocks \cup {NoBlock}]
            /\ DOMAIN t.log_map \subseteq Lbas
            /\ \A l \in DOMAIN t.log_map : t.log_map[l] \in LogPageBlock
            /\ Cardinality(DOMAIN t.log_map) <= BAST_LOG_BLOCK_LIMIT
        BY <2>1, TablesFacts DEF Counted, HasLog
      <3>. QED
        BY <1>3, <2>2, <3>1 DEF TypeOK, Aborts
    <2>9. OnlyWearEndsIt'
      BY <2>2 DEF OnlyWearEndsIt
    <2>10. Sound(Now') /\ \A q \in Lpns : stored'[q] = Content(Now', lba(q), off(q))
      BY <2>3, <2>6, <2>7
    <2>. QED
      BY <2>8, <2>9, <2>10 DEF IInv
  <1>. QED
    BY <1>4, <1>5

LEMMA WriteKeeps ==
  ASSUME IInv, NEW lpn \in Lpns, NEW d \in Payloads, write(lpn, d)
  PROVE  IInv'
  <1>. DEFINE l == lba(lpn)
              i == off(lpn)
  <1>1. /\ Running /\ Sound(Now) /\ Now \in Tables
        /\ l \in Lbas /\ i \in Offsets /\ d \in Contents
        /\ stored' = [stored EXCEPT ![lpn] = d]
    BY LpnFacts DEF IInv, write, Sound, Contents
  <1>2. /\ DOMAIN log_map \in SUBSET Lbas
        /\ Cardinality(DOMAIN log_map) \in Nat
        /\ \A m \in DOMAIN log_map : HasLog(Now, m)
    BY <1>1, NowFacts, TablesFacts, LbaCount DEF HasLog
  <1>3. Kept(Now, Now)
    BY DEF Kept
  <1>4. CASE HasLog(Now, l) /\ Becomes(WriteToLog(Now, l, i, d))
    <2>1. PICK t : t = WriteToLog(Now, l, i, d)
      OBVIOUS
    <2>2. FailsSoundly(Now, t) \/ Written(Now, t, l, i, d)
      BY <1>1, <1>4, <2>1, WriteToLogEffect
    <2>. QED
      BY <1>1, <1>4, <2>1, <2>2, Concludes
  <1>5. CASE /\ ~HasLog(Now, l)
             /\ Cardinality(DOMAIN log_map) < BAST_LOG_BLOCK_LIMIT
             /\ Becomes(WriteToLog(GiveLogBlock(Now, l), l, i, d))
    <2>1. PICK t : t = WriteToLog(GiveLogBlock(Now, l), l, i, d)
      OBVIOUS
    <2>2. Cardinality(DOMAIN Now.log_map) < BAST_LOG_BLOCK_LIMIT
      BY <1>5, NowFacts
    <2>3. Written(Now, t, l, i, d) \/ OutOfRoom(t)
      BY <1>1, <1>3, <1>5, <2>1, <2>2, WriteToNewLog
    <2>4. FailsSoundly(Now, t) \/ Written(Now, t, l, i, d)
      BY <2>3 DEF OutOfRoom, FailsSoundly
    <2>. QED
      BY <1>1, <1>5, <2>1, <2>4, Concludes
  <1>6. ASSUME NEW v \in Victims,
               ~HasLog(Now, l), Cardinality(DOMAIN log_map) >= BAST_LOG_BLOCK_LIMIT,
               Becomes(WriteToLog(GiveLogBlock(Reclaim(Now, v), l), l, i, d))
        PROVE  IInv'
    <2>1. v \in Lbas /\ HasLog(Now, v)
      BY <1>2 DEF Victims
    <2>2. PICK r : r = Reclaim(Now, v)
      OBVIOUS
    <2>3. PICK t : t = WriteToLog(GiveLogBlock(r, l), l, i, d)
      OBVIOUS
    <2>4. FailsSoundly(Now, r) \/ LogReclaimed(Now, r, v)
      BY <1>1, <2>1, <2>2, ReclaimEffect
    <2>5. CASE FailsSoundly(Now, r)
      <3>1. PICK g : g = GiveLogBlock(r, l)
        OBVIOUS
      <3>2. r \in Tables /\ ~Alive(r)
        BY <2>5 DEF FailsSoundly, Alive
      <3>3. g \in Tables /\ g.abort = r.abort /\ ~Alive(g)
        BY <1>1, <3>1, <3>2, StaysFailed DEF Alive
      <3>4. t = g
        BY <2>3, <3>1, <3>3 DEF WriteToLog
      <3>5. FailsSoundly(Now, t)
        BY <2>5, <3>3, <3>4 DEF FailsSoundly
      <3>. QED
        BY <1>1, <1>6, <2>2, <2>3, <3>5, Concludes
    <2>6. CASE LogReclaimed(Now, r, v)
      <3>1. /\ Sound(r) /\ Kept(Now, r)
            /\ DOMAIN r.log_map = DOMAIN log_map \ {v}
            /\ Cardinality(DOMAIN r.log_map) < BAST_LOG_BLOCK_LIMIT
        BY <1>1, <2>1, <2>6, RoomMade, NowFacts DEF LogReclaimed
      <3>2. ~HasLog(r, l)
        BY <1>6, <3>1, NowFacts DEF HasLog
      <3>3. Written(Now, t, l, i, d) \/ OutOfRoom(t)
        BY <1>1, <2>3, <3>1, <3>2, WriteToNewLog
      <3>4. FailsSoundly(Now, t) \/ Written(Now, t, l, i, d)
        BY <3>3 DEF OutOfRoom, FailsSoundly
      <3>. QED
        BY <1>1, <1>6, <2>2, <2>3, <3>4, Concludes
    <2>. QED
      BY <2>4, <2>5, <2>6
  <1>. QED
    BY <1>4, <1>5, <1>6 DEF write

LEMMA TrimKeeps ==
  ASSUME IInv, NEW lpn \in Lpns, trim(lpn)
  PROVE  IInv'
  <1>1. /\ Running /\ Sound(Now)
        /\ lba(lpn) \in Lbas /\ off(lpn) \in Offsets /\ NoData \in Contents
        /\ stored' = [stored EXCEPT ![lpn] = NoData]
    BY LpnFacts DEF IInv, trim, Contents
  <1>2. PICK t : t = TrimData(TrimLog(Now, lba(lpn), off(lpn)), lba(lpn), off(lpn))
    OBVIOUS
  <1>3. FailsSoundly(Now, t) \/ Written(Now, t, lba(lpn), off(lpn), NoData)
    BY <1>1, <1>2, TrimEffect
  <1>4. Becomes(t)
    BY <1>2 DEF trim
  <1>. QED
    BY <1>1, <1>3, <1>4, Concludes

\* A step that changes no variable changes no record of tables.
LEMMA StutterKeeps ==
  ASSUME IInv, UNCHANGED vars
  PROVE  IInv'
  <1>1. /\ flash' = flash /\ bm' = bm /\ data_list' = data_list
        /\ log_map' = log_map /\ abort' = abort /\ stored' = stored
    BY DEF vars
  <1>2. Now' = Now
    BY <1>1 DEF Now
  <1>3. TypeOK' /\ OnlyWearEndsIt'
    BY <1>1 DEF IInv, TypeOK, OnlyWearEndsIt
  <1>4. Running' = Running
    BY <1>1 DEF Running
  <1>. QED
    BY <1>1, <1>2, <1>3, <1>4 DEF IInv

\* The freshly made FTL: nothing is mapped, every block is fresh.
LEMMA InitHolds ==
  ASSUME Init
  PROVE  IInv
  <1>1. /\ log_map = [l \in {} |-> NewLogBlock(0)] /\ DOMAIN log_map = {}
        /\ log_map \in [DOMAIN log_map -> LogPageBlock]
    BY DEF Init
  <1>2. Cardinality({}) = 0
    BY FS_EmptySet
  <1>3. FlashInit \in FlashType /\ BlockManagerInit \in BlockManagerType
    BY GeometryAssumption DEF FlashInit, FlashType, BlockManagerInit, BlockManagerType,
       PageStates, Contents, Blocks
  <1>4. TypeOK
    BY <1>1, <1>2, <1>3, BastAssumption DEF Init, TypeOK, Aborts, Contents
  <1>5. Now \in Tables
    BY <1>1, <1>4, LogMapFacts DEF Now, Tables, TypeOK
  <1>6. /\ \A l \in Lbas : ~HasLog(Now, l) /\ ~HasData(Now, l)
        /\ \A l \in Lbas : Own(Now, l) = {}
        /\ Mapped(Now) = {}
    BY <1>1, NowFacts DEF Init, HasLog, HasData, Own, Mapped
  <1>7. /\ bm.free_list = << >> /\ bm.invalid_list = << >> /\ bm.fresh = 0
        /\ bm.data_active = 0 /\ bm.log_active = 0 /\ ~bm.out_of_blocks
    BY DEF Init, BlockManagerInit
  <1>8. Members(<< >>) = {} /\ NoRepeat(<< >>)
    BY DEF Members, NoRepeat
  <1>9. ManagerSound(bm)
    BY <1>4, <1>7, <1>8 DEF ManagerSound, ListsSound, TypeOK
  <1>10. Available(Now) = Blocks
    BY <1>7, <1>8, NowFacts, GeometryAssumption DEF Available, Blocks
  <1>11. OwnersDistinct(Now) /\ AllOwned(Now) /\ Counted(Now)
    BY <1>1, <1>2, <1>6, <1>7, <1>10, NowFacts, BastAssumption
       DEF OwnersDistinct, AllOwned, Counted
  <1>12. /\ FlashSound(flash)
         /\ \A b \in Blocks : Erased(flash, b)
    <2>1. flash = FlashInit
      BY DEF Init
    <2>2. \A p \in Ppns : flash.page[p] = "EMPTY"
      BY <2>1 DEF FlashInit
    <2>3. \A b \in Blocks, i \in Offsets : flash.page[<<b, i>>] = "EMPTY"
      BY <2>2 DEF Ppns
    <2>4. \A b \in Blocks : InvalidPages(flash, b) = {}
      BY <2>3 DEF InvalidPages
    <2>5. \A b \in Blocks : flash.pages_valid[b] = 0 /\ flash.pages_invalid[b] = 0
      BY <2>1 DEF FlashInit
    <2>. QED
      BY <1>2, <1>3, <2>1, <2>2, <2>3, <2>4, <2>5 DEF FlashSound, Erased
  <1>13. Sound(Now)
    BY <1>5, <1>6, <1>9, <1>10, <1>11, <1>12, NowFacts DEF Sound, Alive, Init
  <1>14. \A lpn \in Lpns : stored[lpn] = Content(Now, lba(lpn), off(lpn))
    BY <1>6, LpnFacts DEF Init, Content, MergeSource, InLog
  <1>15. OnlyWearEndsIt
    BY DEF Init, OnlyWearEndsIt
  <1>. QED
    BY <1>4, <1>13, <1>14, <1>15 DEF IInv

---------------------------------------------------------------------------
(* Which VALID pages are current.                                          *)

\* A logged page is VALID.
LEMMA LoggedValid ==
  ASSUME NEW s, Sound(s), NEW l \in DOMAIN s.log_map, NEW i \in Offsets, InLog(s, l, i)
  PROVE  s.flash.page[LogPage(s, l, i)] = "VALID"
  <1>1. s \in Tables /\ l \in Lbas /\ HasLog(s, l)
    BY TablesFacts DEF Sound, HasLog
  <1>. QED
    BY <1>1 DEF Sound, LogSound

\* A VALID page outside the log blocks lies in a data block, at an offset that
\* is not logged: it is the copy a merge takes.
LEMMA ValidIsCurrent ==
  ASSUME NEW s, Sound(s), NEW p \in Ppns, s.flash.page[p] = "VALID",
         \A l \in Lbas : HasLog(s, l) => p[1] # LogBlock(s, l)
  PROVE  \E l \in Lbas, i \in Offsets : MergeSource(s, l, i) = p
  <1>1. p[1] \in Blocks /\ p[2] \in Offsets /\ p = <<p[1], p[2]>>
    BY DEF Ppns
  <1>2. p[1] \notin Available(s)
    <2>1. p[1] \in Available(s) => Erased(s.flash, p[1])
      BY DEF Sound
    <2>2. Erased(s.flash, p[1]) => s.flash.page[p] = "EMPTY"
      BY <1>1 DEF Erased
    <2>. QED
      BY <2>1, <2>2
  <1>3. PICK l \in Lbas : p[1] \in Own(s, l)
    BY <1>1, <1>2 DEF Sound, AllOwned
  <1>4. HasData(s, l) /\ p[1] = DataBlock(s, l)
    BY <1>3 DEF Own
  <1>5. DataPage(s, l, p[2]) = p
    BY <1>1, <1>4 DEF DataPage, DataBlock
  <1>6. ~InLog(s, l, p[2])
    <2>1. InLog(s, l, p[2]) => LogSound(s, l)
      BY DEF InLog, Sound
    <2>. QED
      BY <1>1, <1>4, <1>5, <2>1 DEF LogSound
  <1>7. MergeSource(s, l, p[2]) = p
    BY <1>4, <1>5, <1>6, NoPpnNotPage DEF MergeSource
  <1>. QED
    BY <1>1, <1>7

\* No physical page is current at two places.
LEMMA CurrentDistinct ==
  ASSUME NEW s, Sound(s), NEW l \in Lbas, NEW m \in Lbas, NEW i \in Offsets, NEW j \in Offsets,
         MergeSource(s, l, i) = MergeSource(s, m, j), MergeSource(s, l, i) # NoPpn
  PROVE  l = m /\ i = j
  <1>1. s \in Tables
    BY DEF Sound
  <1>2. /\ MergeSource(s, l, i) = Place(s, l, i) /\ Place(s, l, i) # NoPpn
        /\ MergeSource(s, m, j) = Place(s, m, j) /\ Place(s, m, j) # NoPpn
    BY <1>1, PlaceFacts
  <1>3. Place(s, l, i)[1] \in Own(s, l) /\ Place(s, m, j)[1] \in Own(s, m)
    BY <1>1, <1>2, PlaceFacts DEF Own
  <1>4. l = m
    BY <1>2, <1>3 DEF Sound, OwnersDistinct
  <1>5. CASE HasLog(s, l)
    <2>1. LogSound(s, l) /\ DataBlock(s, l) # LogBlock(s, l)
      BY <1>5 DEF Sound, OwnersDistinct
    <2>. QED
      BY <1>1, <1>2, <1>4, <1>5, <2>1, PlacesDistinct
  <1>6. CASE ~HasLog(s, l)
    <2>1. ~InLog(s, l, i) /\ ~InLog(s, l, j)
      BY <1>6 DEF InLog
    <2>2. DataPage(s, l, i) = DataPage(s, l, j)
      BY <1>2, <1>4, <2>1 DEF Place
    <2>. QED
      BY <1>4, <2>2 DEF DataPage
  <1>. QED
    BY <1>5, <1>6

---------------------------------------------------------------------------
(* The theorems.                                                           *)

\* The invariant holds initially and every step keeps it: a BAST request that
\* starts in sound tables, and finds what the host stored, ends in sound
\* tables holding what the host stores, or in the failed erase or, on a device
\* that is too small, the failed assert that ends the program.
THEOREM Invariance == Spec => []IInv
  <1>1. Init => IInv
    BY InitHolds
  <1>2. IInv /\ [Next]_vars => IInv'
    BY WriteKeeps, TrimKeeps, StutterKeeps DEF Next
  <1>. QED
    BY <1>1, <1>2, PTL DEF Spec

\* The tables of BAST keep their types: a request never leaves a log_map with
\* more entries than the limit, nor a page that is no page.
THEOREM TypeCorrect == Spec => []TypeOK
  <1>1. IInv => TypeOK
    BY DEF IInv
  <1>. QED
    BY <1>1, Invariance, PTL

\* On a device with a block to spare only a worn-out block ends the program;
\* the asserts on free blocks and on EMPTY pages never fail.
THEOREM EndsByWear == Spec => []OnlyWearEndsIt
  <1>1. IInv => OnlyWearEndsIt
    BY DEF IInv
  <1>. QED
    BY <1>1, Invariance, PTL

\* A VALID page that is no logical page's current copy lies in a log block, for
\* every geometry and every sequence of writes, trims, switches, merges and
\* evictions; a logged page is VALID, and no two logical pages share one.
THEOREM StaleCopies == Spec => []StaleOnlyInLog
  <1>1. ASSUME IInv PROVE StaleOnlyInLog
    <2>. SUFFICES ASSUME Running PROVE StaleOnlyInLog
      BY DEF StaleOnlyInLog
    <2>1. Sound(Now) /\ Now \in Tables
      BY <1>1 DEF IInv, Sound
    <2>2. ASSUME NEW l \in DOMAIN log_map, NEW i \in Offsets, InLog(Now, l, i)
          PROVE  flash.page[LogPage(Now, l, i)] = "VALID"
      BY <2>1, <2>2, LoggedValid, NowFacts
    <2>3. ASSUME NEW p \in Ppns, flash.page[p] = "VALID", p[1] \notin LogBlocks
          PROVE  \E lpn \in Lpns : CurrentPage(lpn) = p
      <3>1. \A l \in Lbas : HasLog(Now, l) => p[1] # LogBlock(Now, l)
        BY <2>3, NowFacts DEF LogBlocks, HasLog, LogBlock
      <3>2. PICK l \in Lbas, i \in Offsets : MergeSource(Now, l, i) = p
        BY <2>1, <2>3, <3>1, ValidIsCurrent, NowFacts
      <3>3. PICK lpn \in Lpns : lba(lpn) = l /\ off(lpn) = i
        BY LpnOfPlace
      <3>. QED
        BY <3>2, <3>3 DEF CurrentPage
    <2>4. ASSUME NEW lpn \in Lpns, NEW m \in Lpns, CurrentPage(lpn) = CurrentPage(m),
                 CurrentPage(lpn) # NoPpn
          PROVE  lpn = m
      <3>1. lba(lpn) \in Lbas /\ off(lpn) \in Offsets /\ lba(m) \in Lbas /\ off(m) \in Offsets
        BY LpnFacts
      <3>2. lba(lpn) = lba(m) /\ off(lpn) = off(m)
        BY <2>1, <2>4, <3>1, CurrentDistinct DEF CurrentPage
      <3>. QED
        BY <3>2, LpnFacts
    <2>. QED
      BY <2>2, <2>3, <2>4 DEF StaleOnlyInLog
  <1>. QED
    BY <1>1, Invariance, PTL

\* What the host stored last in a page is what a read of it finds, on a VALID
\* page, through every switch, merge and eviction; a trimmed page has none.
THEOREM ReadsLastWrite == Spec => []ReadsReturnLastWrite
  <1>1. ASSUME IInv PROVE ReadsReturnLastWrite
    <2>1. ASSUME Running, NEW lpn \in Lpns
          PROVE  IF stored[lpn] # NoData
                   THEN /\ flash.page[ReadPpn(lpn)] = "VALID"
                        /\ flash.data[ReadPpn(lpn)] = stored[lpn]
                   ELSE MergeSource(Now, lba(lpn), off(lpn)) = NoPpn
      <3>. DEFINE l == lba(lpn)
                  i == off(lpn)
      <3>1. /\ Sound(Now) /\ Now \in Tables /\ FlashSound(flash)
            /\ l \in Lbas /\ i \in Offsets
            /\ stored[lpn] = Content(Now, l, i)
        BY <1>1, <2>1, NowFacts, LpnFacts DEF IInv, Sound
      <3>2. /\ Place(Now, l, i) \in Ppns \cup {NoPpn}
            /\ MergeSource(Now, l, i) =
                 IF Place(Now, l, i) # NoPpn /\ flash.page[Place(Now, l, i)] = "VALID"
                   THEN Place(Now, l, i) ELSE NoPpn
        BY <3>1, PlaceFacts, NowFacts
      <3>3. CASE MergeSource(Now, l, i) = NoPpn
        <4>1. stored[lpn] = NoData
          BY <3>1, <3>3 DEF Content
        <4>. QED
          BY <3>3, <4>1
      <3>4. CASE MergeSource(Now, l, i) # NoPpn
        <4>1. /\ Place(Now, l, i) \in Ppns
              /\ flash.page[Place(Now, l, i)] = "VALID"
              /\ MergeSource(Now, l, i) = Place(Now, l, i)
          BY <3>2, <3>4
        <4>2. /\ stored[lpn] = flash.data[Place(Now, l, i)]
              /\ stored[lpn] \in Payloads
          BY <3>1, <3>4, <4>1, NowFacts DEF Content, FlashSound
        <4>3. ReadPpn(lpn) = Place(Now, l, i)
          <5>1. InLog(Now, l, i) \/ HasData(Now, l)
            BY <3>4, <4>1 DEF Place
          <5>. QED
            BY <4>1, <5>1 DEF ReadPpn, Place
        <4>. QED
          BY <4>1, <4>2, <4>3, PayloadAssumption
      <3>. QED
        BY <3>3, <3>4
    <2>. QED
      BY <2>1 DEF ReadsReturnLastWrite
  <1>. QED
    BY <1>1, Invariance, PTL

\* Every block is the data block or the log block of one logical block, or
\* free, or never used; the counters of the Block_manager agree, and no free
\* block holds a page.
THEOREM OneOwnerPerBlock == Spec => []BlocksOwnedOnce
  <1>1. ASSUME IInv, Running PROVE BlocksOwnedOnce
    <2>1. /\ Sound(Now) /\ Now \in Tables /\ OwnersDistinct(Now) /\ AllOwned(Now)
          /\ Counted(Now) /\ ListsSound(bm) /\ bm \in BlockManagerType
      BY <1>1, NowFacts DEF IInv, Sound, ManagerSound, ListsSound
    <2>2. /\ FreeBlocks = Members(bm.free_list)
          /\ DataBlocks = DataSet(Now)
          /\ LogBlocks = LogSet(Now)
          /\ {l \in Lbas : data_list[l] # NoBlock} = Mapped(Now)
      BY NowFacts DEF FreeBlocks, Members, DataBlocks, DataSet, LogBlocks, LogSet, Mapped,
         HasData, DataBlock, LogBlock
    <2>3. /\ DataSet(Now) \subseteq Blocks /\ IsFiniteSet(DataSet(Now))
          /\ Cardinality(DataSet(Now)) = Cardinality(Mapped(Now))
          /\ LogSet(Now) \subseteq Blocks /\ IsFiniteSet(LogSet(Now))
          /\ Cardinality(LogSet(Now)) = Cardinality(DOMAIN Now.log_map)
          /\ DataSet(Now) \cap LogSet(Now) = {}
          /\ DataSet(Now) \cap Available(Now) = {}
          /\ LogSet(Now) \cap Available(Now) = {}
      BY <2>1, OwnerCounts
    <2>4. /\ bm.free_list \in Seq(Blocks) /\ NoRepeat(bm.free_list)
          /\ bm.fresh \in 0 .. NUMBER_OF_ADDRESSABLE_BLOCKS
          /\ \A b \in Members(bm.free_list) : b < bm.fresh
      BY <2>1 DEF ListsSound, BlockManagerType
    <2>5. /\ FreeBlocks \subseteq Blocks /\ IsFiniteSet(FreeBlocks)
          /\ Cardinality(FreeBlocks) = Len(bm.free_list)
      BY <2>2, <2>4, CountedList, ListMembers
    <2>6. FreshBlocks = {b \in Blocks : b >= bm.fresh}
      BY <2>4, GeometryAssumption DEF FreshBlocks, Blocks
    <2>7. Available(Now) = FreeBlocks \cup FreshBlocks
      BY <2>2, <2>6, NowFacts DEF Available
    <2>8. FreeBlocks \cap FreshBlocks = {}
      BY <2>2, <2>4, <2>6 DEF Blocks
    <2>9. FreshBlocks \subseteq Blocks /\ IsFiniteSet(FreshBlocks)
      BY <2>6, BlocksFinite, FS_Subset
    <2>10. FreeBlocks \cup FreshBlocks \cup DataBlocks \cup LogBlocks = Blocks
      <3>1. \A b \in Blocks : b \in FreeBlocks \cup FreshBlocks \cup DataBlocks \cup LogBlocks
        BY <2>1, <2>2, <2>7 DEF AllOwned, Own, DataSet, LogSet, Mapped, HasLog
      <3>. QED
        BY <2>2, <2>3, <2>5, <2>9, <3>1
    <2>11. Cardinality(Blocks) = Cardinality(FreeBlocks) + Cardinality(FreshBlocks)
                                 + Cardinality(DataBlocks) + Cardinality(LogBlocks)
      <3>. DEFINE A == FreeBlocks \cup FreshBlocks
                  B == A \cup DataBlocks
      <3>1. IsFiniteSet(A) /\ Cardinality(A) = Cardinality(FreeBlocks) + Cardinality(FreshBlocks)
        BY <2>5, <2>8, <2>9, DisjointUnion
      <3>2. A \cap DataBlocks = {} /\ B \cap LogBlocks = {}
        BY <2>2, <2>3, <2>7
      <3>3. IsFiniteSet(B) /\ Cardinality(B) = Cardinality(A) + Cardinality(DataBlocks)
        BY <2>2, <2>3, <3>1, <3>2, DisjointUnion
      <3>4. Cardinality(B \cup LogBlocks) = Cardinality(B) + Cardinality(LogBlocks)
        BY <2>2, <2>3, <3>2, <3>3, DisjointUnion
      <3>. QED
        BY <2>10, <3>1, <3>3, <3>4
    <2>12. \A p \in Ppns : p[1] \in FreeBlocks \cup FreshBlocks => flash.page[p] = "EMPTY"
      <3>1. \A b \in Available(Now) : Erased(flash, b)
        BY <2>1, NowFacts DEF Sound
      <3>2. \A p \in Ppns : p[2] \in Offsets /\ p = <<p[1], p[2]>>
        BY DEF Ppns
      <3>. QED
        BY <2>7, <3>1, <3>2 DEF Erased
    <2>13. /\ bm.data_active = Cardinality(Mapped(Now))
           /\ bm.log_active = Cardinality(DOMAIN log_map)
      BY <2>1, NowFacts DEF Counted
    <2>. QED
      BY <2>2, <2>3, <2>5, <2>10, <2>11, <2>12, <2>13, NowFacts DEF BlocksOwnedOnce
  <1>2. IInv => BlocksOwnedOnce
    BY <1>1 DEF BlocksOwnedOnce
  <1>. QED
    BY <1>2, Invariance, PTL
================================================================================
