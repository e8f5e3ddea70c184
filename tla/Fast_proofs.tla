------------------------------ MODULE Fast_proofs ------------------------------
(***************************************************************************)
(* Proofs about Fast for every geometry, every number of logical blocks    *)
(* and every limit on log blocks.  As in Bast_proofs a handler is a chain  *)
(* of operators on a record of tables, and each operator has a lemma on    *)
(* its types (...Type) and one on its effect (...Effect).  Tables is what  *)
(* every operator keeps, through trims and after a failed assert.  Core is *)
(* what they keep until the first trim as long as the program runs, Wear   *)
(* why an erase that fails fails on a worn block, and KeepsCold what they  *)
(* leave of the pages written once.                                        *)
(***************************************************************************)
EXTENDS Fast, FtlLemmas, SequenceTheorems

---------------------------------------------------------------------------
(* The records the operators work on.                                      *)

SequentialState ==
  [address : Blocks \cup {NoBlock}, offset : 0 .. BLOCK_SIZE, lba : Lbas \cup {NoLba}]

LogPagesMax == FAST_LOG_BLOCK_LIMIT * BLOCK_SIZE

Records ==
  [flash : FlashType, bm : BlockManagerType,
   data_list : [Lbas -> Blocks \cup {NoBlock}], ring : Seq(LogPageBlock),
   log_page_next : 0 .. LogPagesMax, seq : SequentialState,
   taken : Blocks \cup {NoBlock}, target : Ppns \cup {NoPpn}, abort : Aborts]

\* The SW log block of a logical block exists.
Tables == {s \in Records : s.seq.lba # NoLba => s.seq.address \in Blocks}

\* What the calls to the Block_manager and to the hardware leave alone.
SameTables(s, t) ==
  /\ t.data_list = s.data_list
  /\ t.ring = s.ring
  /\ t.log_page_next = s.log_page_next
  /\ t.seq = s.seq

\* After an abort nothing changes.
StaysDead(s, t) == ~Alive(s) => t = s

LEMMA Numbers ==
  /\ BLOCK_SIZE \in Nat \ {0}
  /\ FAST_LOG_BLOCK_LIMIT \in Nat /\ FAST_LOG_BLOCK_LIMIT >= 2
  /\ LogPagesMax \in Nat
  /\ NumLbas \in Nat \ {0}
  /\ 0 \in Offsets
  /\ LastBlock \in Blocks /\ 0 \in Blocks
  /\ NoBlock \notin Blocks /\ NoLba \notin Lbas /\ NoLpn \notin Lpns
  BY GeometryAssumption, FastAssumption
     DEF LogPagesMax, Offsets, LastBlock, Blocks, NoBlock, NoLba, NoLpn, Lbas, Lpns

LEMMA RecordFacts ==
  ASSUME NEW s \in Tables
  PROVE  /\ s \in Records
         /\ s.flash \in FlashType
         /\ s.bm \in BlockManagerType
         /\ s.data_list \in [Lbas -> Blocks \cup {NoBlock}]
         /\ s.ring \in Seq(LogPageBlock)
         /\ s.log_page_next \in 0 .. LogPagesMax
         /\ s.seq \in SequentialState
         /\ s.seq.address \in Blocks \cup {NoBlock}
         /\ s.seq.offset \in 0 .. BLOCK_SIZE
         /\ s.seq.lba \in Lbas \cup {NoLba}
         /\ s.seq.lba # NoLba => s.seq.address \in Blocks
         /\ s.taken \in Blocks \cup {NoBlock}
         /\ s.target \in Ppns \cup {NoPpn}
         /\ s.abort \in Aborts
  BY DEF Tables, Records, SequentialState

LEMMA AbortIn ==
  /\ "none" \in Aborts /\ "no_free_block" \in Aborts /\ "erase_failed" \in Aborts
  /\ "bad_alloc" \in Aborts /\ "page_not_empty" \in Aborts /\ "no_free_page" \in Aborts
  /\ "undefined" \in Aborts
  BY DEF Aborts

\* A failed assert is recorded and nothing else.
LEMMA FailsType ==
  ASSUME NEW s \in Tables, NEW a \in Aborts, a # "none"
  PROVE  /\ Fails(s, a) \in Tables
         /\ SameTables(s, Fails(s, a))
         /\ Fails(s, a).abort = a
         /\ ~Alive(Fails(s, a))
         /\ Fails(s, a).taken = s.taken /\ Fails(s, a).target = s.target
         /\ Fails(s, a).flash = s.flash
  BY DEF Fails, Tables, Records, SameTables, Alive

\* get_free_block.
LEMMA TakeType ==
  ASSUME NEW s \in Tables, NEW type \in BlockTypes, NEW t, t = TakeBlock(s, type)
  PROVE  /\ t \in Tables /\ SameTables(s, t) /\ StaysDead(s, t) /\ t.target = s.target
         /\ Alive(t) => Alive(s) /\ t.taken \in Blocks
  <1>. DEFINE m == s.bm
              f == s.flash
  <1>0. m \in BlockManagerType /\ f \in FlashType
    BY RecordFacts
  <1>1. CASE ~Alive(s)
    BY <1>1 DEF TakeBlock, SameTables, StaysDead
  <1>2. CASE Alive(s) /\ (\/ ServiceFails(m, f) \/ OutOfBlocks(m)
                          \/ type = "LOG" /\ LogBlockRefused(m))
    <2>1. \E a \in Aborts : a # "none" /\ t = Fails(s, a)
      BY <1>2, AbortIn DEF TakeBlock
    <2>. QED
      BY <1>2, <2>1, FailsType DEF StaysDead
  <1>3. CASE Alive(s) /\ ~ServiceFails(m, f) /\ ~OutOfBlocks(m)
             /\ ~(type = "LOG" /\ LogBlockRefused(m))
    <2>1. t = [s EXCEPT !.flash = ServicedFlash(m, f), !.bm = GetFreeBlock(m, type),
                        !.taken = NextBlock(m)]
      BY <1>3 DEF TakeBlock
    <2>2. GetFreeBlock(m, type) \in BlockManagerType /\ NextBlock(m) \in Blocks
      BY <1>0, <1>3, PageBlockType, CountActiveEffect DEF GetFreeBlock
    <2>3. ServicedFlash(m, f) \in FlashType
      BY <1>0, <1>3, InsertEventsFlashType DEF ServicedFlash, ServiceFails
    <2>. QED
      BY <1>3, <2>1, <2>2, <2>3 DEF Tables, Records, SameTables, StaysDead, Alive
  <1>. QED
    BY <1>1, <1>2, <1>3

\* insert_events.
LEMMA EraseInvalidType ==
  ASSUME NEW s \in Tables, NEW t, t = EraseInvalidBlocks(s)
  PROVE  /\ t \in Tables /\ SameTables(s, t) /\ StaysDead(s, t)
         /\ t.target = s.target /\ t.taken = s.taken
         /\ Alive(t) => Alive(s)
  <1>0. s.bm \in BlockManagerType /\ s.flash \in FlashType
    BY RecordFacts
  <1>1. CASE ~Alive(s)
    BY <1>1 DEF EraseInvalidBlocks, SameTables, StaysDead
  <1>2. CASE Alive(s) /\ InsertEventsFails(s.bm, s.flash)
    <2>1. t = Fails(s, "erase_failed")
      BY <1>2 DEF EraseInvalidBlocks
    <2>. QED
      BY <1>2, <2>1, FailsType, AbortIn DEF StaysDead
  <1>3. CASE Alive(s) /\ ~InsertEventsFails(s.bm, s.flash)
    <2>1. t = [s EXCEPT !.flash = InsertEventsFlash(s.bm, s.flash), !.bm = InsertEvents(s.bm)]
      BY <1>3 DEF EraseInvalidBlocks
    <2>2. /\ InsertEventsFlash(s.bm, s.flash) \in FlashType
          /\ InsertEvents(s.bm) \in BlockManagerType
      BY <1>0, <1>3, InsertEventsFlashType, InsertEventsType
    <2>. QED
      BY <1>3, <2>1, <2>2 DEF Tables, Records, SameTables, StaysDead, Alive
  <1>. QED
    BY <1>1, <1>2, <1>3

\* The erase before a merge.
LEMMA MakeRoomType ==
  ASSUME NEW s \in Tables, NEW t, t = MakeRoom(s)
  PROVE  /\ t \in Tables /\ SameTables(s, t) /\ StaysDead(s, t)
         /\ t.target = s.target /\ t.taken = s.taken
         /\ Alive(t) => Alive(s)
  BY EraseInvalidType DEF MakeRoom, SameTables, StaysDead

\* invalidate.
LEMMA GiveBackType ==
  ASSUME NEW s \in Tables, NEW b \in Blocks, NEW type \in BlockTypes, NEW t, t = GiveBack(s, b, type)
  PROVE  /\ t \in Tables /\ SameTables(s, t) /\ StaysDead(s, t)
         /\ t.target = s.target /\ t.taken = s.taken /\ t.flash = s.flash /\ t.abort = s.abort
         /\ Alive(s) => t.bm = InvalidateBlock(s.bm, b, type)
  <1>. DEFINE m == [s.bm EXCEPT !.invalid_list = Append(s.bm.invalid_list, b)]
  <1>1. m \in BlockManagerType
    <2>1. s.bm \in BlockManagerType
      BY RecordFacts
    <2>2. Append(s.bm.invalid_list, b) \in Seq(Blocks)
      BY <2>1 DEF BlockManagerType
    <2>. QED
      BY <2>1, <2>2 DEF BlockManagerType
  <1>2. -1 \in Int
    OBVIOUS
  <1>3. CountActive(m, type, -1) \in BlockManagerType
    <2>. HIDE DEF m
    <2>. QED
      BY <1>1, <1>2, CountActiveEffect
  <1>4. InvalidateBlock(s.bm, b, type) \in BlockManagerType
    BY <1>3 DEF InvalidateBlock
  <1>. QED
    BY <1>4 DEF GiveBack, Tables, Records, SameTables, StaysDead, Alive

\* A write succeeds just when its page can be programmed.
LEMMA WritePageType ==
  ASSUME NEW s \in Tables, NEW p \in Ppns, NEW d \in Contents, NEW t, t = WritePage(s, p, d, NoPpn)
  PROVE  /\ t \in Tables /\ SameTables(s, t) /\ StaysDead(s, t)
         /\ t.target = s.target /\ t.taken = s.taken /\ t.bm = s.bm
         /\ Alive(t) => /\ Alive(s)
                        /\ CanProgram(s.flash, p)
                        /\ t.flash = Program(s.flash, p, d)
         /\ Alive(s) /\ CanProgram(s.flash, p) => Alive(t)
  <1>0. s.flash \in FlashType
    BY RecordFacts
  <1>1. CASE ~Alive(s)
    BY <1>1 DEF WritePage, SameTables, StaysDead
  <1>2. CASE Alive(s) /\ ~CanProgram(s.flash, p)
    <2>1. t = Fails(s, "page_not_empty")
      BY <1>2 DEF WritePage
    <2>2. Fails(s, "page_not_empty").bm = s.bm
      BY DEF Fails, Tables, Records
    <2>. QED
      BY <1>2, <2>1, <2>2, FailsType, AbortIn DEF StaysDead
  <1>3. CASE Alive(s) /\ CanProgram(s.flash, p)
    <2>1. Replace(Program(s.flash, p, d), NoPpn) = Program(s.flash, p, d)
      BY DEF Replace
    <2>2. t = [s EXCEPT !.flash = Program(s.flash, p, d)]
      BY <1>3, <2>1 DEF WritePage
    <2>3. Program(s.flash, p, d) \in FlashType
      BY <1>0, ProgramEffect
    <2>. QED
      BY <1>3, <2>2, <2>3 DEF Tables, Records, SameTables, StaysDead, Alive
  <1>. QED
    BY <1>1, <1>2, <1>3

\* A page is invalidated.
LEMMA InvalidatePageType ==
  ASSUME NEW s \in Tables, NEW p \in Ppns, NEW t, t = InvalidatePage(s, p)
  PROVE  t \in Tables /\ SameTables(s, t) /\ t.abort = s.abort
  <1>1. Invalidate(s.flash, p) = Replace(s.flash, p) /\ s.flash \in FlashType
    BY NoPpnNotPage, RecordFacts DEF Replace
  <1>2. Invalidate(s.flash, p) \in FlashType
    BY <1>1, ReplaceEffect
  <1>. QED
    BY <1>2 DEF InvalidatePage, Tables, Records, SameTables

\* erase_and_invalidate.
LEMMA EraseBlockType ==
  ASSUME NEW s \in Tables, NEW b \in Blocks, NEW type \in BlockTypes,
         NEW t, t = EraseBlock(s, b, type)
  PROVE  t \in Tables /\ SameTables(s, t) /\ (Alive(t) => Alive(s))
  <1>. DEFINE m == [s.bm EXCEPT !.free_list = Append(s.bm.free_list, b)]
  <1>1. CASE ~Alive(s)
    BY <1>1 DEF EraseBlock, SameTables
  <1>2. CASE Alive(s) /\ ~CanErase(s.flash, b)
    <2>1. t = Fails(s, "erase_failed")
      BY <1>2 DEF EraseBlock
    <2>. QED
      BY <1>2, <2>1, FailsType, AbortIn
  <1>3. CASE Alive(s) /\ CanErase(s.flash, b)
    <2>1. m \in BlockManagerType
      <3>1. s.bm \in BlockManagerType
        BY RecordFacts
      <3>2. Append(s.bm.free_list, b) \in Seq(Blocks)
        BY <3>1 DEF BlockManagerType
      <3>. QED
        BY <3>1, <3>2 DEF BlockManagerType
    <2>2. -1 \in Int
      OBVIOUS
    <2>3. CountActive(m, type, -1) \in BlockManagerType
      <3>. HIDE DEF m
      <3>. QED
        BY <2>1, <2>2, CountActiveEffect
    <2>4. EraseAndInvalidate(s.bm, b, type) \in BlockManagerType
      BY <2>3 DEF EraseAndInvalidate
    <2>5. Erase(s.flash, {b}) \in FlashType
      BY <1>3, RecordFacts, EraseEffect
    <2>6. t = [s EXCEPT !.flash = Erase(s.flash, {b}), !.bm = EraseAndInvalidate(s.bm, b, type)]
      BY <1>3 DEF EraseBlock
    <2>. QED
      BY <1>3, <2>4, <2>5, <2>6 DEF Tables, Records, SameTables, Alive
  <1>. QED
    BY <1>1, <1>2, <1>3

---------------------------------------------------------------------------
(* Logical pages, log entries and the pages a merge reads.                 *)

\* A logical page is page off of logical block lba.
LEMMA LpnFacts ==
  ASSUME NEW lpn \in Lpns
  PROVE  /\ lpn \in Nat
         /\ lba(lpn) \in Lbas /\ off(lpn) \in Offsets
         /\ lpn = lba(lpn) * BLOCK_SIZE + off(lpn)
  <1>1. /\ NumLbas \in Nat /\ BLOCK_SIZE \in Nat \ {0}
        /\ lpn \in Nat /\ lpn < NumLbas * BLOCK_SIZE
    BY Numbers DEF Lpns
  <1>2. NumLbas * BLOCK_SIZE = BLOCK_SIZE * NumLbas
    BY <1>1
  <1>3. /\ lba(lpn) \in Nat /\ off(lpn) \in 0 .. BLOCK_SIZE - 1
        /\ lpn = BLOCK_SIZE * lba(lpn) + off(lpn)
    BY <1>1, DivMod DEF lba, off
  <1>4. lba(lpn) < NumLbas
    BY <1>1, <1>2, DivBound DEF lba
  <1>. QED
    BY <1>1, <1>3, <1>4 DEF Lbas, Offsets

\* Multiples of BLOCK_SIZE are BLOCK_SIZE apart.
LEMMA Apart ==
  ASSUME NEW x \in Int, NEW y \in Int, x < y
  PROVE  /\ x * BLOCK_SIZE \in Int /\ y * BLOCK_SIZE \in Int
         /\ x * BLOCK_SIZE + BLOCK_SIZE <= y * BLOCK_SIZE
  <1>1. BLOCK_SIZE \in Nat /\ y - x - 1 \in Nat
    BY Numbers
  <1>2. (y - x - 1) * BLOCK_SIZE \in Nat
    BY <1>1
  <1>3. y * BLOCK_SIZE = (y - x - 1) * BLOCK_SIZE + (x * BLOCK_SIZE + BLOCK_SIZE)
    BY <1>1
  <1>. QED
    BY <1>1, <1>2, <1>3

\* Different places have different logical pages.
LEMMA LpnAt ==
  ASSUME NEW l \in Lbas, NEW i \in Offsets
  PROVE  /\ l * BLOCK_SIZE + i \in Lpns
         /\ lba(l * BLOCK_SIZE + i) = l /\ off(l * BLOCK_SIZE + i) = i
  <1>1. /\ l \in Int /\ l >= 0 /\ l < NumLbas /\ i \in Int /\ i >= 0 /\ i < BLOCK_SIZE
        /\ BLOCK_SIZE \in Nat /\ NumLbas \in Nat
    BY Numbers DEF Lbas, Offsets
  <1>. DEFINE n == l * BLOCK_SIZE + i
  <1>2. l * BLOCK_SIZE + BLOCK_SIZE <= NumLbas * BLOCK_SIZE
    BY <1>1, Apart
  <1>3. l * BLOCK_SIZE \in Nat /\ NumLbas * BLOCK_SIZE \in Int
    BY <1>1
  <1>4. n \in Lpns
    BY <1>1, <1>2, <1>3 DEF Lpns
  <1>. HIDE DEF n
  <1>5. lba(n) \in Int /\ off(n) \in Int /\ 0 <= off(n) /\ off(n) < BLOCK_SIZE
        /\ n = lba(n) * BLOCK_SIZE + off(n)
    BY <1>1, <1>4, LpnFacts DEF Lbas, Offsets
  <1>6. n = l * BLOCK_SIZE + i
    BY DEF n
  <1>7. ~(lba(n) < l)
    <2>1. ASSUME lba(n) < l PROVE FALSE
      <3>1. lba(n) * BLOCK_SIZE + BLOCK_SIZE <= l * BLOCK_SIZE /\ lba(n) * BLOCK_SIZE \in Int
        BY <1>1, <1>5, <2>1, Apart
      <3>. QED
        BY <1>1, <1>3, <1>5, <1>6, <3>1
    <2>. QED
      BY <2>1
  <1>8. ~(l < lba(n))
    <2>1. ASSUME l < lba(n) PROVE FALSE
      <3>1. l * BLOCK_SIZE + BLOCK_SIZE <= lba(n) * BLOCK_SIZE /\ lba(n) * BLOCK_SIZE \in Int
        BY <1>1, <1>5, <2>1, Apart
      <3>. QED
        BY <1>1, <1>3, <1>5, <1>6, <3>1
    <2>. QED
      BY <2>1
  <1>9. lba(n) = l
    BY <1>1, <1>5, <1>7, <1>8
  <1>10. off(n) = i
    BY <1>1, <1>3, <1>5, <1>6, <1>9
  <1>. QED
    BY <1>4, <1>9, <1>10 DEF n

\* Of a set of log pages one is the newest and one the oldest.
LEMMA EntryOrder ==
  ASSUME NEW N \in Nat, NEW E \in SUBSET ((1 .. N) \X Offsets), E # {}
  PROVE  /\ Newest(E) \in E /\ \A e \in E \ {Newest(E)} : Older(e, Newest(E))
         /\ Oldest(E) \in E
  <1>. DEFINE key(e) == e[1] * BLOCK_SIZE + e[2]
              max == N * BLOCK_SIZE + BLOCK_SIZE
              Keys == {key(e) : e \in E}
              Rest == {max - key(e) : e \in E}
  <1>1. BLOCK_SIZE \in Nat \ {0} /\ N * BLOCK_SIZE \in Nat /\ max \in Nat
    BY Numbers
  <1>2. \A e \in E : /\ e = <<e[1], e[2]>>
                     /\ e[1] \in 1 .. N /\ e[2] \in Int /\ 0 <= e[2] /\ e[2] < BLOCK_SIZE
    BY <1>1 DEF Offsets
  <1>3. ASSUME NEW e \in E, NEW g \in E, e # g, key(e) <= key(g)
        PROVE  Older(e, g)
    <2>1. /\ e[1] \in Int /\ g[1] \in Int /\ e[2] \in Int /\ g[2] \in Int
          /\ 0 <= e[2] /\ e[2] < BLOCK_SIZE /\ 0 <= g[2] /\ g[2] < BLOCK_SIZE
          /\ e[1] * BLOCK_SIZE \in Int /\ g[1] * BLOCK_SIZE \in Int
      BY <1>1, <1>2
    <2>2. CASE g[1] < e[1]
      <3>1. g[1] * BLOCK_SIZE + BLOCK_SIZE <= e[1] * BLOCK_SIZE
        BY <2>1, <2>2, Apart
      <3>. QED
        BY <1>1, <1>3, <2>1, <3>1
    <2>3. CASE e[1] = g[1]
      <3>1. e[2] <= g[2]
        BY <1>3, <2>1, <2>3
      <3>2. e[2] # g[2]
        BY <1>2, <1>3, <2>3
      <3>. QED
        BY <2>1, <2>3, <3>1, <3>2 DEF Older
    <2>. QED
      BY <2>1, <2>2, <2>3 DEF Older
  <1>4. \A e \in E : key(e) \in Nat /\ max - key(e) \in Nat
    <2>. SUFFICES ASSUME NEW e \in E PROVE key(e) \in Nat /\ max - key(e) \in Nat
      OBVIOUS
    <2>1. /\ e[1] \in Int /\ e[1] >= 1 /\ e[1] <= N /\ e[2] \in Int
          /\ 0 <= e[2] /\ e[2] < BLOCK_SIZE
      BY <1>2
    <2>2. e[1] * BLOCK_SIZE \in Nat
      BY <1>1, <2>1
    <2>3. e[1] * BLOCK_SIZE <= N * BLOCK_SIZE
      <3>1. CASE e[1] = N
        BY <1>1, <2>2, <3>1
      <3>2. CASE e[1] < N
        BY <1>1, <2>1, <2>2, <3>2, Apart
      <3>. QED
        BY <2>1, <3>1, <3>2
    <2>. QED
      BY <1>1, <2>1, <2>2, <2>3
  <1>5. \E e \in E : \A g \in E \ {e} : Older(e, g)
    <2>. HIDE DEF key
    <2>1. Keys \in SUBSET Nat /\ Keys # {}
      BY <1>4
    <2>2. PICK m \in Keys : \A n \in Keys : m <= n
      <3>. HIDE DEF Keys
      <3>. QED
        BY <2>1, LeastNumber
    <2>3. PICK e \in E : m = key(e)
      BY <2>2
    <2>4. \A g \in E : key(e) <= key(g)
      BY <2>2, <2>3
    <2>. QED
      BY <1>3, <2>4
  <1>6. \E e \in E : \A g \in E \ {e} : Older(g, e)
    <2>. HIDE DEF key, max
    <2>1. Rest \in SUBSET Nat /\ Rest # {}
      BY <1>4
    <2>2. PICK m \in Rest : \A n \in Rest : m <= n
      <3>. HIDE DEF Rest
      <3>. QED
        BY <2>1, LeastNumber
    <2>3. PICK e \in E : m = max - key(e)
      BY <2>2
    <2>4. \A g \in E : max - key(e) <= max - key(g)
      BY <2>2, <2>3
    <2>5. \A g \in E : key(g) <= key(e)
      BY <1>1, <1>4, <2>4
    <2>. QED
      BY <1>3, <2>5
  <1>. HIDE DEF key
  <1>7. Oldest(E) \in E
    BY <1>5 DEF Oldest
  <1>8. Newest(E) \in E /\ \A e \in E \ {Newest(E)} : Older(e, Newest(E))
    BY <1>6 DEF Newest
  <1>. QED
    BY <1>7, <1>8

\* Log entries name pages of the array.
LEMMA EntryFacts ==
  ASSUME NEW s \in Tables, NEW lpn \in Lpns
  PROVE  /\ Len(s.ring) \in Nat
         /\ LogEntries(s, lpn) \in SUBSET ((1 .. Len(s.ring)) \X Offsets)
         /\ MergeEntries(s, lpn) \in SUBSET ((1 .. Len(s.ring)) \X Offsets)
         /\ LogEntries(s, lpn) # {} => LogPage(s, Oldest(LogEntries(s, lpn))) \in Ppns
         /\ MergeEntries(s, lpn) # {} => LogPage(s, Newest(MergeEntries(s, lpn))) \in Ppns
  <1>1. Len(s.ring) \in Nat /\ \A n \in 1 .. Len(s.ring) : s.ring[n].address \in Blocks
    <2>1. s.ring \in Seq(LogPageBlock)
      BY RecordFacts
    <2>2. Len(s.ring) \in Nat /\ \A n \in 1 .. Len(s.ring) : s.ring[n] \in LogPageBlock
      BY <2>1
    <2>. QED
      BY <2>2 DEF LogPageBlock
  <1>2. LogEntries(s, lpn) \in SUBSET ((1 .. Len(s.ring)) \X Offsets)
    BY DEF LogEntries
  <1>3. MergeEntries(s, lpn) \in SUBSET ((1 .. Len(s.ring)) \X Offsets)
    BY <1>2 DEF MergeEntries
  <1>4. \A e \in (1 .. Len(s.ring)) \X Offsets : LogPage(s, e) \in Ppns
    BY <1>1 DEF LogPage, Ppns
  <1>5. LogEntries(s, lpn) # {} => Oldest(LogEntries(s, lpn)) \in (1 .. Len(s.ring)) \X Offsets
    BY <1>1, <1>2, EntryOrder
  <1>6. MergeEntries(s, lpn) # {} => Newest(MergeEntries(s, lpn)) \in (1 .. Len(s.ring)) \X Offsets
    BY <1>1, <1>3, EntryOrder
  <1>. QED
    BY <1>1, <1>2, <1>3, <1>4, <1>5, <1>6

\* So do addresses in a data block, those of a missing one included.
LEMMA DataFacts ==
  ASSUME NEW s \in Tables, NEW l \in Lbas, NEW i \in Offsets
  PROVE  /\ HasData(s, l) => s.data_list[l] \in Blocks
         /\ DataBlockAt(s, l) \in Blocks
         /\ DataPageAt(s, l, i) \in Ppns
         /\ HasData(s, l) => DataPageAt(s, l, i) = <<s.data_list[l], i>>
  <1>1. HasData(s, l) => s.data_list[l] \in Blocks
    BY RecordFacts DEF HasData
  <1>2. LastBlock \in Blocks /\ 0 \in Blocks /\ BLOCK_SIZE - 1 \in Offsets
        /\ (i # 0 => i - 1 \in Offsets)
    BY Numbers DEF Offsets
  <1>. QED
    BY <1>1, <1>2 DEF DataBlockAt, DataPageAt, Ppns

\* And so do the sources of the merges.
LEMMA SourceFacts ==
  ASSUME NEW s \in Tables, NEW l \in Lbas, NEW i \in Offsets
  PROVE  /\ \A b \in Blocks : DataSource(s, l, b, i) \in Ppns \cup {NoPpn}
         /\ s.seq.address \in Blocks => /\ SequentialPage(s, i) \in Ppns
                                        /\ SequentialSource(s, l, i) \in Ppns \cup {NoPpn}
  <1>1. DataPageAt(s, l, i) \in Ppns
    BY DataFacts
  <1>2. \A b \in Blocks : DataSource(s, l, b, i) \in Ppns \cup {NoPpn}
    BY <1>1 DEF DataSource
  <1>3. s.seq.address \in Blocks => /\ SequentialPage(s, i) \in Ppns
                                    /\ SequentialSource(s, l, i) \in Ppns \cup {NoPpn}
    BY <1>1 DEF SequentialPage, SequentialSource, Ppns
  <1>. QED
    BY <1>2, <1>3

\* The scan of random_merge stays within the log.
LEMMA ScanFacts ==
  ASSUME NEW s \in Tables, NEW n \in 0 .. Len(s.ring) * BLOCK_SIZE - 1
  PROVE  ScanEntry(s, n) \in (1 .. Len(s.ring)) \X Offsets
  <1>. DEFINE k == Len(s.ring)
              q == n \div BLOCK_SIZE
              r == n % BLOCK_SIZE
  <1>1. k \in Nat /\ BLOCK_SIZE \in Nat \ {0}
    BY RecordFacts, Numbers
  <1>2. k * BLOCK_SIZE = BLOCK_SIZE * k /\ k * BLOCK_SIZE \in Nat
    BY <1>1
  <1>3. n \in Nat /\ n < BLOCK_SIZE * k
    <2>. HIDE DEF k
    <2>1. n \in 0 .. k * BLOCK_SIZE - 1
      BY DEF k
    <2>. QED
      BY <1>1, <1>2, <2>1
  <1>4. q \in Nat /\ r \in 0 .. BLOCK_SIZE - 1
    BY <1>1, <1>3, DivMod
  <1>5. q < k
    BY <1>1, <1>3, DivBound
  <1>. HIDE DEF q, r, k
  <1>6. k - q \in 1 .. k /\ (BLOCK_SIZE - 1) - r \in 0 .. BLOCK_SIZE - 1
    BY <1>1, <1>4, <1>5
  <1>. QED
    BY <1>6 DEF ScanEntry, Offsets, k, q, r

---------------------------------------------------------------------------
(* The loops.  Each is a function on the turns, whose run has to be shown  *)
(* to exist before anything is known of it.                                *)

\* What programming pages of a block leaves alone.
OnlyPrograms(s, t) ==
  /\ t \in Tables
  /\ SameTables(s, t) /\ StaysDead(s, t)
  /\ t.target = s.target /\ t.taken = s.taken /\ t.bm = s.bm
  /\ Alive(t) => Alive(s)

LEMMA OnlyProgramsFacts ==
  ASSUME NEW s \in Tables
  PROVE  /\ OnlyPrograms(s, s)
         /\ \A t, u : OnlyPrograms(s, t) /\ OnlyPrograms(t, u) => OnlyPrograms(s, u)
  BY DEF OnlyPrograms, SameTables, StaysDead

\* A turn of a merge programs at most one page.
LEMMA MergePageType ==
  ASSUME NEW s \in Tables, NEW p \in Ppns \cup {NoPpn}, NEW b \in Blocks, NEW i \in Offsets,
         NEW t, t = MergePage(s, p, b, i)
  PROVE  /\ OnlyPrograms(s, t)
         /\ p = NoPpn => t = s
         /\ p # NoPpn /\ Alive(t) => /\ CanProgram(s.flash, <<b, i>>)
                                     /\ t.flash = Program(s.flash, <<b, i>>, s.flash.data[p])
         /\ Alive(s) /\ (p # NoPpn => CanProgram(s.flash, <<b, i>>)) => Alive(t)
  <1>1. CASE p = NoPpn
    BY <1>1, OnlyProgramsFacts DEF MergePage
  <1>2. CASE p \in Ppns /\ p # NoPpn
    <2>1. <<b, i>> \in Ppns
      BY DEF Ppns
    <2>2. s.flash.data[p] \in Contents
      BY <1>2, RecordFacts DEF FlashType
    <2>3. t = WritePage(s, <<b, i>>, s.flash.data[p], NoPpn)
      BY <1>2 DEF MergePage, CopyTo
    <2>4. /\ t \in Tables /\ SameTables(s, t) /\ StaysDead(s, t)
          /\ t.target = s.target /\ t.taken = s.taken /\ t.bm = s.bm
          /\ Alive(t) => /\ Alive(s)
                         /\ CanProgram(s.flash, <<b, i>>)
                         /\ t.flash = Program(s.flash, <<b, i>>, s.flash.data[p])
          /\ Alive(s) /\ CanProgram(s.flash, <<b, i>>) => Alive(t)
      BY <2>1, <2>2, <2>3, WritePageType
    <2>. QED
      BY <1>2, <2>4 DEF OnlyPrograms
  <1>. QED
    BY <1>1, <1>2

\* merge_sequential copies page after page.
LEMMA MergedSequentialRun ==
  ASSUME NEW s \in Tables, s.seq.address \in Blocks, NEW l \in Lbas, NEW b \in Blocks
  PROVE  \E run :
           /\ run[0] = s /\ run[BLOCK_SIZE] = MergedSequential(s, l, b)
           /\ \A n \in 0 .. BLOCK_SIZE : OnlyPrograms(s, run[n])
           /\ \A n \in Offsets :
                run[n + 1] = MergePage(run[n], SequentialSource(run[n], l, n), b, n)
  <1>. DEFINE N == BLOCK_SIZE
              R == {u \in Tables : u.seq.address \in Blocks}
              turn(u, n) == MergePage(u, SequentialSource(u, l, n), b, n)
              F == [n \in 0 .. N - 1 |-> [u \in R |-> turn(u, n)]]
              Copies(f) == f = [n \in 0 .. N |-> IF n = 0 THEN s ELSE turn(f[n - 1], n - 1)]
              run == CHOOSE f : Copies(f)
              Good == {n \in 0 .. N : OnlyPrograms(s, run[n])}
  <1>1. N \in Nat /\ 0 .. N - 1 = Offsets
    BY GeometryAssumption DEF Offsets
  <1>2. ASSUME NEW u \in R, NEW n \in Offsets
        PROVE  OnlyPrograms(u, turn(u, n)) /\ turn(u, n) \in R
    <2>. DEFINE p == SequentialSource(u, l, n)
    <2>1. u \in Tables /\ p \in Ppns \cup {NoPpn} /\ turn(u, n) = MergePage(u, p, b, n)
      BY <1>2, SourceFacts
    <2>. HIDE DEF p, turn
    <2>2. OnlyPrograms(u, turn(u, n))
      BY <2>1, MergePageType
    <2>. QED
      BY <2>2 DEF OnlyPrograms, SameTables
  <1>3. \E f : Copies(f)
    <2>0. N \in Nat /\ s \in R /\ F \in Turns(N, R)
      <3>. HIDE DEF turn
      <3>. QED
        BY <1>1, <1>2 DEF Turns
    <2>. HIDE DEF F, R
    <2>1. PICK f : IsRun(f, N, R, s, F)
      BY <2>0, LoopExists
    <2>2. \A n \in 0 .. N : n # 0 => n - 1 \in 0 .. N - 1 /\ f[n - 1] \in R
      <3>1. \A n \in 0 .. N : n # 0 => n - 1 \in 0 .. N /\ n - 1 \in 0 .. N - 1
        BY <1>1
      <3>2. f \in [0 .. N -> R]
        BY <2>1 DEF IsRun
      <3>. QED
        BY <3>1, <3>2
    <2>. HIDE DEF turn
    <2>3. \A n \in 0 .. N : n # 0 => F[n - 1][f[n - 1]] = turn(f[n - 1], n - 1)
      BY <2>2 DEF F
    <2>4. f = [n \in 0 .. N |-> IF n = 0 THEN s ELSE turn(f[n - 1], n - 1)]
      BY <2>1, <2>3 DEF IsRun
    <2>. QED
      BY <2>4
  <1>4. Copies(run)
    BY <1>3, Zenon
  <1>5. MergedSequential(s, l, b) = run[N]
    BY DEF MergedSequential
  <1>. HIDE DEF run, turn, F
  <1>6. run[0] = s /\ \A n \in 1 .. N : run[n] = turn(run[n - 1], n - 1)
    BY <1>1, <1>4
  <1>7. \A n \in Offsets : n + 1 \in 1 .. N /\ (n + 1) - 1 = n /\ n \in 0 .. N
    BY <1>1
  <1>8. \A n \in Offsets : run[n + 1] = turn(run[n], n)
    BY <1>6, <1>7
  <1>9. 0 \in Good
    BY <1>1, <1>6, OnlyProgramsFacts
  <1>10. \A n \in 0 .. N - 1 : n \in Good => n + 1 \in Good
    <2>. SUFFICES ASSUME NEW n \in Offsets, n \in Good PROVE n + 1 \in Good
      BY <1>1
    <2>1. run[n] \in R
      BY DEF OnlyPrograms, SameTables
    <2>2. OnlyPrograms(run[n], run[n + 1])
      BY <1>2, <1>8, <2>1
    <2>3. n + 1 \in 0 .. N
      BY <1>1
    <2>. QED
      BY <2>2, <2>3, OnlyProgramsFacts
  <1>11. \A n \in 0 .. N : n \in Good
    <2>. HIDE DEF Good
    <2>. QED
      BY <1>1, <1>9, <1>10, Reaches
  <1>. QED
    BY <1>5, <1>6, <1>8, <1>11 DEF turn

\* A log page is copied: entry e of the log holds a page of logical block l
\* whose place in block b is EMPTY.
LogCopied(u, v, l, b, e) ==
  \E lpn \in Lpns :
    /\ lba(lpn) = l /\ e \in MergeEntries(u, lpn)
    /\ u.flash.page[<<b, off(lpn)>>] = "EMPTY"
    /\ LogPage(u, e) \in Ppns
    /\ v = MergePage(u, LogPage(u, e), b, off(lpn))

\* A turn of the scan copies one log page or none.
LEMMA MergeLogPageType ==
  ASSUME NEW u \in Tables, NEW l \in Lbas, NEW b \in Blocks,
         NEW e \in (1 .. Len(u.ring)) \X Offsets,
         NEW v, v = MergeLogPage(u, l, b, e)
  PROVE  OnlyPrograms(u, v) /\ (v = u \/ LogCopied(u, v, l, b, e))
  <1>. DEFINE lpn == u.ring[e[1]].aPages[e[2]]
  <1>1. /\ e[1] \in 1 .. Len(u.ring) /\ e[2] \in Offsets
        /\ u.ring[e[1]] \in LogPageBlock
    <2>1. u.ring \in Seq(LogPageBlock)
      BY RecordFacts
    <2>. QED
      BY <2>1
  <1>2. lpn \in Lpns \cup {NoLpn} /\ LogPage(u, e) \in Ppns
    BY <1>1 DEF LogPageBlock, LogPage, Ppns
  <1>. HIDE DEF lpn
  <1>3. CASE /\ lpn # NoLpn /\ lba(lpn) = l /\ e \in MergeEntries(u, lpn)
             /\ u.flash.page[<<b, off(lpn)>>] = "EMPTY"
    <2>1. v = MergePage(u, LogPage(u, e), b, off(lpn))
      BY <1>3 DEF MergeLogPage, lpn
    <2>2. lpn \in Lpns /\ off(lpn) \in Offsets
      BY <1>2, <1>3, LpnFacts
    <2>3. OnlyPrograms(u, v)
      BY <1>2, <2>1, <2>2, MergePageType
    <2>. QED
      BY <1>2, <1>3, <2>1, <2>2, <2>3 DEF LogCopied
  <1>4. CASE ~(/\ lpn # NoLpn /\ lba(lpn) = l /\ e \in MergeEntries(u, lpn)
               /\ u.flash.page[<<b, off(lpn)>>] = "EMPTY")
    <2>1. v = u
      BY <1>4 DEF MergeLogPage, lpn
    <2>. QED
      BY <2>1, OnlyProgramsFacts
  <1>. QED
    BY <1>3, <1>4

\* random_merge scans the log for a logical block ...
LEMMA MergedLogRun ==
  ASSUME NEW s \in Tables, NEW l \in Lbas, NEW b \in Blocks
  PROVE  \E run :
           /\ run[0] = s /\ run[Len(s.ring) * BLOCK_SIZE] = MergedLog(s, l, b)
           /\ \A n \in 0 .. Len(s.ring) * BLOCK_SIZE : OnlyPrograms(s, run[n])
           /\ \A n \in 0 .. Len(s.ring) * BLOCK_SIZE - 1 :
                run[n + 1] = MergeLogPage(run[n], l, b, ScanEntry(s, n))
  <1>. DEFINE N == Len(s.ring) * BLOCK_SIZE
              R == {u \in Tables : Len(u.ring) = Len(s.ring)}
              turn(u, n) == MergeLogPage(u, l, b, ScanEntry(s, n))
              F == [n \in 0 .. N - 1 |-> [u \in R |-> turn(u, n)]]
              Copies(f) == f = [n \in 0 .. N |-> IF n = 0 THEN s ELSE turn(f[n - 1], n - 1)]
              run == CHOOSE f : Copies(f)
              Good == {n \in 0 .. N : OnlyPrograms(s, run[n])}
  <1>0. Len(s.ring) \in Nat /\ BLOCK_SIZE \in Nat
    BY RecordFacts, Numbers
  <1>1. N \in Nat
    BY <1>0
  <1>2. ASSUME NEW u \in R, NEW n \in 0 .. N - 1
        PROVE  OnlyPrograms(u, turn(u, n)) /\ turn(u, n) \in R
    <2>. DEFINE e == ScanEntry(s, n)
    <2>1. u \in Tables /\ Len(u.ring) = Len(s.ring) /\ turn(u, n) = MergeLogPage(u, l, b, e)
      BY <1>2
    <2>2. e \in (1 .. Len(u.ring)) \X Offsets
      BY <2>1, ScanFacts
    <2>. HIDE DEF e, turn
    <2>3. OnlyPrograms(u, turn(u, n))
      BY <2>1, <2>2, MergeLogPageType
    <2>. QED
      BY <2>1, <2>3 DEF OnlyPrograms, SameTables
  <1>3. \E f : Copies(f)
    <2>0. N \in Nat /\ s \in R /\ F \in Turns(N, R)
      <3>. HIDE DEF turn
      <3>. QED
        BY <1>1, <1>2 DEF Turns
    <2>. HIDE DEF F, R
    <2>1. PICK f : IsRun(f, N, R, s, F)
      BY <2>0, LoopExists
    <2>2. \A n \in 0 .. N : n # 0 => n - 1 \in 0 .. N - 1 /\ f[n - 1] \in R
      <3>1. \A n \in 0 .. N : n # 0 => n - 1 \in 0 .. N /\ n - 1 \in 0 .. N - 1
        BY <1>1
      <3>2. f \in [0 .. N -> R]
        BY <2>1 DEF IsRun
      <3>. QED
        BY <3>1, <3>2
    <2>. HIDE DEF turn
    <2>3. \A n \in 0 .. N : n # 0 => F[n - 1][f[n - 1]] = turn(f[n - 1], n - 1)
      BY <2>2 DEF F
    <2>4. f = [n \in 0 .. N |-> IF n = 0 THEN s ELSE turn(f[n - 1], n - 1)]
      BY <2>1, <2>3 DEF IsRun
    <2>. QED
      BY <2>4
  <1>4. Copies(run)
    BY <1>3, Zenon
  <1>5. MergedLog(s, l, b) = run[N]
    BY DEF MergedLog
  <1>. HIDE DEF run, turn, F, N
  <1>6. run[0] = s /\ \A n \in 1 .. N : run[n] = turn(run[n - 1], n - 1)
    BY <1>1, <1>4
  <1>7. \A n \in 0 .. N - 1 : n + 1 \in 1 .. N /\ (n + 1) - 1 = n /\ n \in 0 .. N
    BY <1>1
  <1>8. \A n \in 0 .. N - 1 : run[n + 1] = turn(run[n], n)
    BY <1>6, <1>7
  <1>9. 0 \in Good
    BY <1>1, <1>6, OnlyProgramsFacts
  <1>10. \A n \in 0 .. N - 1 : n \in Good => n + 1 \in Good
    <2>. SUFFICES ASSUME NEW n \in 0 .. N - 1, n \in Good PROVE n + 1 \in Good
      BY <1>1
    <2>1. run[n] \in R
      BY DEF OnlyPrograms, SameTables
    <2>2. OnlyPrograms(run[n], run[n + 1])
      BY <1>2, <1>8, <2>1
    <2>3. n + 1 \in 0 .. N
      BY <1>1
    <2>. QED
      BY <2>2, <2>3, OnlyProgramsFacts
  <1>11. \A n \in 0 .. N : n \in Good
    <2>. HIDE DEF Good
    <2>. QED
      BY <1>1, <1>9, <1>10, Reaches
  <1>. QED
    BY <1>5, <1>6, <1>8, <1>11 DEF turn, N

LEMMA MergedLogType ==
  ASSUME NEW s \in Tables, NEW l \in Lbas, NEW b \in Blocks
  PROVE  OnlyPrograms(s, MergedLog(s, l, b))
  <1>1. Len(s.ring) * BLOCK_SIZE \in 0 .. Len(s.ring) * BLOCK_SIZE
    <2>1. Len(s.ring) \in Nat /\ BLOCK_SIZE \in Nat
      BY RecordFacts, Numbers
    <2>2. Len(s.ring) * BLOCK_SIZE \in Nat
      BY <2>1
    <2>. QED
      BY <2>2
  <1>. QED
    BY <1>1, MergedLogRun

\* ... and then copies pages of its data block.
LEMMA MergedLbaRun ==
  ASSUME NEW s \in Tables, NEW l \in Lbas, NEW b \in Blocks
  PROVE  \E run :
           /\ run[0] = MergedLog(s, l, b) /\ run[BLOCK_SIZE] = MergedLba(s, l, b)
           /\ \A n \in 0 .. BLOCK_SIZE : OnlyPrograms(s, run[n])
           /\ \A n \in Offsets :
                run[n + 1] = MergePage(run[n], DataSource(run[n], l, b, n), b, n)
  <1>. DEFINE x == MergedLog(s, l, b)
              N == BLOCK_SIZE
              R == Tables
              turn(u, n) == MergePage(u, DataSource(u, l, b, n), b, n)
              F == [n \in 0 .. N - 1 |-> [u \in R |-> turn(u, n)]]
              Copies(f) == f = [n \in 0 .. N |-> IF n = 0 THEN x ELSE turn(f[n - 1], n - 1)]
              run == CHOOSE f : Copies(f)
              Good == {n \in 0 .. N : OnlyPrograms(s, run[n])}
  <1>1. N \in Nat /\ 0 .. N - 1 = Offsets
    BY GeometryAssumption DEF Offsets
  <1>0. OnlyPrograms(s, x) /\ x \in R
    BY MergedLogType DEF OnlyPrograms
  <1>2. ASSUME NEW u \in R, NEW n \in Offsets
        PROVE  OnlyPrograms(u, turn(u, n)) /\ turn(u, n) \in R
    <2>. DEFINE p == DataSource(u, l, b, n)
    <2>1. u \in Tables /\ p \in Ppns \cup {NoPpn} /\ turn(u, n) = MergePage(u, p, b, n)
      BY <1>2, SourceFacts
    <2>. HIDE DEF p, turn
    <2>2. OnlyPrograms(u, turn(u, n))
      BY <2>1, MergePageType
    <2>. QED
      BY <2>2 DEF OnlyPrograms
  <1>3. \E f : Copies(f)
    <2>0. N \in Nat /\ x \in R /\ F \in Turns(N, R)
      <3>. HIDE DEF turn
      <3>. QED
        BY <1>0, <1>1, <1>2 DEF Turns
    <2>. HIDE DEF F, R, x
    <2>1. PICK f : IsRun(f, N, R, x, F)
      BY <2>0, LoopExists
    <2>2. \A n \in 0 .. N : n # 0 => n - 1 \in 0 .. N - 1 /\ f[n - 1] \in R
      <3>1. \A n \in 0 .. N : n # 0 => n - 1 \in 0 .. N /\ n - 1 \in 0 .. N - 1
        BY <1>1
      <3>2. f \in [0 .. N -> R]
        BY <2>1 DEF IsRun
      <3>. QED
        BY <3>1, <3>2
    <2>. HIDE DEF turn
    <2>3. \A n \in 0 .. N : n # 0 => F[n - 1][f[n - 1]] = turn(f[n - 1], n - 1)
      BY <2>2 DEF F
    <2>4. f = [n \in 0 .. N |-> IF n = 0 THEN x ELSE turn(f[n - 1], n - 1)]
      BY <2>1, <2>3 DEF IsRun
    <2>. QED
      BY <2>4
  <1>4. Copies(run)
    BY <1>3, Zenon
  <1>5. MergedLba(s, l, b) = run[N]
    BY DEF MergedLba
  <1>. HIDE DEF run, turn, F, x
  <1>6. run[0] = x /\ \A n \in 1 .. N : run[n] = turn(run[n - 1], n - 1)
    BY <1>1, <1>4
  <1>7. \A n \in Offsets : n + 1 \in 1 .. N /\ (n + 1) - 1 = n /\ n \in 0 .. N
    BY <1>1
  <1>8. \A n \in Offsets : run[n + 1] = turn(run[n], n)
    BY <1>6, <1>7
  <1>9. 0 \in Good
    BY <1>0, <1>1, <1>6
  <1>10. \A n \in 0 .. N - 1 : n \in Good => n + 1 \in Good
    <2>. SUFFICES ASSUME NEW n \in Offsets, n \in Good PROVE n + 1 \in Good
      BY <1>1
    <2>1. run[n] \in R
      BY DEF OnlyPrograms
    <2>2. OnlyPrograms(run[n], run[n + 1])
      BY <1>2, <1>8, <2>1
    <2>3. n + 1 \in 0 .. N
      BY <1>1
    <2>. QED
      BY <2>2, <2>3, OnlyProgramsFacts
  <1>11. \A n \in 0 .. N : n \in Good
    <2>. HIDE DEF Good
    <2>. QED
      BY <1>1, <1>9, <1>10, Reaches
  <1>. QED
    BY <1>5, <1>6, <1>8, <1>11 DEF turn, x

---------------------------------------------------------------------------
(* The merges.                                                             *)

\* The log blocks stay where they are and keep their number of used pages.
RingKept(s, t) ==
  /\ t.log_page_next = s.log_page_next
  /\ Len(t.ring) = Len(s.ring)
  /\ \A n \in 1 .. Len(s.ring) : /\ t.ring[n].address = s.ring[n].address
                                 /\ t.ring[n].numPages = s.ring[n].numPages

\* A merge renews data blocks.
Merges(s, t) ==
  /\ t \in Tables
  /\ RingKept(s, t) /\ StaysDead(s, t)
  /\ t.seq = s.seq /\ t.target = s.target
  /\ Alive(t) => Alive(s)

LEMMA MergesFacts ==
  ASSUME NEW s \in Tables
  PROVE  /\ Merges(s, s)
         /\ \A t \in Tables : \A u : Merges(s, t) /\ Merges(t, u) => Merges(s, u)
         /\ \A t \in Tables : /\ SameTables(s, t) /\ StaysDead(s, t)
                              /\ t.target = s.target
                              /\ Alive(t) => Alive(s)
                              => Merges(s, t)
         /\ \A t : OnlyPrograms(s, t) => Merges(s, t)
  BY DEF Merges, RingKept, StaysDead, SameTables, OnlyPrograms

\* A logical block is mapped to another data block.
LEMMA RemapType ==
  ASSUME NEW s \in Tables, NEW l \in Lbas, NEW b \in Blocks \cup {NoBlock},
         NEW t, t = [s EXCEPT !.data_list = [s.data_list EXCEPT ![l] = b]]
  PROVE  /\ t \in Tables
         /\ t.flash = s.flash /\ t.bm = s.bm /\ t.ring = s.ring
         /\ t.log_page_next = s.log_page_next /\ t.seq = s.seq
         /\ t.taken = s.taken /\ t.target = s.target /\ t.abort = s.abort
         /\ \A m \in Lbas : t.data_list[m] = IF m = l THEN b ELSE s.data_list[m]
  <1>1. s.data_list \in [Lbas -> Blocks \cup {NoBlock}]
    BY RecordFacts
  <1>2. [s.data_list EXCEPT ![l] = b] \in [Lbas -> Blocks \cup {NoBlock}]
    BY <1>1
  <1>. QED
    BY <1>1, <1>2 DEF Tables, Records

\* merge_sequential.
LEMMA MergeSequentialType ==
  ASSUME NEW s \in Tables, NEW t, t = merge_sequential(s)
  PROVE  Merges(s, t) /\ t.ring = s.ring
  <1>. DEFINE l == s.seq.lba
              k == TakeBlock(s, "DATA")
              u == MakeRoom(k)
              m == MergedSequential(u, l, u.taken)
              noSW == GiveBack(m, s.seq.address, "DATA")
              noData == IF HasData(s, l) THEN GiveBack(noSW, s.data_list[l], "DATA") ELSE noSW
  <1>1. "DATA" \in BlockTypes
    BY DEF BlockTypes
  <1>2. /\ k \in Tables /\ SameTables(s, k) /\ StaysDead(s, k) /\ k.target = s.target
        /\ Alive(k) => Alive(s) /\ k.taken \in Blocks
    BY <1>1, TakeType
  <1>3. /\ u \in Tables /\ SameTables(k, u) /\ StaysDead(k, u)
        /\ u.target = k.target /\ u.taken = k.taken
        /\ Alive(u) => Alive(k)
    <2>. HIDE DEF k
    <2>. QED
      BY <1>2, MakeRoomType
  <1>4. Merges(s, u) /\ u.ring = s.ring /\ (Alive(u) => u.taken \in Blocks)
    <2>. HIDE DEF u, k
    <2>. QED
      BY <1>2, <1>3 DEF Merges, RingKept, SameTables, StaysDead
  <1>5. CASE l = NoLba
    <2>1. t = s
      BY <1>5 DEF merge_sequential
    <2>. QED
      BY <2>1, MergesFacts
  <1>6. CASE l # NoLba /\ ~Alive(u)
    <2>1. t = u
      BY <1>6 DEF merge_sequential
    <2>. QED
      BY <1>4, <2>1
  <1>7. CASE l # NoLba /\ Alive(u)
    <2>1. l \in Lbas /\ s.seq.address \in Blocks /\ u.taken \in Blocks /\ Alive(s)
      BY <1>4, <1>7, RecordFacts DEF Merges
    <2>2. u.seq.address \in Blocks
      BY <1>4, <2>1 DEF Merges
    <2>3. OnlyPrograms(u, m)
      <3>1. BLOCK_SIZE \in 0 .. BLOCK_SIZE
        BY Numbers
      <3>. HIDE DEF u
      <3>. QED
        BY <1>3, <2>1, <2>2, <3>1, MergedSequentialRun
    <2>4. m \in Tables /\ m.ring = s.ring /\ Merges(s, m)
      <3>. HIDE DEF m, u
      <3>. QED
        BY <1>3, <1>4, <2>3, MergesFacts DEF OnlyPrograms, SameTables
    <2>5. /\ noSW \in Tables /\ SameTables(m, noSW) /\ StaysDead(m, noSW)
          /\ noSW.target = m.target /\ noSW.abort = m.abort
      <3>. HIDE DEF m
      <3>. QED
        BY <1>1, <2>1, <2>4, GiveBackType
    <2>6. noSW.ring = s.ring /\ Merges(s, noSW)
      <3>. HIDE DEF m, noSW
      <3>. QED
        BY <2>4, <2>5, MergesFacts DEF SameTables, Alive
    <2>7. /\ noData \in Tables /\ SameTables(noSW, noData) /\ StaysDead(noSW, noData)
          /\ noData.target = noSW.target /\ noData.abort = noSW.abort
      <3>1. HasData(s, l) => s.data_list[l] \in Blocks
        BY <2>1, RecordFacts DEF HasData
      <3>2. ~HasData(s, l) => noData = noSW
        OBVIOUS
      <3>3. HasData(s, l) => noData = GiveBack(noSW, s.data_list[l], "DATA")
        OBVIOUS
      <3>. HIDE DEF noData, noSW
      <3>. QED
        BY <1>1, <2>5, <3>1, <3>2, <3>3, GiveBackType DEF SameTables, StaysDead
    <2>8. noData.ring = s.ring /\ Merges(s, noData)
      <3>. HIDE DEF noData, noSW
      <3>. QED
        BY <2>5, <2>6, <2>7, MergesFacts DEF SameTables, Alive
    <2>9. t = [noData EXCEPT !.data_list = [noData.data_list EXCEPT ![l] = u.taken]]
      BY <1>7 DEF merge_sequential
    <2>10. /\ t \in Tables /\ t.ring = noData.ring /\ t.log_page_next = noData.log_page_next
           /\ t.seq = noData.seq /\ t.target = noData.target /\ t.abort = noData.abort
      <3>. HIDE DEF noData, u
      <3>. QED
        BY <2>1, <2>7, <2>9, RemapType
    <2>. HIDE DEF noData
    <2>. QED
      BY <2>1, <2>8, <2>10 DEF Merges, RingKept, StaysDead, Alive
  <1>. QED
    BY <1>5, <1>6, <1>7

\* switch_sequential.
LEMMA SwitchType ==
  ASSUME NEW s \in Tables, Alive(s), NEW t, t = switch_sequential(s)
  PROVE  Merges(s, t) /\ t.ring = s.ring
  <1>. DEFINE l == s.seq.lba
              u == IF HasData(s, l) THEN GiveBack(s, s.data_list[l], "DATA") ELSE s
  <1>1. CASE l = NoLba
    <2>1. t = Fails(s, "undefined")
      BY <1>1 DEF switch_sequential
    <2>. QED
      BY <2>1, AbortIn, FailsType, MergesFacts DEF SameTables, StaysDead
  <1>2. CASE l # NoLba
    <2>1. l \in Lbas /\ s.seq.address \in Blocks
      BY <1>2, RecordFacts
    <2>2. /\ u \in Tables /\ SameTables(s, u) /\ u.target = s.target /\ u.abort = s.abort
      <3>1. HasData(s, l) => s.data_list[l] \in Blocks
        BY <2>1, RecordFacts DEF HasData
      <3>2. "DATA" \in BlockTypes
        BY DEF BlockTypes
      <3>. QED
        BY <3>1, <3>2, GiveBackType DEF SameTables
    <2>3. t = [u EXCEPT !.data_list = [u.data_list EXCEPT ![l] = s.seq.address]]
      BY <1>2 DEF switch_sequential
    <2>4. /\ t \in Tables /\ t.ring = u.ring /\ t.log_page_next = u.log_page_next
          /\ t.seq = u.seq /\ t.target = u.target /\ t.abort = u.abort
      <3>. HIDE DEF u
      <3>. QED
        BY <2>1, <2>2, <2>3, RemapType
    <2>. HIDE DEF u
    <2>. QED
      BY <2>2, <2>4 DEF Merges, RingKept, StaysDead, Alive, SameTables
  <1>. QED
    BY <1>1, <1>2

\* Clearing entries forgets logical pages and nothing else.
LEMMA ClearType ==
  ASSUME NEW s \in Tables, NEW E, NEW t, t = ClearEntries(s, E)
  PROVE  /\ t \in Tables
         /\ t.flash = s.flash /\ t.bm = s.bm /\ t.data_list = s.data_list
         /\ t.log_page_next = s.log_page_next /\ t.seq = s.seq
         /\ t.taken = s.taken /\ t.target = s.target /\ t.abort = s.abort
         /\ RingKept(s, t)
         /\ \A n \in 1 .. Len(s.ring), i \in Offsets :
              t.ring[n].aPages[i] = IF <<n, i>> \in E THEN NoLpn ELSE s.ring[n].aPages[i]
  <1>. DEFINE r == [n \in DOMAIN s.ring |->
                      [s.ring[n] EXCEPT !.aPages = ClearedPages(s, n, E)]]
              N == Len(s.ring)
  <1>1. s.ring \in Seq(LogPageBlock) /\ N \in Nat /\ DOMAIN s.ring = 1 .. N
        /\ \A n \in 1 .. N : s.ring[n] \in LogPageBlock
    BY RecordFacts
  <1>2. ASSUME NEW n \in 1 .. N
        PROVE  /\ r[n] \in LogPageBlock
               /\ r[n].address = s.ring[n].address /\ r[n].numPages = s.ring[n].numPages
               /\ \A i \in Offsets :
                    r[n].aPages[i] = IF <<n, i>> \in E THEN NoLpn ELSE s.ring[n].aPages[i]
    <2>1. s.ring[n] \in LogPageBlock
      BY <1>1
    <2>2. ClearedPages(s, n, E) \in [Offsets -> Lpns \cup {NoLpn}]
      BY <2>1 DEF ClearedPages, LogPageBlock
    <2>3. r[n] = [s.ring[n] EXCEPT !.aPages = ClearedPages(s, n, E)]
      BY <1>1
    <2>4. \A i \in Offsets : ClearedPages(s, n, E)[i]
                               = IF <<n, i>> \in E THEN NoLpn ELSE s.ring[n].aPages[i]
      BY DEF ClearedPages
    <2>. HIDE DEF r
    <2>. QED
      BY <2>1, <2>2, <2>3, <2>4 DEF LogPageBlock
  <1>3. r \in Seq(LogPageBlock) /\ Len(r) = N
    <2>1. r \in [1 .. N -> LogPageBlock]
      BY <1>1, <1>2
    <2>. HIDE DEF r
    <2>2. r \in Seq(LogPageBlock)
      BY <1>1, <2>1, SeqDef
    <2>3. DOMAIN r = 1 .. Len(r) /\ Len(r) \in Nat /\ DOMAIN r = 1 .. N
      BY <2>1, <2>2, LenProperties
    <2>. QED
      BY <1>1, <2>2, <2>3
  <1>4. t = [s EXCEPT !.ring = r]
    BY DEF ClearEntries
  <1>. HIDE DEF r
  <1>5. t \in Tables
    BY <1>3, <1>4 DEF Tables, Records
  <1>6. RingKept(s, t) /\ TRUE
    BY <1>1, <1>2, <1>3, <1>4 DEF RingKept
  <1>. QED
    BY <1>1, <1>2, <1>3, <1>4, <1>5, <1>6

\* One round of random_merge.
LEMMA MergeLbaType ==
  ASSUME NEW s \in Tables, NEW l \in Lbas, NEW t, t = MergeLba(s, l)
  PROVE  Merges(s, t)
  <1>. DEFINE r == MakeRoom(s)
              u == TakeBlock(r, "DATA")
              m == MergedLba(u, l, u.taken)
              c == ClearEntries(m, Superseded(u, l, u.taken))
              g == GiveBack(c, DataBlockAt(u, l), "DATA")
  <1>1. "DATA" \in BlockTypes
    BY DEF BlockTypes
  <1>2. /\ r \in Tables /\ SameTables(s, r) /\ StaysDead(s, r)
        /\ r.target = s.target
        /\ Alive(r) => Alive(s)
    BY MakeRoomType
  <1>3. /\ u \in Tables /\ SameTables(r, u) /\ StaysDead(r, u) /\ u.target = r.target
        /\ Alive(u) => Alive(r) /\ u.taken \in Blocks
    <2>. HIDE DEF r
    <2>. QED
      BY <1>1, <1>2, TakeType
  <1>4. Merges(s, u)
    <2>. HIDE DEF u, r
    <2>. QED
      BY <1>2, <1>3 DEF Merges, RingKept, SameTables, StaysDead
  <1>5. CASE ~Alive(u)
    <2>1. t = u
      BY <1>5 DEF MergeLba
    <2>. QED
      BY <1>4, <2>1
  <1>6. CASE Alive(u)
    <2>1. u.taken \in Blocks /\ Alive(s)
      BY <1>4, <1>6, <1>3 DEF Merges
    <2>2. OnlyPrograms(u, m)
      <3>1. BLOCK_SIZE \in 0 .. BLOCK_SIZE
        BY Numbers
      <3>. HIDE DEF u
      <3>. QED
        BY <1>3, <2>1, <3>1, MergedLbaRun
    <2>3. m \in Tables /\ Merges(s, m)
      <3>. HIDE DEF m, u
      <3>. QED
        BY <1>3, <1>4, <2>2, MergesFacts DEF OnlyPrograms
    <2>4. /\ c \in Tables /\ RingKept(m, c)
          /\ c.seq = m.seq /\ c.target = m.target /\ c.abort = m.abort
      <3>. HIDE DEF m, u
      <3>. QED
        BY <2>3, ClearType
    <2>5. DataBlockAt(u, l) \in Blocks
      <3>1. 0 \in Offsets
        BY Numbers
      <3>. HIDE DEF u
      <3>. QED
        BY <1>3, <3>1, DataFacts
    <2>6. /\ g \in Tables /\ SameTables(c, g)
          /\ g.target = c.target /\ g.abort = c.abort
      <3>. HIDE DEF c
      <3>. QED
        BY <1>1, <2>4, <2>5, GiveBackType
    <2>7. t = [g EXCEPT !.data_list = [g.data_list EXCEPT ![l] = u.taken]]
      BY <1>6 DEF MergeLba
    <2>8. /\ t \in Tables /\ t.ring = g.ring /\ t.log_page_next = g.log_page_next
          /\ t.seq = g.seq /\ t.target = g.target /\ t.abort = g.abort
      <3>. HIDE DEF g, u
      <3>. QED
        BY <2>1, <2>6, <2>7, RemapType
    <2>. HIDE DEF g, c, m, u, r
    <2>. QED
      BY <2>1, <2>3, <2>4, <2>6, <2>8 DEF Merges, RingKept, StaysDead, Alive, SameTables
  <1>. QED
    BY <1>5, <1>6

\* The logical blocks with a page in a log block.
MergedLbas(v) ==
  {lba(v.aPages[i]) : i \in {j \in Offsets : j < v.numPages /\ v.aPages[j] # NoLpn}}
MergeTurn(u, v, l) == IF l \in MergedLbas(v) THEN MergeLba(u, l) ELSE u

\* random_merge looks at one logical block after the other.
IsMergeRun(s, v, run) ==
  /\ run[0] = s /\ run[NumLbas] = random_merge(s, v)
  /\ \A n \in 0 .. NumLbas : run[n] \in Tables /\ Merges(s, run[n])
  /\ \A l \in Lbas : run[l + 1] = MergeTurn(run[l], v, l)

LEMMA RandomMergeRun ==
  ASSUME NEW s \in Tables, NEW v
  PROVE  \E run : IsMergeRun(s, v, run)
  <1>. DEFINE N == NumLbas
              R == Tables
              turn(u, l) == MergeTurn(u, v, l)
              F == [n \in 0 .. N - 1 |-> [u \in R |-> turn(u, n)]]
              Copies(f) == f = [n \in 0 .. N |-> IF n = 0 THEN s ELSE turn(f[n - 1], n - 1)]
              run == CHOOSE f : Copies(f)
              Good == {n \in 0 .. N : run[n] \in Tables /\ Merges(s, run[n])}
  <1>1. N \in Nat /\ 0 .. N - 1 = Lbas
    BY Numbers DEF Lbas
  <1>2. ASSUME NEW u \in R, NEW l \in Lbas
        PROVE  Merges(u, turn(u, l)) /\ turn(u, l) \in R
    BY <1>2, MergeLbaType, MergesFacts DEF Merges, MergeTurn
  <1>3. \E f : Copies(f)
    <2>0. N \in Nat /\ s \in R /\ F \in Turns(N, R)
      <3>. HIDE DEF turn
      <3>. QED
        BY <1>1, <1>2 DEF Turns
    <2>. HIDE DEF F, R
    <2>1. PICK f : IsRun(f, N, R, s, F)
      BY <2>0, LoopExists
    <2>2. \A n \in 0 .. N : n # 0 => n - 1 \in 0 .. N - 1 /\ f[n - 1] \in R
      <3>1. \A n \in 0 .. N : n # 0 => n - 1 \in 0 .. N /\ n - 1 \in 0 .. N - 1
        BY <1>1
      <3>2. f \in [0 .. N -> R]
        BY <2>1 DEF IsRun
      <3>. QED
        BY <3>1, <3>2
    <2>. HIDE DEF turn
    <2>3. \A n \in 0 .. N : n # 0 => F[n - 1][f[n - 1]] = turn(f[n - 1], n - 1)
      BY <2>2 DEF F
    <2>4. f = [n \in 0 .. N |-> IF n = 0 THEN s ELSE turn(f[n - 1], n - 1)]
      BY <2>1, <2>3 DEF IsRun
    <2>. QED
      BY <2>4
  <1>4. Copies(run)
    BY <1>3, Zenon
  <1>5. random_merge(s, v) = run[N]
    BY DEF random_merge, MergeTurn, MergedLbas
  <1>. HIDE DEF run, turn, F
  <1>6. run[0] = s /\ \A n \in 1 .. N : run[n] = turn(run[n - 1], n - 1)
    BY <1>1, <1>4
  <1>7. \A n \in Lbas : n + 1 \in 1 .. N /\ (n + 1) - 1 = n /\ n \in 0 .. N
    BY <1>1
  <1>8. \A n \in Lbas : run[n + 1] = turn(run[n], n)
    BY <1>6, <1>7
  <1>9. 0 \in Good
    BY <1>1, <1>6, MergesFacts
  <1>10. \A n \in 0 .. N - 1 : n \in Good => n + 1 \in Good
    <2>. SUFFICES ASSUME NEW n \in Lbas, n \in Good PROVE n + 1 \in Good
      BY <1>1
    <2>1. run[n] \in R
      OBVIOUS
    <2>2. Merges(run[n], run[n + 1]) /\ run[n + 1] \in R
      BY <1>2, <1>8, <2>1
    <2>3. n + 1 \in 0 .. N
      BY <1>1
    <2>. QED
      BY <2>1, <2>2, <2>3, MergesFacts
  <1>11. \A n \in 0 .. N : n \in Good
    <2>. HIDE DEF Good
    <2>. QED
      BY <1>1, <1>9, <1>10, Reaches
  <1>12. IsMergeRun(s, v, run)
    BY <1>5, <1>6, <1>8, <1>11 DEF turn, IsMergeRun
  <1>. QED
    BY <1>12

LEMMA RandomMergeType ==
  ASSUME NEW s \in Tables, NEW v, NEW t, t = random_merge(s, v)
  PROVE  t \in Tables /\ Merges(s, t)
  <1>1. NumLbas \in 0 .. NumLbas
    BY Numbers
  <1>. QED
    BY <1>1, RandomMergeRun DEF IsMergeRun

---------------------------------------------------------------------------
(* The list of log blocks.                                                 *)

\* Pages used in the n-th log block when m pages of the list are.
FillCount(m, n) ==
  LET before == (n - 1) * BLOCK_SIZE
  IN IF m <= before THEN 0
     ELSE IF m - before >= BLOCK_SIZE THEN BLOCK_SIZE ELSE m - before

RingFull(s) ==
  /\ Len(s.ring) = FAST_LOG_BLOCK_LIMIT
  /\ \A n \in 1 .. FAST_LOG_BLOCK_LIMIT : s.ring[n].numPages = FillCount(s.log_page_next, n)

\* Before the first request there is no list.
RingOrdered(s) ==
  IF s.ring = << >> THEN s.log_page_next = 0 ELSE RingFull(s)

LEMMA NewLogBlockType ==
  ASSUME NEW b \in Blocks
  PROVE  /\ NewLogBlock(b) \in LogPageBlock
         /\ NewLogBlock(b).address = b /\ NewLogBlock(b).numPages = 0
         /\ \A i \in Offsets : NewLogBlock(b).aPages[i] = NoLpn
  <1>1. 0 \in 0 .. BLOCK_SIZE
    BY Numbers
  <1>. QED
    BY <1>1 DEF NewLogBlock, LogPageBlock

\* A log block more.
LEMMA TakeLogBlockType ==
  ASSUME NEW s \in Tables, NEW t, t = TakeLogBlock(s)
  PROVE  /\ t \in Tables /\ StaysDead(s, t)
         /\ t.data_list = s.data_list /\ t.log_page_next = s.log_page_next
         /\ t.seq = s.seq /\ t.target = s.target
         /\ Alive(t) => /\ Alive(s)
                        /\ t.taken \in Blocks
                        /\ t.ring = Append(s.ring, NewLogBlock(t.taken))
                        /\ Alive(TakeBlock(s, "LOG"))
                        /\ t.taken = TakeBlock(s, "LOG").taken
                        /\ t.bm = TakeBlock(s, "LOG").bm
                        /\ t.flash = TakeBlock(s, "LOG").flash
  <1>. DEFINE k == TakeBlock(s, "LOG")
  <1>1. /\ k \in Tables /\ SameTables(s, k) /\ StaysDead(s, k) /\ k.target = s.target
        /\ Alive(k) => Alive(s) /\ k.taken \in Blocks
    <2>1. "LOG" \in BlockTypes
      BY DEF BlockTypes
    <2>. QED
      BY <2>1, TakeType
  <1>2. t = IF Alive(k) THEN [k EXCEPT !.ring = Append(k.ring, NewLogBlock(k.taken))] ELSE k
    BY DEF TakeLogBlock
  <1>. HIDE DEF k
  <1>3. CASE ~Alive(k)
    BY <1>1, <1>2, <1>3 DEF SameTables
  <1>4. CASE Alive(k)
    <2>1. Append(k.ring, NewLogBlock(k.taken)) \in Seq(LogPageBlock)
      BY <1>1, <1>4, NewLogBlockType, RecordFacts
    <2>2. /\ t \in Tables
          /\ t.ring = Append(k.ring, NewLogBlock(k.taken))
          /\ t.data_list = k.data_list /\ t.log_page_next = k.log_page_next
          /\ t.seq = k.seq /\ t.target = k.target /\ t.taken = k.taken
          /\ t.abort = k.abort /\ t.bm = k.bm /\ t.flash = k.flash
      BY <1>1, <1>2, <1>4, <2>1 DEF Tables, Records
    <2>3. Alive(s)
      BY <1>1, <1>4
    <2>. QED
      BY <1>1, <1>4, <2>2, <2>3 DEF SameTables, StaysDead, Alive, k
  <1>. QED
    BY <1>3, <1>4

\* q full log blocks and i pages of the next one.
LEMMA FillAt ==
  ASSUME NEW q \in Nat, NEW i \in 0 .. BLOCK_SIZE, NEW n \in Nat \ {0}
  PROVE  FillCount(q * BLOCK_SIZE + i, n)
           = IF n <= q THEN BLOCK_SIZE ELSE IF n = q + 1 THEN i ELSE 0
  <1>. DEFINE before == (n - 1) * BLOCK_SIZE
              m == q * BLOCK_SIZE + i
  <1>1. BLOCK_SIZE \in Nat \ {0} /\ q * BLOCK_SIZE \in Int /\ before \in Int
    BY Numbers
  <1>2. FillCount(m, n) = IF m <= before THEN 0
                          ELSE IF m - before >= BLOCK_SIZE THEN BLOCK_SIZE ELSE m - before
    BY DEF FillCount
  <1>3. CASE n <= q
    <2>1. before + BLOCK_SIZE <= q * BLOCK_SIZE
      <3>1. n - 1 \in Int /\ q \in Int /\ n - 1 < q
        BY <1>3
      <3>. QED
        BY <3>1, Apart
    <2>. HIDE DEF before
    <2>. QED
      BY <1>1, <1>2, <1>3, <2>1
  <1>4. CASE n = q + 1
    <2>1. before = q * BLOCK_SIZE
      BY <1>4
    <2>. HIDE DEF before
    <2>. QED
      BY <1>1, <1>2, <1>4, <2>1
  <1>5. CASE n > q + 1
    <2>1. q * BLOCK_SIZE + BLOCK_SIZE <= before
      <3>1. n - 1 \in Int /\ q \in Int /\ q < n - 1
        BY <1>5
      <3>. QED
        BY <3>1, Apart
    <2>. HIDE DEF before
    <2>. QED
      BY <1>1, <1>2, <1>5, <2>1
  <1>. QED
    BY <1>3, <1>4, <1>5

\* Where the next page of the list is: offset i of the log block after q full ones.
LEMMA NextPlace ==
  ASSUME NEW m \in 0 .. LogPagesMax
  PROVE  \E q \in Nat, i \in Offsets :
           /\ m = q * BLOCK_SIZE + i /\ i = m % BLOCK_SIZE
           /\ q <= FAST_LOG_BLOCK_LIMIT
           /\ m # LogPagesMax => q < FAST_LOG_BLOCK_LIMIT
  <1>. DEFINE q == m \div BLOCK_SIZE
              i == m % BLOCK_SIZE
  <1>1. BLOCK_SIZE \in Nat \ {0} /\ m \in Nat /\ FAST_LOG_BLOCK_LIMIT \in Nat
        /\ LogPagesMax = FAST_LOG_BLOCK_LIMIT * BLOCK_SIZE /\ LogPagesMax \in Nat
    BY Numbers DEF LogPagesMax
  <1>2. q \in Nat /\ i \in Offsets /\ m = BLOCK_SIZE * q + i
    BY <1>1, DivMod DEF Offsets
  <1>3. m = q * BLOCK_SIZE + i
    BY <1>1, <1>2
  <1>4. m # LogPagesMax => q < FAST_LOG_BLOCK_LIMIT
    <2>1. m # LogPagesMax => m < BLOCK_SIZE * FAST_LOG_BLOCK_LIMIT
      BY <1>1
    <2>. QED
      BY <1>1, <2>1, DivBound
  <1>5. q <= FAST_LOG_BLOCK_LIMIT
    <2>. SUFFICES ASSUME FAST_LOG_BLOCK_LIMIT < q PROVE FALSE
      BY <1>1, <1>2
    <2>1. FAST_LOG_BLOCK_LIMIT * BLOCK_SIZE + BLOCK_SIZE <= q * BLOCK_SIZE
          /\ q * BLOCK_SIZE \in Int
      BY <1>1, <1>2, Apart
    <2>. HIDE DEF q, i
    <2>. QED
      BY <1>1, <1>2, <1>3, <2>1 DEF Offsets
  <1>. QED
    BY <1>2, <1>3, <1>4, <1>5

\* The first request takes one log block after the other.
LEMMA InitializedRun ==
  ASSUME NEW s \in Tables, s.ring = << >>
  PROVE  \E run :
           /\ run[0] = s /\ run[FAST_LOG_BLOCK_LIMIT] = Initialized(s)
           /\ \A n \in 0 .. FAST_LOG_BLOCK_LIMIT : run[n] \in Tables
           /\ \A n \in 0 .. FAST_LOG_BLOCK_LIMIT - 1 : run[n + 1] = TakeLogBlock(run[n])
  <1>. DEFINE N == FAST_LOG_BLOCK_LIMIT
              R == Tables
              F == [n \in 0 .. N - 1 |-> [u \in R |-> TakeLogBlock(u)]]
              Takes(f) == f = [n \in 0 .. N |-> IF n = 0 THEN s ELSE TakeLogBlock(f[n - 1])]
              run == CHOOSE f : Takes(f)
              Good == {n \in 0 .. N : run[n] \in Tables}
  <1>1. N \in Nat
    BY Numbers
  <1>2. ASSUME NEW u \in R PROVE TakeLogBlock(u) \in R
    BY <1>2, TakeLogBlockType
  <1>3. \E f : Takes(f)
    <2>0. N \in Nat /\ s \in R /\ F \in Turns(N, R)
      BY <1>1, <1>2 DEF Turns
    <2>. HIDE DEF F, R
    <2>1. PICK f : IsRun(f, N, R, s, F)
      BY <2>0, LoopExists
    <2>2. \A n \in 0 .. N : n # 0 => n - 1 \in 0 .. N - 1 /\ f[n - 1] \in R
      <3>1. \A n \in 0 .. N : n # 0 => n - 1 \in 0 .. N /\ n - 1 \in 0 .. N - 1
        BY <1>1
      <3>2. f \in [0 .. N -> R]
        BY <2>1 DEF IsRun
      <3>. QED
        BY <3>1, <3>2
    <2>3. \A n \in 0 .. N : n # 0 => F[n - 1][f[n - 1]] = TakeLogBlock(f[n - 1])
      BY <2>2 DEF F
    <2>4. f = [n \in 0 .. N |-> IF n = 0 THEN s ELSE TakeLogBlock(f[n - 1])]
      BY <2>1, <2>3 DEF IsRun
    <2>. QED
      BY <2>4
  <1>4. Takes(run)
    BY <1>3, Zenon
  <1>5. Initialized(s) = run[N]
    BY DEF Initialized
  <1>. HIDE DEF run, F
  <1>6. run[0] = s /\ \A n \in 1 .. N : run[n] = TakeLogBlock(run[n - 1])
    BY <1>1, <1>4
  <1>7. \A n \in 0 .. N - 1 : n + 1 \in 1 .. N /\ (n + 1) - 1 = n
    BY <1>1
  <1>8. \A n \in 0 .. N - 1 : run[n + 1] = TakeLogBlock(run[n])
    BY <1>6, <1>7
  <1>9. 0 \in Good
    BY <1>1, <1>6
  <1>10. \A n \in 0 .. N - 1 : n \in Good => n + 1 \in Good
    <2>. SUFFICES ASSUME NEW n \in 0 .. N - 1, n \in Good PROVE n + 1 \in Good
      OBVIOUS
    <2>1. run[n + 1] \in Tables
      BY <1>2, <1>8
    <2>2. n + 1 \in 0 .. N
      BY <1>1
    <2>. QED
      BY <2>1, <2>2
  <1>11. \A n \in 0 .. N : n \in Good
    <2>. HIDE DEF Good
    <2>. QED
      BY <1>1, <1>9, <1>10, Reaches
  <1>. QED
    BY <1>5, <1>6, <1>8, <1>11

\* The log blocks are all there after initialize_log_pages.
LEMMA InitializedType ==
  ASSUME NEW s \in Tables, RingOrdered(s), NEW t, t = Initialized(s)
  PROVE  /\ t \in Tables /\ StaysDead(s, t)
         /\ t.data_list = s.data_list /\ t.log_page_next = s.log_page_next
         /\ t.seq = s.seq /\ t.target = s.target
         /\ Alive(t) => Alive(s) /\ RingFull(t)
  <1>1. CASE s.ring # << >>
    <2>1. t = s
      BY <1>1 DEF Initialized
    <2>. QED
      BY <1>1, <2>1 DEF RingOrdered, StaysDead
  <1>2. CASE s.ring = << >>
    <2>. DEFINE N == FAST_LOG_BLOCK_LIMIT
    <2>1. PICK run :
             /\ run[0] = s /\ run[N] = t
             /\ \A n \in 0 .. N : run[n] \in Tables
             /\ \A n \in 0 .. N - 1 : run[n + 1] = TakeLogBlock(run[n])
      BY <1>2, InitializedRun
    <2>. DEFINE Done(u, n) ==
                  /\ u \in Tables /\ StaysDead(s, u)
                  /\ u.data_list = s.data_list /\ u.log_page_next = s.log_page_next
                  /\ u.seq = s.seq /\ u.target = s.target
                  /\ Alive(u) => /\ Alive(s) /\ Len(u.ring) = n
                                 /\ \A k \in 1 .. n : u.ring[k].numPages = 0
                Good == {n \in 0 .. N : Done(run[n], n)}
    <2>2. N \in Nat /\ N # 0
      BY Numbers
    <2>3. 0 \in Good
      <3>1. Len(s.ring) = 0
        BY <1>2
      <3>. QED
        BY <2>1, <2>2, <3>1 DEF StaysDead
    <2>4. \A n \in 0 .. N - 1 : n \in Good => n + 1 \in Good
      <3>. SUFFICES ASSUME NEW n \in 0 .. N - 1, n \in Good PROVE n + 1 \in Good
        OBVIOUS
      <3>. DEFINE u == run[n]
                  v == run[n + 1]
      <3>1. Done(u, n) /\ v = TakeLogBlock(u) /\ n + 1 \in 0 .. N /\ n \in Nat
        BY <2>1, <2>2
      <3>. HIDE DEF u, v
      <3>2. /\ v \in Tables /\ StaysDead(u, v)
            /\ v.data_list = u.data_list /\ v.log_page_next = u.log_page_next
            /\ v.seq = u.seq /\ v.target = u.target
            /\ Alive(v) => /\ Alive(u)
                           /\ v.taken \in Blocks
                           /\ v.ring = Append(u.ring, NewLogBlock(v.taken))
        BY <3>1, TakeLogBlockType
      <3>3. ASSUME Alive(v)
            PROVE  Len(v.ring) = n + 1 /\ \A k \in 1 .. n + 1 : v.ring[k].numPages = 0
        <4>. DEFINE e == NewLogBlock(v.taken)
        <4>1. u.ring \in Seq(LogPageBlock) /\ Len(u.ring) = n /\ e \in LogPageBlock
              /\ e.numPages = 0
          BY <3>1, <3>2, <3>3, RecordFacts, NewLogBlockType
        <4>. HIDE DEF e
        <4>2. v.ring = Append(u.ring, e)
          BY <3>2, <3>3 DEF e
        <4>3. /\ Len(v.ring) = n + 1 /\ v.ring[n + 1] = e
              /\ \A k \in 1 .. n : v.ring[k] = u.ring[k]
          BY <3>1, <4>1, <4>2, AppendProperties
        <4>4. \A k \in 1 .. n : u.ring[k].numPages = 0
          BY <3>1, <3>2, <3>3
        <4>5. \A k \in 1 .. n + 1 : k = n + 1 \/ k \in 1 .. n
          BY <3>1
        <4>. QED
          BY <4>1, <4>3, <4>4, <4>5
      <3>4. Done(v, n + 1)
        BY <3>1, <3>2, <3>3 DEF StaysDead
      <3>. QED
        BY <3>1, <3>4 DEF v
    <2>5. \A n \in 0 .. N : n \in Good
      <3>. HIDE DEF Good
      <3>. QED
        BY <2>2, <2>3, <2>4, Reaches
    <2>6. Done(t, N)
      BY <2>1, <2>2, <2>5
    <2>7. ASSUME Alive(t) PROVE RingFull(t)
      <3>1. t.log_page_next = 0
        BY <1>2, <2>6 DEF RingOrdered
      <3>2. 0 \in Nat /\ 0 \in 0 .. BLOCK_SIZE /\ 0 * BLOCK_SIZE + 0 = 0
        BY Numbers
      <3>3. \A n \in 1 .. N : FillCount(0, n) = 0
        <4>. SUFFICES ASSUME NEW n \in 1 .. N PROVE FillCount(0, n) = 0
          OBVIOUS
        <4>1. n \in Nat \ {0} /\ ~(n <= 0)
          OBVIOUS
        <4>2. FillCount(0 * BLOCK_SIZE + 0, n) = 0
          BY <3>2, <4>1, FillAt
        <4>. QED
          BY <3>2, <4>2
      <3>. QED
        BY <2>6, <2>7, <3>1, <3>3 DEF RingFull
    <2>. QED
      BY <2>6, <2>7
  <1>. QED
    BY <1>1, <1>2

\* The page goes to the one log block that is neither full nor after one that
\* is not, at the offset its number of used pages says.
LEMMA AppendRandomEffect ==
  ASSUME NEW s \in Tables, Alive(s), RingFull(s), ~LogFull(s), NEW lpn \in Lpns,
         NEW t, t = AppendRandom(s, lpn)
  PROVE  \E k \in 1 .. FAST_LOG_BLOCK_LIMIT, i \in Offsets :
           /\ s.ring[k].numPages = i
           /\ t \in Tables /\ RingFull(t)
           /\ t.flash = s.flash /\ t.bm = s.bm /\ t.data_list = s.data_list
           /\ t.seq = s.seq /\ t.taken = s.taken /\ t.abort = s.abort
           /\ t.target = <<s.ring[k].address, i>> /\ t.target \in Ppns
           /\ \A n \in 1 .. FAST_LOG_BLOCK_LIMIT :
                /\ t.ring[n].address = s.ring[n].address
                /\ t.ring[n].numPages = IF n = k THEN i + 1 ELSE s.ring[n].numPages
                /\ \A j \in Offsets :
                     t.ring[n].aPages[j] = IF n = k /\ j = i THEN lpn ELSE s.ring[n].aPages[j]
  <1>. DEFINE L == FAST_LOG_BLOCK_LIMIT
              N == BLOCK_SIZE
              m == s.log_page_next
              Room(k) == /\ s.ring[k].numPages # N
                         /\ \A j \in 1 .. k - 1 : s.ring[j].numPages = N
              n == CHOOSE k \in DOMAIN s.ring : Room(k)
  <1>1. /\ s.ring \in Seq(LogPageBlock) /\ Len(s.ring) = L /\ DOMAIN s.ring = 1 .. L
        /\ L \in Nat /\ N \in Nat \ {0} /\ m \in 0 .. LogPagesMax /\ m # LogPagesMax
        /\ \A k \in 1 .. L : s.ring[k].numPages = FillCount(m, k)
        /\ \A k \in 1 .. L : s.ring[k] \in LogPageBlock
    BY Numbers, RecordFacts DEF RingFull, LogFull, LogPagesMax
  <1>2. PICK q \in Nat, i \in Offsets : m = q * N + i /\ i = m % N /\ q < L
    <2>. HIDE DEF m
    <2>. QED
      BY <1>1, NextPlace
  <1>. DEFINE k == q + 1
  <1>3. i \in 0 .. N /\ i + 1 \in 0 .. N /\ i # N /\ i \in Nat /\ k \in 1 .. L
    <2>1. N \in Nat \ {0} /\ L \in Nat /\ i \in 0 .. N - 1 /\ q \in Nat /\ q < L
      BY <1>1, <1>2 DEF Offsets
    <2>. HIDE DEF m
    <2>. QED
      BY <2>1
  <1>4. \A j \in 1 .. L : s.ring[j].numPages = IF j <= q THEN N ELSE IF j = k THEN i ELSE 0
    <2>. SUFFICES ASSUME NEW j \in 1 .. L
                  PROVE  s.ring[j].numPages = IF j <= q THEN N ELSE IF j = k THEN i ELSE 0
      OBVIOUS
    <2>1. j \in Nat \ {0}
      OBVIOUS
    <2>2. FillCount(q * N + i, j) = IF j <= q THEN N ELSE IF j = k THEN i ELSE 0
      BY <1>2, <1>3, <2>1, FillAt
    <2>. QED
      BY <1>1, <1>2, <2>2
  <1>. HIDE DEF m
  <1>5. Room(k) /\ \A j \in 1 .. L : Room(j) => j = k
    <2>1. Room(k)
      BY <1>1, <1>2, <1>3, <1>4, SMTT(30)
    <2>2. ASSUME NEW j \in 1 .. L, Room(j) PROVE j = k
      <3>1. ~(j <= q)
        BY <1>4, <2>2
      <3>2. ~(j > k)
        <4>. SUFFICES ASSUME j > k PROVE FALSE
          OBVIOUS
        <4>1. k \in 1 .. j - 1
          BY <1>2
        <4>. QED
          BY <1>2, <1>3, <1>4, <2>2, <4>1
      <3>. QED
        BY <1>2, <3>1, <3>2
    <2>. QED
      BY <2>1, <2>2
  <1>6. n = k
    <2>. HIDE DEF Room, k
    <2>. QED
      BY <1>1, <1>3, <1>5
  <1>. DEFINE b == s.ring[k]
              a == [b.aPages EXCEPT ![i] = lpn]
              c == [b EXCEPT !.aPages = a, !.numPages = b.numPages + 1]
              r == [s.ring EXCEPT ![k] = c]
  <1>7. t = [s EXCEPT !.ring = r, !.target = <<b.address, i>>, !.log_page_next = m + 1]
    <2>1. t = LET x == s.ring[n] IN
              [s EXCEPT !.ring = [s.ring EXCEPT ![n] =
                                    [x EXCEPT !.aPages   = [x.aPages EXCEPT ![i] = lpn],
                                              !.numPages = x.numPages + 1]],
                        !.target = <<x.address, i>>, !.log_page_next = m + 1]
      BY <1>2, Zenon DEF AppendRandom, m
    <2>. HIDE DEF n, k
    <2>2. t = LET x == s.ring[k] IN
              [s EXCEPT !.ring = [s.ring EXCEPT ![k] =
                                    [x EXCEPT !.aPages   = [x.aPages EXCEPT ![i] = lpn],
                                              !.numPages = x.numPages + 1]],
                        !.target = <<x.address, i>>, !.log_page_next = m + 1]
      BY <1>6, <2>1, Zenon
    <2>. QED
      BY <2>2, Zenon
  <1>8. /\ b \in LogPageBlock /\ b.numPages = i /\ b.address \in Blocks
        /\ b.aPages \in [Offsets -> Lpns \cup {NoLpn}]
    <2>1. b \in LogPageBlock
      BY <1>1, <1>3
    <2>2. b.numPages = i
      BY <1>2, <1>3, <1>4
    <2>. QED
      BY <2>1, <2>2 DEF LogPageBlock
  <1>. HIDE DEF b
  <1>9. /\ a \in [Offsets -> Lpns \cup {NoLpn}]
        /\ \A j \in Offsets : a[j] = IF j = i THEN lpn ELSE b.aPages[j]
    BY <1>8
  <1>. HIDE DEF a
  <1>10. /\ c \in LogPageBlock /\ c.address = b.address /\ c.numPages = i + 1
         /\ c.aPages = a
    BY <1>3, <1>8, <1>9 DEF LogPageBlock
  <1>. HIDE DEF c
  <1>11. /\ r \in Seq(LogPageBlock) /\ Len(r) = L
         /\ \A j \in 1 .. L : r[j] = IF j = k THEN c ELSE s.ring[j]
    BY <1>1, <1>3, <1>10, ExceptSeq
  <1>. HIDE DEF r
  <1>12. <<b.address, i>> \in Ppns
    BY <1>8 DEF Ppns
  <1>13. m + 1 \in 0 .. LogPagesMax
    BY <1>1, Numbers
  <1>14. t \in Tables
    BY <1>7, <1>11, <1>12, <1>13 DEF Tables, Records
  <1>15. /\ t.ring = r /\ t.log_page_next = m + 1 /\ t.target = <<b.address, i>>
         /\ t.flash = s.flash /\ t.bm = s.bm /\ t.data_list = s.data_list
         /\ t.seq = s.seq /\ t.taken = s.taken /\ t.abort = s.abort
    BY <1>7 DEF Tables, Records
  <1>16. \A j \in 1 .. L :
           /\ t.ring[j].address = s.ring[j].address
           /\ t.ring[j].numPages = IF j = k THEN i + 1 ELSE s.ring[j].numPages
           /\ \A o \in Offsets :
                t.ring[j].aPages[o] = IF j = k /\ o = i THEN lpn ELSE s.ring[j].aPages[o]
    BY <1>9, <1>10, <1>11, <1>15 DEF b
  <1>17. RingFull(t)
    <2>1. \A j \in 1 .. L : t.ring[j].numPages = FillCount(m + 1, j)
      <3>. SUFFICES ASSUME NEW j \in 1 .. L PROVE t.ring[j].numPages = FillCount(m + 1, j)
        OBVIOUS
      <3>1. j \in Nat \ {0}
        OBVIOUS
      <3>2. FillCount(q * N + (i + 1), j) = IF j <= q THEN N ELSE IF j = q + 1 THEN i + 1 ELSE 0
        BY <1>2, <1>3, <3>1, FillAt
      <3>3. m + 1 = q * N + (i + 1)
        <4>1. q * N \in Int
          BY <1>1, <1>2
        <4>. QED
          BY <1>2, <1>3, <4>1
      <3>. QED
        BY <1>2, <1>3, <1>4, <1>16, <3>2, <3>3
    <2>. QED
      BY <1>11, <1>15, <2>1 DEF RingFull
  <1>18. s.ring[k].address = b.address /\ s.ring[k].numPages = i
    BY <1>8 DEF b
  <1>. HIDE DEF k
  <1>. QED
    BY <1>3, <1>12, <1>14, <1>15, <1>16, <1>17, <1>18

\* The oldest log block leaves the list and a new one comes to its end.
LEMMA RecycleEffect ==
  ASSUME NEW s \in Tables, RingFull(s), LogFull(s), NEW t, t = RecycleOldest(s)
  PROVE  /\ t \in Tables
         /\ t.target = s.target /\ t.seq = s.seq
         /\ Alive(t) => /\ Alive(s) /\ RingFull(t) /\ ~LogFull(t)
  <1>. DEFINE L == FAST_LOG_BLOCK_LIMIT
              N == BLOCK_SIZE
              v == Head(s.ring)
              m == random_merge(s, v)
              u == [m EXCEPT !.ring = Tail(m.ring)]
              g == GiveBack(u, v.address, "LOG")
              k == TakeLogBlock(g)
  <1>1. /\ L \in Nat /\ L >= 2 /\ N \in Nat \ {0} /\ Len(s.ring) = L
        /\ s.ring \in Seq(LogPageBlock) /\ s.ring # << >>
        /\ v = s.ring[1] /\ v \in LogPageBlock /\ v.address \in Blocks
        /\ s.log_page_next = L * N
        /\ \A n \in 1 .. L : s.ring[n].numPages = FillCount(L * N, n)
    <2>1. s.ring \in Seq(LogPageBlock) /\ Len(s.ring) = L /\ L \in Nat /\ L >= 2
      BY Numbers, RecordFacts DEF RingFull
    <2>2. s.ring # << >> /\ v = s.ring[1] /\ v \in LogPageBlock
      BY <2>1
    <2>. QED
      BY <2>1, <2>2, Numbers DEF RingFull, LogFull, LogPageBlock
  <1>. HIDE DEF v
  <1>2. /\ m \in Tables /\ RingKept(s, m) /\ StaysDead(s, m)
        /\ m.seq = s.seq /\ m.target = s.target
        /\ Alive(m) => Alive(s)
    BY RandomMergeType DEF Merges
  <1>. HIDE DEF m
  <1>3. /\ m.ring \in Seq(LogPageBlock) /\ Len(m.ring) = L /\ m.ring # << >>
        /\ Tail(m.ring) \in Seq(LogPageBlock) /\ Len(Tail(m.ring)) = L - 1
        /\ \A n \in 1 .. L - 1 : Tail(m.ring)[n] = m.ring[n + 1]
    <2>1. m.ring \in Seq(LogPageBlock) /\ Len(m.ring) = L
      BY <1>1, <1>2, RecordFacts DEF RingKept
    <2>2. m.ring # << >>
      BY <1>1, <2>1
    <2>. QED
      BY <2>1, <2>2, HeadTailProperties
  <1>4. /\ u \in Tables /\ u.ring = Tail(m.ring)
        /\ u.log_page_next = m.log_page_next /\ u.seq = m.seq /\ u.target = m.target
        /\ u.abort = m.abort
    BY <1>2, <1>3 DEF Tables, Records
  <1>. HIDE DEF u
  <1>5. /\ g \in Tables /\ SameTables(u, g) /\ g.target = u.target /\ g.abort = u.abort
    <2>1. "LOG" \in BlockTypes
      BY DEF BlockTypes
    <2>. QED
      BY <1>1, <1>4, <2>1, GiveBackType
  <1>. HIDE DEF g
  <1>6. /\ k \in Tables
        /\ k.data_list = g.data_list /\ k.log_page_next = g.log_page_next
        /\ k.seq = g.seq /\ k.target = g.target
        /\ Alive(k) => /\ Alive(g) /\ k.taken \in Blocks
                       /\ k.ring = Append(g.ring, NewLogBlock(k.taken))
    BY <1>5, TakeLogBlockType
  <1>7. t = [k EXCEPT !.log_page_next = k.log_page_next - N]
    BY <1>5 DEF RecycleOldest, k, g, u, m, v
  <1>. HIDE DEF k
  <1>8. k.log_page_next = L * N
    BY <1>1, <1>2, <1>4, <1>5, <1>6 DEF RingKept, SameTables
  <1>9. /\ L * N - N = (L - 1) * N + 0 /\ L - 1 \in Nat
        /\ L * N - N \in 0 .. LogPagesMax /\ L * N - N # L * N
    <2>1. L * N \in Nat /\ (L - 1) * N \in Nat /\ L * N = (L - 1) * N + N
      BY <1>1
    <2>. QED
      BY <1>1, <2>1 DEF LogPagesMax
  <1>10. /\ t \in Tables
         /\ t.log_page_next = L * N - N
         /\ t.ring = k.ring /\ t.seq = k.seq /\ t.target = k.target /\ t.abort = k.abort
    <2>1. L * N - N \in 0 .. LogPagesMax
      BY <1>9
    <2>2. t = [k EXCEPT !.log_page_next = L * N - N]
      BY <1>7, <1>8
    <2>. HIDE DEF L, N
    <2>. QED
      BY <1>6, <2>1, <2>2 DEF Tables, Records
  <1>11. ASSUME Alive(t)
         PROVE  Alive(s) /\ RingFull(t) /\ ~LogFull(t)
    <2>1. Alive(k) /\ Alive(g) /\ Alive(s)
      BY <1>2, <1>4, <1>5, <1>6, <1>10, <1>11 DEF Alive
    <2>. DEFINE e == NewLogBlock(k.taken)
    <2>2. e \in LogPageBlock /\ e.numPages = 0
      BY <1>6, <2>1, NewLogBlockType
    <2>3. t.ring = Append(Tail(m.ring), e)
      BY <1>4, <1>5, <1>6, <1>10, <2>1 DEF SameTables
    <2>. HIDE DEF e
    <2>4. /\ Len(t.ring) = L /\ t.ring[L] = e
          /\ \A n \in 1 .. L - 1 : t.ring[n] = m.ring[n + 1]
      <3>1. /\ Len(t.ring) = (L - 1) + 1 /\ t.ring[(L - 1) + 1] = e
            /\ \A n \in 1 .. L - 1 : t.ring[n] = Tail(m.ring)[n]
        BY <1>3, <2>2, <2>3, AppendProperties
      <3>. QED
        BY <1>1, <1>3, <3>1
    <2>5. \A n \in 1 .. L : t.ring[n].numPages = FillCount(L * N - N, n)
      <3>. SUFFICES ASSUME NEW n \in 1 .. L
                    PROVE  t.ring[n].numPages = FillCount(L * N - N, n)
        OBVIOUS
      <3>0. n \in Nat \ {0} /\ 0 \in 0 .. N /\ L * N + 0 = L * N
        BY <1>1
      <3>1. FillCount((L - 1) * N + 0, n)
              = IF n <= L - 1 THEN N ELSE IF n = (L - 1) + 1 THEN 0 ELSE 0
        BY <1>9, <3>0, FillAt
      <3>2. CASE n = L
        <4>1. ~(n <= L - 1)
          BY <1>1, <3>2
        <4>. QED
          BY <1>9, <2>2, <2>4, <3>1, <3>2, <4>1
      <3>3. CASE n # L
        <4>1. n \in 1 .. L - 1 /\ n + 1 \in 1 .. L /\ n <= L - 1 /\ n + 1 <= L
              /\ n + 1 \in Nat \ {0}
          BY <1>1, <3>3
        <4>2. t.ring[n].numPages = s.ring[n + 1].numPages
          BY <1>1, <1>2, <2>4, <4>1 DEF RingKept
        <4>3. FillCount(L * N + 0, n + 1) = N
          BY <1>1, <3>0, <4>1, FillAt
        <4>. QED
          BY <1>1, <1>9, <3>0, <3>1, <4>1, <4>2, <4>3
      <3>. QED
        BY <3>2, <3>3
    <2>. QED
      BY <1>9, <1>10, <2>1, <2>4, <2>5 DEF RingFull, LogFull
  <1>. QED
    BY <1>2, <1>4, <1>5, <1>6, <1>10, <1>11 DEF SameTables

---------------------------------------------------------------------------
(* The requests, as far as the types and the order of the log go.          *)

\* The handler goes on with a full list of log blocks.
Proceeds(s, t) ==
  /\ t \in Tables
  /\ Alive(t) => Alive(s) /\ RingFull(t)

LEMMA RingFullKept ==
  ASSUME NEW s \in Tables, RingFull(s), NEW t, RingKept(s, t)
  PROVE  RingFull(t)
  BY Numbers DEF RingFull, RingKept

LEMMA MergesProceed ==
  ASSUME NEW s \in Tables, RingFull(s), NEW t, Merges(s, t)
  PROVE  Proceeds(s, t) /\ (LogFull(t) <=> LogFull(s))
  BY RingFullKept DEF Merges, Proceeds, RingKept, LogFull

\* A new SW log block.
LEMMA StartSequentialType ==
  ASSUME NEW s \in Tables, NEW l \in Lbas, NEW t, t = StartSequential(s, l)
  PROVE  /\ t \in Tables
         /\ t.ring = s.ring /\ t.log_page_next = s.log_page_next
         /\ t.data_list = s.data_list
         /\ Alive(t) => /\ Alive(s)
                        /\ Alive(TakeBlock(s, "DATA"))
                        /\ t.taken \in Blocks /\ t.taken = TakeBlock(s, "DATA").taken
                        /\ t.target = <<t.taken, 0>> /\ t.target \in Ppns
                        /\ t.seq.address = t.taken /\ t.seq.offset = 1 /\ t.seq.lba = l
                        /\ t.bm = TakeBlock(s, "DATA").bm
                        /\ t.flash = TakeBlock(s, "DATA").flash
  <1>. DEFINE k == TakeBlock(s, "DATA")
              q == [address |-> k.taken, offset |-> 1, lba |-> l]
  <1>1. /\ k \in Tables /\ SameTables(s, k)
        /\ Alive(k) => Alive(s) /\ k.taken \in Blocks
    <2>1. "DATA" \in BlockTypes
      BY DEF BlockTypes
    <2>. QED
      BY <2>1, TakeType
  <1>2. t = IF ~Alive(k) THEN k ELSE [k EXCEPT !.seq = q, !.target = <<k.taken, 0>>]
    BY DEF StartSequential
  <1>. HIDE DEF k
  <1>3. CASE ~Alive(k)
    BY <1>1, <1>2, <1>3 DEF SameTables
  <1>4. CASE Alive(k)
    <2>1. k.taken \in Blocks /\ 0 \in Offsets /\ 1 \in 0 .. BLOCK_SIZE
      BY <1>1, <1>4, Numbers DEF Offsets
    <2>2. q \in SequentialState /\ <<k.taken, 0>> \in Ppns
      BY <2>1 DEF SequentialState, Ppns
    <2>3. q.address = k.taken /\ q.offset = 1 /\ q.lba = l
      OBVIOUS
    <2>. HIDE DEF q
    <2>4. t \in Tables /\ t.seq = q /\ t.target = <<k.taken, 0>> /\ t.taken = k.taken
          /\ t.ring = k.ring /\ t.log_page_next = k.log_page_next /\ t.data_list = k.data_list
          /\ t.abort = k.abort /\ t.bm = k.bm /\ t.flash = k.flash
      BY <1>1, <1>2, <1>4, <2>1, <2>2, <2>3, ZenonT(30) DEF Tables, Records
    <2>. QED
      BY <1>1, <1>4, <2>1, <2>2, <2>3, <2>4 DEF SameTables, Alive, k
  <1>. QED
    BY <1>3, <1>4

\* The next page of the SW log block.
LEMMA AppendSequentialType ==
  ASSUME NEW s \in Tables, Alive(s), s.seq.address \in Blocks, s.seq.offset # BLOCK_SIZE,
         NEW t, t = AppendSequential(s)
  PROVE  /\ t \in Tables
         /\ t.ring = s.ring /\ t.log_page_next = s.log_page_next
         /\ Alive(t) => /\ HasFreePage(s.flash, s.seq.address)
                        /\ t.target = FreePage(s.flash, s.seq.address) /\ t.target \in Ppns
                        /\ t.seq.address = s.seq.address /\ t.seq.lba = s.seq.lba
                        /\ t.seq.offset = s.seq.offset + 1
                        /\ t.bm = s.bm /\ t.flash = s.flash /\ t.data_list = s.data_list
                        /\ t.taken = s.taken
         /\ HasFreePage(s.flash, s.seq.address) => Alive(t)
  <1>. DEFINE b == s.seq.address
              q == [s.seq EXCEPT !.offset = s.seq.offset + 1]
              p == FreePage(s.flash, b)
  <1>1. CASE ~HasFreePage(s.flash, b)
    <2>1. t = Fails(s, "no_free_page")
      BY <1>1 DEF AppendSequential
    <2>. QED
      BY <1>1, <2>1, AbortIn, FailsType DEF SameTables
  <1>2. CASE HasFreePage(s.flash, b)
    <2>1. p \in Ppns
      <3>1. s.flash.pages_valid[b] \in Nat /\ s.flash.pages_valid[b] < BLOCK_SIZE
        BY <1>2, RecordFacts DEF HasFreePage, FlashType
      <3>. QED
        BY <3>1, Numbers DEF FreePage, Ppns, Offsets
    <2>2. q \in SequentialState /\ q.address = b /\ q.lba = s.seq.lba
          /\ q.offset = s.seq.offset + 1
      <3>1. s.seq \in SequentialState /\ s.seq.offset \in 0 .. BLOCK_SIZE /\ BLOCK_SIZE \in Nat
        BY Numbers, RecordFacts
      <3>2. s.seq.offset + 1 \in 0 .. BLOCK_SIZE
        BY <3>1
      <3>. QED
        BY <3>1, <3>2 DEF SequentialState
    <2>3. t = [s EXCEPT !.seq = q, !.target = p]
      BY <1>2 DEF AppendSequential
    <2>. HIDE DEF q, p
    <2>4. t \in Tables /\ t.seq = q /\ t.target = p /\ t.taken = s.taken
          /\ t.ring = s.ring /\ t.log_page_next = s.log_page_next /\ t.data_list = s.data_list
          /\ t.abort = s.abort /\ t.bm = s.bm /\ t.flash = s.flash
      BY <2>1, <2>2, <2>3 DEF Tables, Records
    <2>. QED
      BY <1>2, <2>1, <2>2, <2>4 DEF Alive, p
  <1>. QED
    BY <1>1, <1>2

\* write_to_log_block.
LEMMA WriteToLogType ==
  ASSUME NEW s \in Tables, Alive(s), RingFull(s), NEW lpn \in Lpns,
         NEW t, t = write_to_log_block(s, lpn)
  PROVE  Proceeds(s, t) /\ (Alive(t) => t.target \in Ppns)
  <1>. DEFINE l == lba(lpn)
              i == off(lpn)
  <1>1. l \in Lbas /\ i \in Offsets
    BY LpnFacts
  <1>. HIDE DEF l, i
  <1>2. ASSUME NEW u \in Tables, Merges(s, u), t = StartSequential(u, l)
        PROVE  Proceeds(s, t) /\ (Alive(t) => t.target \in Ppns)
    <2>1. /\ t \in Tables /\ t.ring = u.ring /\ t.log_page_next = u.log_page_next
          /\ Alive(t) => Alive(u) /\ t.target \in Ppns
      BY <1>1, <1>2, StartSequentialType
    <2>2. Proceeds(s, u)
      BY <1>2, MergesProceed
    <2>. QED
      BY <2>1, <2>2 DEF Proceeds, RingFull
  <1>3. CASE i = 0
    <2>. DEFINE u == IF s.seq.offset = BLOCK_SIZE THEN switch_sequential(s)
                                                  ELSE merge_sequential(s)
    <2>1. t = StartSequential(u, l)
      BY <1>3 DEF write_to_log_block, i, l
    <2>2. Merges(s, u)
      BY SwitchType, MergeSequentialType
    <2>3. u \in Tables
      BY <2>2 DEF Merges
    <2>. HIDE DEF u
    <2>. QED
      BY <1>2, <2>1, <2>2, <2>3
  <1>4. CASE i # 0 /\ s.seq.lba = l /\ i = s.seq.offset
    <2>1. t = AppendSequential(s)
      BY <1>4 DEF write_to_log_block, i, l
    <2>2. s.seq.address \in Blocks /\ s.seq.offset # BLOCK_SIZE
      <3>1. s.seq.lba # NoLba
        BY <1>1, <1>4, Numbers
      <3>. QED
        BY <1>1, <1>4, <3>1, RecordFacts, Numbers DEF Offsets
    <2>3. /\ t \in Tables /\ t.ring = s.ring /\ t.log_page_next = s.log_page_next
          /\ Alive(t) => t.target \in Ppns
      BY <2>1, <2>2, AppendSequentialType
    <2>. QED
      BY <2>3 DEF Proceeds, RingFull
  <1>5. CASE i # 0 /\ s.seq.lba = l /\ i # s.seq.offset
    <2>. DEFINE u == merge_sequential(s)
    <2>1. t = StartSequential(u, l)
      BY <1>5 DEF write_to_log_block, i, l
    <2>2. Merges(s, u)
      BY MergeSequentialType
    <2>3. u \in Tables
      BY <2>2 DEF Merges
    <2>. HIDE DEF u
    <2>. QED
      BY <1>2, <2>1, <2>2, <2>3
  <1>6. CASE i # 0 /\ s.seq.lba # l
    <2>. DEFINE u == IF LogFull(s) THEN RecycleOldest(s) ELSE s
    <2>1. t = AppendRandom(u, lpn)
      BY <1>6 DEF write_to_log_block, i, l
    <2>2. u \in Tables /\ (Alive(u) => RingFull(u) /\ ~LogFull(u))
      BY RecycleEffect
    <2>. HIDE DEF u
    <2>3. CASE ~Alive(u)
      <3>1. t = u
        BY <2>1, <2>3 DEF AppendRandom
      <3>. QED
        BY <2>2, <2>3, <3>1 DEF Proceeds
    <2>4. CASE Alive(u)
      <3>1. t \in Tables /\ RingFull(t) /\ t.target \in Ppns
        BY <2>1, <2>2, <2>4, AppendRandomEffect
      <3>. QED
        BY <3>1 DEF Proceeds
    <2>. QED
      BY <2>3, <2>4
  <1>. QED
    BY <1>3, <1>4, <1>5, <1>6

\* The choice of the page of a write.
LEMMA PlacedType ==
  ASSUME NEW s \in Tables, Alive(s) => RingFull(s), NEW lpn \in Lpns, NEW t, t = Placed(s, lpn)
  PROVE  Proceeds(s, t) /\ (Alive(t) => t.target \in Ppns)
  <1>. DEFINE l == lba(lpn)
              i == off(lpn)
              k == TakeBlock(s, "DATA")
              r == [k EXCEPT !.data_list = [k.data_list EXCEPT ![l] = k.taken]]
  <1>1. l \in Lbas /\ i \in Offsets
    BY LpnFacts
  <1>. HIDE DEF l, i
  <1>2. CASE ~Alive(s)
    <2>1. t = s
      BY <1>2 DEF Placed
    <2>. QED
      BY <1>2, <2>1 DEF Proceeds
  <1>3. CASE Alive(s) /\ ~HasData(s, l)
    <2>1. /\ k \in Tables /\ SameTables(s, k)
          /\ Alive(k) => Alive(s) /\ k.taken \in Blocks
      <3>1. "DATA" \in BlockTypes
        BY DEF BlockTypes
      <3>. QED
        BY <3>1, TakeType
    <2>2. t = IF Alive(k) THEN [k EXCEPT !.data_list = [k.data_list EXCEPT ![l] = k.taken],
                                         !.target = <<k.taken, i>>]
                          ELSE k
      BY <1>3 DEF Placed, l, i
    <2>. HIDE DEF k
    <2>3. CASE ~Alive(k)
      BY <1>3, <2>1, <2>2, <2>3 DEF Proceeds
    <2>4. CASE Alive(k)
      <3>1. /\ r \in Tables /\ r.ring = k.ring /\ r.log_page_next = k.log_page_next
        BY <1>1, <2>1, <2>4, RemapType
      <3>2. <<k.taken, i>> \in Ppns
        BY <1>1, <2>1, <2>4 DEF Ppns
      <3>3. t = [r EXCEPT !.target = <<k.taken, i>>]
        BY <2>1, <2>2, <2>4 DEF Tables, Records
      <3>4. t \in Tables /\ t.ring = s.ring /\ t.log_page_next = s.log_page_next
            /\ t.target \in Ppns
        <4>. HIDE DEF r
        <4>. QED
          BY <2>1, <3>1, <3>2, <3>3 DEF Tables, Records, SameTables
      <3>. QED
        BY <1>3, <3>4 DEF Proceeds, RingFull
    <2>. QED
      BY <2>3, <2>4
  <1>4. CASE Alive(s) /\ HasData(s, l) /\ s.flash.page[DataPageAt(s, l, i)] = "EMPTY"
    <2>. DEFINE p == DataPageAt(s, l, i)
    <2>1. t = [s EXCEPT !.target = p]
      BY <1>4 DEF Placed, l, i
    <2>2. p \in Ppns
      BY <1>1, DataFacts
    <2>. HIDE DEF p
    <2>3. t \in Tables /\ t.ring = s.ring /\ t.log_page_next = s.log_page_next /\ t.target = p
      BY <2>1, <2>2 DEF Tables, Records
    <2>. QED
      BY <1>4, <2>2, <2>3 DEF Proceeds, RingFull
  <1>5. CASE Alive(s) /\ HasData(s, l) /\ s.flash.page[DataPageAt(s, l, i)] # "EMPTY"
    <2>1. t = write_to_log_block(s, lpn)
      BY <1>5 DEF Placed, l, i
    <2>. QED
      BY <1>5, <2>1, WriteToLogType
  <1>. QED
    BY <1>2, <1>3, <1>4, <1>5

\* A page is invalidated, and its block erased with the last one.
LEMMA InvalidatedType ==
  ASSUME NEW s \in Tables, NEW p \in Ppns, NEW t, t = Invalidated(s, p)
  PROVE  t \in Tables /\ SameTables(s, t) /\ (Alive(t) => Alive(s))
  <1>. DEFINE u == InvalidatePage(s, p)
  <1>1. u \in Tables /\ SameTables(s, u) /\ u.abort = s.abort
    BY InvalidatePageType
  <1>2. p[1] \in Blocks /\ "LOG" \in BlockTypes
    BY DEF Ppns, BlockTypes
  <1>3. t = IF Inactive(u.flash, p[1]) THEN EraseBlock(u, p[1], "LOG") ELSE u
    BY DEF Invalidated
  <1>. HIDE DEF u
  <1>4. CASE Inactive(u.flash, p[1])
    <2>1. t = EraseBlock(u, p[1], "LOG")
      BY <1>3, <1>4
    <2>2. t \in Tables /\ SameTables(u, t) /\ (Alive(t) => Alive(u))
      BY <1>1, <1>2, <2>1, EraseBlockType
    <2>. QED
      BY <1>1, <2>2 DEF SameTables, Alive
  <1>5. CASE ~Inactive(u.flash, p[1])
    BY <1>1, <1>3, <1>5 DEF Alive
  <1>. QED
    BY <1>4, <1>5

\* A trim.
LEMMA TrimmedType ==
  ASSUME NEW s \in Tables, Alive(s) => RingFull(s), NEW lpn \in Lpns, NEW t, t = Trimmed(s, lpn)
  PROVE  Proceeds(s, t)
  <1>. DEFINE l == lba(lpn)
              i == off(lpn)
              E == LogEntries(s, lpn)
              e == Oldest(E)
  <1>1. l \in Lbas /\ i \in Offsets
    BY LpnFacts
  <1>2. ASSUME NEW u \in Tables, NEW c, u.ring = s.ring, u.log_page_next = s.log_page_next,
               Alive(u) => Alive(s), RingKept(u, c), c \in Tables, c.abort = u.abort
        PROVE  /\ Proceeds(s, c)
               /\ Proceeds(s, Unmapped(c, l))
    <2>1. RingKept(s, c)
      BY <1>2 DEF RingKept
    <2>2. Alive(c) => Alive(s) /\ RingFull(c)
      BY <1>2, <2>1, RingFullKept DEF Alive
    <2>3. Proceeds(s, c)
      BY <1>2, <2>2 DEF Proceeds
    <2>. DEFINE v == Unmapped(c, l)
    <2>4. v = [c EXCEPT !.data_list = [c.data_list EXCEPT ![l] = NoBlock]]
      BY DEF Unmapped
    <2>5. v \in Tables /\ v.ring = c.ring /\ v.log_page_next = c.log_page_next /\ v.abort = c.abort
      <3>. HIDE DEF v, l
      <3>. QED
        BY <1>1, <1>2, <2>4, RemapType
    <2>6. Proceeds(s, v)
      <3>. HIDE DEF v
      <3>. QED
        BY <2>2, <2>5 DEF Proceeds, RingFull, Alive
    <2>. QED
      BY <2>3, <2>6
  <1>. HIDE DEF l, i
  <1>3. CASE ~Alive(s)
    <2>1. t = s
      BY <1>3 DEF Trimmed
    <2>. QED
      BY <1>3, <2>1 DEF Proceeds
  <1>4. CASE Alive(s) /\ E # {}
    <2>. DEFINE p == LogPage(s, e)
                u == Invalidated(s, p)
                c == ClearEntries(u, {e})
    <2>1. t = IF Emptied(s, p) THEN Unmapped(c, l) ELSE c
      BY <1>4 DEF Trimmed, TrimLog, l
    <2>2. p \in Ppns
      BY <1>4, EntryFacts
    <2>. HIDE DEF p, e
    <2>3. u \in Tables /\ SameTables(s, u) /\ (Alive(u) => Alive(s))
      BY <2>2, InvalidatedType
    <2>. HIDE DEF u
    <2>4. c \in Tables /\ RingKept(u, c) /\ c.abort = u.abort
      BY <2>3, ClearType
    <2>. HIDE DEF c
    <2>. QED
      BY <1>2, <2>1, <2>3, <2>4 DEF SameTables
  <1>5. CASE Alive(s) /\ E = {} /\ InSequential(s, l, i)
    <2>. DEFINE p == SequentialPage(s, i)
                u == Invalidated(s, p)
                q == [u.seq EXCEPT !.lba = NoLba]
    <2>1. t = IF Emptied(s, p) THEN [u EXCEPT !.seq = q] ELSE u
      BY <1>5 DEF Trimmed, TrimSequential, l, i
    <2>2. p \in Ppns
      <3>1. s.seq.lba # NoLba
        BY <1>1, <1>5, Numbers DEF InSequential
      <3>. QED
        BY <1>1, <3>1, RecordFacts DEF SequentialPage, Ppns
    <2>. HIDE DEF p
    <2>3. u \in Tables /\ SameTables(s, u) /\ (Alive(u) => Alive(s))
      BY <2>2, InvalidatedType
    <2>. HIDE DEF u
    <2>4. q \in SequentialState /\ q.lba = NoLba
      BY <2>3, RecordFacts DEF SequentialState
    <2>. HIDE DEF q
    <2>5. t \in Tables /\ t.ring = u.ring /\ t.log_page_next = u.log_page_next /\ t.abort = u.abort
      BY <2>1, <2>3, <2>4, SMTT(30) DEF Tables, Records
    <2>. QED
      BY <1>4, <1>5, <2>3, <2>5 DEF Proceeds, RingFull, SameTables, Alive
  <1>6. CASE Alive(s) /\ E = {} /\ ~InSequential(s, l, i) /\ HasData(s, l)
    <2>. DEFINE p == DataPageAt(s, l, i)
                u == Invalidated(s, p)
    <2>1. t = IF Emptied(s, p) THEN Unmapped(u, l) ELSE u
      BY <1>6 DEF Trimmed, TrimData, l, i
    <2>2. p \in Ppns
      BY <1>1, DataFacts
    <2>. HIDE DEF p
    <2>3. u \in Tables /\ SameTables(s, u) /\ (Alive(u) => Alive(s))
      BY <2>2, InvalidatedType
    <2>. HIDE DEF u
    <2>4. RingKept(u, u)
      BY DEF RingKept
    <2>. QED
      BY <1>2, <2>1, <2>3, <2>4 DEF SameTables
  <1>7. CASE Alive(s) /\ E = {} /\ ~InSequential(s, l, i) /\ ~HasData(s, l)
    <2>1. t = s
      BY <1>7 DEF Trimmed, l, i
    <2>. QED
      BY <1>7, <2>1 DEF Proceeds
  <1>. QED
    BY <1>3, <1>4, <1>5, <1>6, <1>7

---------------------------------------------------------------------------
(* What every step keeps.                                                  *)

TypeInv ==
  /\ TypeOK
  /\ sequential_logicalblock_address # NoLba => sequential_address \in Blocks
  /\ RingOrdered(Now)

\* The variables as a record.
LEMMA NowType ==
  ASSUME TypeInv
  PROVE  Now \in Tables /\ RingOrdered(Now)
  <1>1. Now.seq \in SequentialState
    BY DEF TypeInv, TypeOK, Now, SequentialState
  <1>2. Now \in Records
    BY <1>1 DEF TypeInv, TypeOK, Now, Records, LogPagesMax
  <1>. QED
    BY <1>2 DEF TypeInv, Now, Tables

\* The end of a handler.
LEMMA BecomesType ==
  ASSUME TypeInv, NEW s \in Tables, Alive(s) => RingOrdered(s), Becomes(s),
         stored' \in [Lpns -> Contents], rewritten' \subseteq Lpns, trimmed' \in BOOLEAN
  PROVE  TypeInv'
  <1>1. abort' = s.abort /\ s.abort \in Aborts
    BY RecordFacts DEF Becomes
  <1>2. CASE ~Alive(s)
    <2>1. UNCHANGED <<flash, bm, tables>>
      BY <1>2 DEF Becomes
    <2>2. /\ UNCHANGED <<flash, bm, data_list, log_pages, log_page_next, sequential_address,
                         sequential_offset, sequential_logicalblock_address>>
      BY <2>1 DEF tables
    <2>. QED
      BY <1>1, <2>2 DEF TypeInv, TypeOK, RingOrdered, RingFull, Now
  <1>3. CASE Alive(s)
    <2>1. /\ flash' = s.flash /\ bm' = s.bm /\ data_list' = s.data_list
          /\ log_pages' = s.ring /\ log_page_next' = s.log_page_next
          /\ sequential_address' = s.seq.address
          /\ sequential_offset' = s.seq.offset
          /\ sequential_logicalblock_address' = s.seq.lba
      BY <1>3 DEF Becomes
    <2>2. TypeOK'
      BY <1>1, <2>1, RecordFacts DEF TypeOK, LogPagesMax
    <2>3. RingOrdered(Now)'
      BY <1>3, <2>1 DEF RingOrdered, RingFull, Now
    <2>. QED
      BY <2>1, <2>2, <2>3, RecordFacts DEF TypeInv
  <1>. QED
    BY <1>2, <1>3

\* A full list is in order.
LEMMA RingFullOrdered ==
  ASSUME NEW s \in Tables, RingFull(s)
  PROVE  RingOrdered(s)
  <1>1. s.ring # << >>
    BY Numbers DEF RingFull
  <1>. QED
    BY <1>1 DEF RingOrdered

LEMMA WriteType ==
  ASSUME TypeInv, NEW lpn \in Lpns, NEW d \in Payloads, write(lpn, d)
  PROVE  TypeInv'
  <1>. DEFINE s0 == Now
              s1 == Initialized(s0)
              s2 == Placed(s1, lpn)
              s3 == EraseInvalidBlocks(s2)
              s4 == WritePage(s3, s3.target, d, NoPpn)
  <1>1. s1 \in Tables /\ (Alive(s1) => RingFull(s1))
    BY NowType, InitializedType
  <1>. HIDE DEF s1
  <1>2. Proceeds(s1, s2) /\ (Alive(s2) => s2.target \in Ppns)
    BY <1>1, PlacedType
  <1>. HIDE DEF s2
  <1>3. /\ s3 \in Tables /\ SameTables(s2, s3) /\ s3.target = s2.target
        /\ Alive(s3) => Alive(s2)
    BY <1>2, EraseInvalidType DEF Proceeds
  <1>. HIDE DEF s3
  <1>4. /\ s4 \in Tables /\ (Alive(s4) => RingOrdered(s4))
    <2>1. CASE Alive(s3)
      <3>1. s3.target \in Ppns /\ d \in Contents
        BY <1>2, <1>3, <2>1 DEF Contents
      <3>2. s4 \in Tables /\ SameTables(s3, s4)
        BY <1>3, <3>1, WritePageType
      <3>3. RingFull(s4)
        BY <1>2, <1>3, <2>1, <3>2 DEF Proceeds, SameTables, RingFull
      <3>. HIDE DEF s4
      <3>. QED
        BY <3>2, <3>3, RingFullOrdered
    <2>2. CASE ~Alive(s3)
      <3>1. s4 = s3
        BY <2>2 DEF WritePage
      <3>. QED
        BY <1>3, <2>2, <3>1
    <2>. QED
      BY <2>1, <2>2
  <1>5. Becomes(s4)
    BY DEF write, s3, s2, s1
  <1>6. stored \in [Lpns -> Contents] /\ rewritten \subseteq Lpns /\ trimmed \in BOOLEAN
    BY DEF TypeInv, TypeOK
  <1>7. stored' \in [Lpns -> Contents] /\ rewritten' \subseteq Lpns /\ trimmed' \in BOOLEAN
    BY <1>6 DEF write, Contents
  <1>. HIDE DEF s4
  <1>. QED
    BY <1>4, <1>5, <1>7, BecomesType

LEMMA TrimType ==
  ASSUME TypeInv, NEW lpn \in Lpns, trim(lpn)
  PROVE  TypeInv'
  <1>. DEFINE s0 == Now
              s1 == Initialized(s0)
              s2 == Trimmed(s1, lpn)
              s3 == EraseInvalidBlocks(s2)
  <1>1. s1 \in Tables /\ (Alive(s1) => RingFull(s1))
    BY NowType, InitializedType
  <1>. HIDE DEF s1
  <1>2. Proceeds(s1, s2)
    BY <1>1, TrimmedType
  <1>. HIDE DEF s2
  <1>3. /\ s3 \in Tables /\ SameTables(s2, s3)
        /\ Alive(s3) => Alive(s2)
    BY <1>2, EraseInvalidType DEF Proceeds
  <1>4. Becomes(s3)
    BY DEF trim, s2, s1
  <1>. HIDE DEF s3
  <1>5. Alive(s3) => RingFull(s3)
    BY <1>2, <1>3 DEF Proceeds, SameTables, RingFull
  <1>6. Alive(s3) => RingOrdered(s3)
    BY <1>3, <1>5, RingFullOrdered
  <1>7. stored \in [Lpns -> Contents] /\ rewritten \subseteq Lpns
    BY DEF TypeInv, TypeOK
  <1>8. stored' \in [Lpns -> Contents] /\ rewritten' \subseteq Lpns /\ trimmed' \in BOOLEAN
    BY <1>7 DEF trim, Contents
  <1>. QED
    BY <1>3, <1>4, <1>6, <1>8, BecomesType

LEMMA ReadType ==
  ASSUME TypeInv, read
  PROVE  TypeInv'
  <1>. DEFINE s == Initialized(Now)
  <1>1. s \in Tables /\ (Alive(s) => RingFull(s))
    BY NowType, InitializedType
  <1>2. Becomes(s)
    BY DEF read
  <1>. HIDE DEF s
  <1>3. Alive(s) => RingOrdered(s)
    BY <1>1, RingFullOrdered
  <1>4. stored' \in [Lpns -> Contents] /\ rewritten' \subseteq Lpns /\ trimmed' \in BOOLEAN
    BY DEF TypeInv, TypeOK, read
  <1>. QED
    BY <1>1, <1>2, <1>3, <1>4, BecomesType

LEMMA InitTypes ==
  ASSUME Init
  PROVE  TypeInv
  <1>1. FlashInit \in FlashType
    BY GeometryAssumption DEF FlashInit, FlashType, PageStates, Contents
  <1>2. BlockManagerInit \in BlockManagerType
    <2>1. 0 \in 0 .. NUMBER_OF_ADDRESSABLE_BLOCKS
      BY GeometryAssumption
    <2>2. << >> \in Seq(Blocks) /\ 0 \in Int
      OBVIOUS
    <2>. QED
      BY <2>1, <2>2 DEF BlockManagerInit, BlockManagerType
  <1>3. << >> \in Seq(LogPageBlock)
    OBVIOUS
  <1>4. 0 \in 0 .. FAST_LOG_BLOCK_LIMIT * BLOCK_SIZE /\ 0 \in 0 .. BLOCK_SIZE
    BY Numbers DEF LogPagesMax
  <1>5. TypeOK
    BY <1>1, <1>2, <1>3, <1>4 DEF Init, TypeOK, Aborts, Contents
  <1>6. RingOrdered(Now)
    BY DEF Init, RingOrdered, Now
  <1>. QED
    BY <1>5, <1>6 DEF Init, TypeInv

\* The tables keep their types and their shape through every request, trims and
\* failures included.
THEOREM TypeInvariance == Spec => []TypeInv
  <1>1. Init => TypeInv
    BY InitTypes
  <1>2. TypeInv /\ [Next]_vars => TypeInv'
    <2>. SUFFICES ASSUME TypeInv, [Next]_vars PROVE TypeInv'
      OBVIOUS
    <2>1. CASE read
      BY <2>1, ReadType
    <2>2. ASSUME NEW lpn \in Lpns, NEW d \in Payloads, write(lpn, d)
          PROVE  TypeInv'
      BY <2>2, WriteType
    <2>3. ASSUME NEW lpn \in Lpns, trim(lpn)
          PROVE  TypeInv'
      BY <2>3, TrimType
    <2>4. CASE UNCHANGED vars
      BY <2>4 DEF vars, tables, TypeInv, TypeOK, RingOrdered, RingFull, Now
    <2>. QED
      BY <2>1, <2>2, <2>3, <2>4 DEF Next
  <1>. QED
    BY <1>1, <1>2, PTL DEF Spec

\* Every variable keeps to its type: page, block and offset numbers stay in
\* range whatever merges, reuses and trims do.
THEOREM TypeCorrect == Spec => []TypeOK
  <1>1. TypeInv => TypeOK
    BY DEF TypeInv
  <1>. QED
    BY <1>1, TypeInvariance, PTL

\* The log blocks fill in list order and log_page_next counts their pages,
\* whatever is merged, reused or trimmed: the walk to the first block with room
\* never leaves the list.
THEOREM LogInOrder == Spec => []LogFillsInOrder
  <1>1. TypeInv => LogFillsInOrder
    <2>. SUFFICES ASSUME TypeInv, log_pages # << >> PROVE LogFillsInOrder
      BY DEF LogFillsInOrder
    <2>1. /\ Len(log_pages) = FAST_LOG_BLOCK_LIMIT
          /\ \A n \in 1 .. FAST_LOG_BLOCK_LIMIT :
               log_pages[n].numPages = FillCount(log_page_next, n)
      BY DEF TypeInv, RingOrdered, RingFull, Now
    <2>2. DOMAIN log_pages = 1 .. FAST_LOG_BLOCK_LIMIT
      BY <2>1 DEF TypeInv, TypeOK
    <2>. QED
      BY <2>1, <2>2 DEF LogFillsInOrder, FillCount
  <1>. QED
    BY <1>1, TypeInvariance, PTL

---------------------------------------------------------------------------
(* What the handlers keep until the first trim.                            *)

\* The blocks get_free_block can hand out, those that await an erase, and those
\* in use for a logical block or as a log block.
Available(s) == Members(s.bm.free_list) \cup {b \in Blocks : b >= s.bm.fresh}
Waiting(s) == Members(s.bm.invalid_list)
Idle(s) == Available(s) \cup Waiting(s)
Mapped(s) == {l \in Lbas : HasData(s, l)}
DataSet(s) == {s.data_list[l] : l \in Mapped(s)}
LogSet(s) == {s.ring[n].address : n \in 1 .. Len(s.ring)}

\* Each block has one owner.  Q holds the blocks in use that no table names as
\* a data or a log block: the SW log block and the target of a merge.
Owned(s, Q) ==
  /\ Q \in SUBSET Blocks
  /\ \A l, m \in Mapped(s) : s.data_list[l] = s.data_list[m] => l = m
  /\ \A n, k \in 1 .. Len(s.ring) : s.ring[n].address = s.ring[k].address => n = k
  /\ DataSet(s) \cap LogSet(s) = {}
  /\ DataSet(s) \cap Q = {}
  /\ LogSet(s) \cap Q = {}
  /\ Idle(s) \cap DataSet(s) = {}
  /\ Idle(s) \cap LogSet(s) = {}
  /\ Idle(s) \cap Q = {}
  /\ Blocks \subseteq Idle(s) \cup DataSet(s) \cup LogSet(s) \cup Q

\* The counters count the owners.
Counted(s, Q) ==
  /\ s.bm.data_active = Cardinality(Mapped(s)) + Cardinality(Q)
  /\ s.bm.log_active = Len(s.ring)
  /\ Len(s.ring) <= FAST_LOG_BLOCK_LIMIT

\* Without a trim no page is INVALID.
Clean(f) == \A p \in Ppns : f.page[p] # "INVALID"

\* A log block has EMPTY pages from its number of used pages on, and the page
\* promised to the event.
RingPages(s) ==
  \A n \in 1 .. Len(s.ring), i \in Offsets :
    s.flash.page[<<s.ring[n].address, i>>] = "EMPTY"
      <=> i >= s.ring[n].numPages \/ <<s.ring[n].address, i>> = s.target

\* Only pages of logical blocks with a data block are in the log.
EntriesMapped(s) ==
  \A n \in 1 .. Len(s.ring), i \in Offsets :
    i < s.ring[n].numPages /\ s.ring[n].aPages[i] # NoLpn
      => HasData(s, lba(s.ring[n].aPages[i]))

\* The page promised to the event can be written.
TargetFree(s) ==
  s.target # NoPpn => /\ s.flash.page[s.target] = "EMPTY"
                      /\ s.target[1] \notin Idle(s)

Shape(s, Q) ==
  /\ s \in Tables
  /\ Alive(s)
  /\ ListsSound(s.bm)
  /\ Clean(s.flash)
  /\ Owned(s, Q)
  /\ \A b \in Available(s) : Erased(s.flash, b)
  /\ RingPages(s)
  /\ EntriesMapped(s)
  /\ TargetFree(s)

Core(s, Q) == Shape(s, Q) /\ Counted(s, Q)

\* The SW log block is filled in order up to its offset.
SeqSound(s, Q) ==
  IF s.seq.lba = NoLba
    THEN s.seq.address = NoBlock /\ s.seq.offset = 0
    ELSE /\ s.seq.address \in Q
         /\ s.seq.offset >= 1
         /\ \A i \in Offsets :
              s.flash.page[<<s.seq.address, i>>] = "EMPTY"
                <=> i >= s.seq.offset \/ <<s.seq.address, i>> = s.target
         /\ s.flash.pages_valid[s.seq.address]
              + (IF s.target # NoPpn /\ s.target[1] = s.seq.address THEN 1 ELSE 0)
              = s.seq.offset

\* The blocks that await an erase, and those of D, which may be given back
\* before the handler ends, were not erased since its beginning, when e was left
\* of each block's erases.
Wear(s, D, e) ==
  /\ D \in SUBSET Blocks
  /\ D \cap Idle(s) = {}
  /\ \A b \in Waiting(s) \cup D : s.flash.erases_remaining[b] = e[b]

\* A logical page no part of the log has a copy of, ...
Quiet(s, lpn) == LogEntries(s, lpn) = {} /\ ~InSequential(s, lba(lpn), off(lpn))

\* ... whether the data block has one, and whether that is d, or NoData for none.
HomePage(s, lpn) == <<s.data_list[lba(lpn)], off(lpn)>>
AtHome(s, lpn) == HasData(s, lba(lpn)) /\ Valid(s, HomePage(s, lpn))
Shows(s, lpn, d) ==
  IF d = NoData THEN ~AtHome(s, lpn)
  ELSE AtHome(s, lpn) /\ s.flash.data[HomePage(s, lpn)] = d

\* A page written at most once is in its data block or nowhere.
ColdInv ==
  \A lpn \in Lpns : lpn \notin rewritten => Quiet(Now, lpn) /\ Shows(Now, lpn, stored[lpn])

LiveInv == /\ Core(Now, SequentialBlocks)
           /\ SeqSound(Now, SequentialBlocks)
           /\ ColdInv

IInv ==
  /\ TypeInv
  /\ UntilTrim => LiveInv
  /\ OnlyWearEndsIt

---------------------------------------------------------------------------
(* Counting owners.                                                        *)

\* Sets of logical blocks, ...
LEMMA LbaCount ==
  ASSUME NEW S \in SUBSET Lbas, NEW l
  PROVE  /\ IsFiniteSet(S)
         /\ Cardinality(S) \in Nat /\ Cardinality(S) <= NumLbas
         /\ Cardinality(S \cup {l}) = IF l \in S THEN Cardinality(S) ELSE Cardinality(S) + 1
         /\ Cardinality(S \ {l}) = IF l \in S THEN Cardinality(S) - 1 ELSE Cardinality(S)
  <1>1. IsFiniteSet(Lbas) /\ Cardinality(Lbas) = NumLbas
    <2>1. 0 \in Int /\ NumLbas - 1 \in Int /\ NumLbas \in Nat \ {0}
      BY Numbers
    <2>2. /\ IsFiniteSet(0 .. NumLbas - 1)
          /\ Cardinality(0 .. NumLbas - 1)
               = IF 0 > NumLbas - 1 THEN 0 ELSE (NumLbas - 1) - 0 + 1
      BY <2>1, FS_Interval
    <2>. QED
      BY <2>1, <2>2 DEF Lbas
  <1>2. IsFiniteSet(S) /\ Cardinality(S) <= NumLbas
    BY <1>1, FS_Subset
  <1>3. Cardinality(S) \in Nat
    BY <1>2, FS_CardinalityType
  <1>4. Cardinality(S \cup {l}) = IF l \in S THEN Cardinality(S) ELSE Cardinality(S) + 1
    BY <1>2, FS_AddElement
  <1>5. Cardinality(S \ {l}) = IF l \in S THEN Cardinality(S) - 1 ELSE Cardinality(S)
    BY <1>2, FS_RemoveElement
  <1>. QED
    BY <1>2, <1>3, <1>4, <1>5

\* ... and of blocks, are finite and counted one by one.
LEMMA BlockCount ==
  ASSUME NEW S \in SUBSET Blocks, NEW b
  PROVE  /\ IsFiniteSet(S)
         /\ Cardinality(S) \in Nat
         /\ Cardinality(S \cup {b}) = IF b \in S THEN Cardinality(S) ELSE Cardinality(S) + 1
         /\ Cardinality(S \ {b}) = IF b \in S THEN Cardinality(S) - 1 ELSE Cardinality(S)
  <1>1. IsFiniteSet(S)
    BY BlocksFinite, FS_Subset
  <1>2. Cardinality(S) \in Nat
    BY <1>1, FS_CardinalityType
  <1>3. Cardinality(S \cup {b}) = IF b \in S THEN Cardinality(S) ELSE Cardinality(S) + 1
    BY <1>1, FS_AddElement
  <1>4. Cardinality(S \ {b}) = IF b \in S THEN Cardinality(S) - 1 ELSE Cardinality(S)
    BY <1>1, FS_RemoveElement
  <1>. QED
    BY <1>1, <1>2, <1>3, <1>4

\* There are as many data blocks as logical blocks that have one, and as many
\* log blocks as members of the list.
LEMMA OwnerCounts ==
  ASSUME NEW s \in Tables, NEW Q, Owned(s, Q)
  PROVE  /\ Cardinality(Mapped(s)) \in Nat /\ Cardinality(Mapped(s)) <= NumLbas
         /\ Cardinality(Q) \in Nat /\ Len(s.ring) \in Nat
         /\ DataSet(s) \subseteq Blocks /\ LogSet(s) \subseteq Blocks
         /\ Cardinality(DataSet(s)) = Cardinality(Mapped(s))
         /\ Cardinality(LogSet(s)) = Len(s.ring)
         /\ Cardinality(DataSet(s) \cup LogSet(s) \cup Q)
              = Cardinality(Mapped(s)) + Len(s.ring) + Cardinality(Q)
  <1>1. /\ s.data_list \in [Lbas -> Blocks \cup {NoBlock}]
        /\ s.ring \in Seq(LogPageBlock) /\ Len(s.ring) \in Nat
    <2>1. s.data_list \in [Lbas -> Blocks \cup {NoBlock}] /\ s.ring \in Seq(LogPageBlock)
      BY RecordFacts
    <2>. QED
      BY <2>1
  <1>2. /\ Mapped(s) \in SUBSET Lbas
        /\ \A l \in Mapped(s) : s.data_list[l] \in Blocks
    BY <1>1 DEF Mapped, HasData
  <1>3. \A n \in 1 .. Len(s.ring) : s.ring[n].address \in Blocks
    <2>1. \A n \in 1 .. Len(s.ring) : s.ring[n] \in LogPageBlock
      BY <1>1
    <2>. QED
      BY <2>1 DEF LogPageBlock
  <1>4. DataSet(s) \in SUBSET Blocks /\ LogSet(s) \in SUBSET Blocks /\ Q \in SUBSET Blocks
    BY <1>2, <1>3 DEF DataSet, LogSet, Owned
  <1>5. ExistsBijection(Mapped(s), DataSet(s))
    <2>. DEFINE h == [l \in Mapped(s) |-> s.data_list[l]]
    <2>1. h \in Bijection(Mapped(s), DataSet(s))
      BY DEF Owned, DataSet, Bijection, Injection, Surjection, IsInjective
    <2>. QED
      BY <2>1 DEF ExistsBijection
  <1>6. ExistsBijection(1 .. Len(s.ring), LogSet(s))
    <2>. DEFINE h == [n \in 1 .. Len(s.ring) |-> s.ring[n].address]
    <2>1. h \in Bijection(1 .. Len(s.ring), LogSet(s))
      BY DEF Owned, LogSet, Bijection, Injection, Surjection, IsInjective
    <2>. QED
      BY <2>1 DEF ExistsBijection
  <1>7. /\ IsFiniteSet(Mapped(s)) /\ Cardinality(Mapped(s)) \in Nat
        /\ Cardinality(Mapped(s)) <= NumLbas
    BY <1>2, LbaCount
  <1>8. IsFiniteSet(1 .. Len(s.ring)) /\ Cardinality(1 .. Len(s.ring)) = Len(s.ring)
    <2>1. 1 \in Int /\ Len(s.ring) \in Int
      BY <1>1
    <2>. QED
      BY <1>1, <2>1, FS_Interval, SMTT(30)
  <1>9. /\ IsFiniteSet(DataSet(s)) /\ Cardinality(DataSet(s)) = Cardinality(Mapped(s))
        /\ IsFiniteSet(LogSet(s)) /\ Cardinality(LogSet(s)) = Len(s.ring)
    BY <1>5, <1>6, <1>7, <1>8, FS_Bijection
  <1>10. IsFiniteSet(Q) /\ Cardinality(Q) \in Nat
    BY <1>4, BlockCount
  <1>11. /\ IsFiniteSet(DataSet(s) \cup LogSet(s))
         /\ Cardinality(DataSet(s) \cup LogSet(s)) = Cardinality(DataSet(s)) + Cardinality(LogSet(s))
    BY <1>9, DisjointUnion DEF Owned
  <1>12. (DataSet(s) \cup LogSet(s)) \cap Q = {}
    BY DEF Owned
  <1>13. Cardinality((DataSet(s) \cup LogSet(s)) \cup Q)
          = Cardinality(DataSet(s) \cup LogSet(s)) + Cardinality(Q)
    BY <1>10, <1>11, <1>12, DisjointUnion
  <1>. QED
    BY <1>1, <1>4, <1>7, <1>9, <1>10, <1>11, <1>13

---------------------------------------------------------------------------
(* How an operator ends when it fails, and what it leaves when it does not. *)

\* The blocks beyond data and log blocks: the SW log block, the target of a
\* merge and one more, so that the erases, which are due before every block is
\* in use, are in time.
LargeEnough == NUMBER_OF_ADDRESSABLE_BLOCKS >= NumLbas + FAST_LOG_BLOCK_LIMIT + 2

EndsWorn(t, e) ==
  /\ t \in Tables
  /\ \/ t.abort = "erase_failed" /\ \E b \in Blocks : e[b] = 0
     \/ t.abort = "no_free_block" /\ ~LargeEnough

\* Blocks in use stay as they are.
Stays(s, t) ==
  /\ SameTables(s, t)
  /\ t.target = s.target
  /\ \A b \in Blocks : b \notin Idle(s) => SameBlock(s.flash, t.flash, b)

\* The flash after an erase of blocks.
ErasesBlocks(f, g, R) ==
  /\ \A p \in Ppns : /\ g.page[p] = IF p[1] \in R THEN "EMPTY" ELSE f.page[p]
                     /\ g.data[p] = f.data[p]
  /\ \A b \in Blocks : /\ g.pages_valid[b] = IF b \in R THEN 0 ELSE f.pages_valid[b]
                       /\ b \notin R => g.erases_remaining[b] = f.erases_remaining[b]

LEMMA ErasesBlocksOf ==
  ASSUME NEW f \in FlashType, NEW R \in SUBSET Blocks, \A b \in R : CanErase(f, b)
  PROVE  ErasesBlocks(f, Erase(f, R), R)
  BY EraseEffect DEF ErasesBlocks

LEMMA IdleFacts ==
  ASSUME NEW s \in Tables
  PROVE  /\ Available(s) \in SUBSET Blocks /\ Waiting(s) \in SUBSET Blocks
         /\ Idle(s) \in SUBSET Blocks
         /\ ListsSound(s.bm) => Available(s) \cap Waiting(s) = {}
  <1>1. s.bm.free_list \in Seq(Blocks) /\ s.bm.invalid_list \in Seq(Blocks) /\ s.bm.fresh \in Int
    BY RecordFacts DEF BlockManagerType
  <1>2. /\ Members(s.bm.free_list) \subseteq Blocks
        /\ Members(s.bm.invalid_list) \subseteq Blocks
    BY <1>1, ListMembers
  <1>3. \A b \in Blocks : b \in Int
    BY DEF Blocks
  <1>. QED
    BY <1>1, <1>2, <1>3 DEF Available, Waiting, Idle, ListsSound

\* Blocks R that wait are erased and blocks T of the available ones taken.
LEMMA ReclaimKeeps ==
  ASSUME NEW s, NEW Q, Shape(s, Q), NEW t \in Tables, Alive(t), SameTables(s, t),
         t.target = s.target, ListsSound(t.bm),
         NEW R \in SUBSET Waiting(s), ErasesBlocks(s.flash, t.flash, R),
         NEW T \in SUBSET (Available(s) \cup R),
         Available(t) = (Available(s) \cup R) \ T,
         Waiting(t) = Waiting(s) \ R
  PROVE  /\ Shape(t, Q \cup T)
         /\ Stays(s, t)
         /\ \A b \in T : Erased(t.flash, b)
         /\ \A D, e : Wear(s, D, e) => Wear(t, D, e)
  <1>1. /\ s \in Tables /\ Owned(s, Q) /\ Clean(s.flash)
        /\ \A b \in Available(s) : Erased(s.flash, b)
        /\ RingPages(s) /\ EntriesMapped(s) /\ TargetFree(s) /\ ListsSound(s.bm)
    BY DEF Shape
  <1>2. /\ Available(s) \in SUBSET Blocks /\ Waiting(s) \in SUBSET Blocks
        /\ Available(s) \cap Waiting(s) = {}
        /\ Idle(t) = Idle(s) \ T
        /\ T \subseteq Idle(s) /\ R \subseteq Idle(s)
    BY <1>1, IdleFacts DEF Idle
  <1>3. \A b \in Blocks, i \in Offsets : <<b, i>> \in Ppns /\ <<b, i>>[1] = b
    BY DEF Ppns
  <1>4. \A b \in Blocks : b \notin R => SameBlock(s.flash, t.flash, b)
    BY <1>3 DEF ErasesBlocks, SameBlock
  <1>5. \A b \in R : Erased(t.flash, b)
    BY <1>2, <1>3 DEF ErasesBlocks, Erased
  <1>6. \A b \in Available(s) \cup R : Erased(t.flash, b)
    BY <1>1, <1>2, <1>4, <1>5 DEF Erased, SameBlock
  <1>7. /\ DataSet(t) = DataSet(s) /\ LogSet(t) = LogSet(s) /\ Mapped(t) = Mapped(s)
        /\ t.data_list = s.data_list /\ t.ring = s.ring
    BY DEF SameTables, DataSet, LogSet, Mapped, HasData
  <1>8. Owned(t, Q \cup T)
    BY <1>1, <1>2, <1>7 DEF Owned
  <1>9. Clean(t.flash)
    BY <1>1 DEF Clean, ErasesBlocks
  <1>10. \A n \in 1 .. Len(s.ring) : s.ring[n].address \in Blocks /\ s.ring[n].address \notin R
    <2>1. \A n \in 1 .. Len(s.ring) : s.ring[n].address \in LogSet(s)
      BY DEF LogSet
    <2>. QED
      BY <1>1, <1>2, <2>1, OwnerCounts DEF Owned
  <1>11. RingPages(t)
    BY <1>1, <1>4, <1>7, <1>10 DEF RingPages, SameBlock
  <1>12. EntriesMapped(t)
    BY <1>1, <1>7 DEF EntriesMapped, HasData
  <1>13. TargetFree(t)
    <2>1. t.target # NoPpn => t.target \in Ppns
      BY RecordFacts
    <2>. QED
      BY <1>1, <1>2, <2>1 DEF TargetFree, ErasesBlocks
  <1>14. ASSUME NEW D, NEW e, Wear(s, D, e)
         PROVE  Wear(t, D, e)
    <2>1. \A b \in Waiting(t) \cup D : b \notin R
      BY <1>2, <1>14 DEF Wear
    <2>2. \A b \in Waiting(t) \cup D : b \in Waiting(s) \cup D
      OBVIOUS
    <2>3. \A b \in Blocks : b \notin R =>
            t.flash.erases_remaining[b] = s.flash.erases_remaining[b]
      BY DEF ErasesBlocks
    <2>. QED
      BY <1>2, <1>14, <2>1, <2>2, <2>3 DEF Wear
  <1>. QED
    BY <1>2, <1>4, <1>6, <1>8, <1>9, <1>11, <1>12, <1>13, <1>14 DEF Shape, Stays


\* An erase that fails fails on a block nothing was left of at the beginning.
LEMMA EraseFailsWorn ==
  ASSUME NEW s \in Tables, ListsSound(s.bm), NEW D, NEW e, Wear(s, D, e),
         InsertEventsFails(s.bm, s.flash)
  PROVE  \E b \in Blocks : e[b] = 0
  <1>1. PICK b \in ErasedSet(s.bm) : ~CanErase(s.flash, b)
    BY DEF InsertEventsFails
  <1>2. b \in Waiting(s) /\ b \in Blocks
    BY <1>1, InsertEventsEffect, IdleFacts DEF Waiting
  <1>3. s.flash.erases_remaining[b] \in Nat /\ ~(s.flash.erases_remaining[b] >= 1)
    <2>1. s.flash.erases_remaining \in [Blocks -> Nat]
      BY RecordFacts DEF FlashType
    <2>. QED
      BY <1>1, <1>2, <2>1 DEF CanErase
  <1>4. s.flash.erases_remaining[b] = e[b]
    BY <1>2 DEF Wear
  <1>. QED
    BY <1>2, <1>3, <1>4

\* The last block was handed out and none is free: then, as erases are due
\* before every block is in use, none awaits an erase either, and the blocks in
\* use are all there are.
LEMMA RoomLeft ==
  ASSUME NEW s, NEW Q, Core(s, Q), Cardinality(Q) <= 1,
         ~ServiceFails(s.bm, s.flash), OutOfBlocks(s.bm)
  PROVE  ~LargeEnough
  <1>. DEFINE m == s.bm
              N == NUMBER_OF_ADDRESSABLE_BLOCKS
  <1>1. /\ s \in Tables /\ ListsSound(m) /\ Owned(s, Q) /\ Counted(s, Q)
        /\ m \in BlockManagerType /\ s.flash \in FlashType
        /\ m.fresh \in 0 .. N
        /\ m.free_list \in Seq(Blocks) /\ m.invalid_list \in Seq(Blocks)
        /\ m.data_active \in Int /\ m.log_active \in Int
        /\ N \in Nat \ {0}
    BY GeometryAssumption, RecordFacts DEF Core, Shape, ListsSound, BlockManagerType
  <1>2. Members(m.free_list) = {} /\ Reclaimed(m) = {}
    <2>1. Members(Serviced(m).free_list) = Members(m.free_list) \cup Reclaimed(m)
      BY <1>1, ServicedEffect
    <2>2. Serviced(m).free_list = << >>
      BY DEF OutOfBlocks
    <2>3. Members(<< >>) = {}
      BY DEF Members
    <2>. QED
      BY <2>1, <2>2, <2>3
  <1>3. Available(s) = {}
    <2>1. \A b \in Blocks : ~(b >= m.fresh)
      BY <1>1 DEF OutOfBlocks, FreshBlockLeft, Blocks
    <2>. QED
      BY <1>2, <2>1 DEF Available
  <1>4. Len(m.free_list) = 0
    <2>1. Cardinality(Members(m.free_list)) = Len(m.free_list)
      BY <1>1, CountedList DEF ListsSound
    <2>. QED
      BY <1>2, <2>1, FS_EmptySet
  <1>5. /\ Cardinality(Waiting(s)) = Len(m.invalid_list) /\ Len(m.invalid_list) \in Nat
        /\ IsFiniteSet(Waiting(s))
    BY <1>1, CountedList DEF ListsSound, Waiting
  <1>. DEFINE U == DataSet(s) \cup LogSet(s) \cup Q
              d == Cardinality(Mapped(s))
              r == Len(s.ring)
              q == Cardinality(Q)
              w == Len(m.invalid_list)
  <1>6. /\ d \in Nat /\ d <= NumLbas /\ r \in Nat /\ q \in Nat
        /\ U \subseteq Blocks
        /\ Cardinality(U) = d + r + q
    BY <1>1, OwnerCounts DEF Owned
  <1>7. Blocks = Waiting(s) \cup U /\ Waiting(s) \cap U = {}
    <2>1. Waiting(s) \subseteq Blocks /\ Idle(s) = Waiting(s)
      BY <1>1, <1>3, IdleFacts DEF Idle
    <2>. QED
      BY <1>1, <1>6, <2>1 DEF Owned
  <1>8. w + (d + r + q) = N
    <2>1. IsFiniteSet(U)
      BY <1>6, BlocksFinite, FS_Subset
    <2>2. Cardinality(Waiting(s) \cup U) = Cardinality(Waiting(s)) + Cardinality(U)
      BY <1>5, <1>7, <2>1, DisjointUnion
    <2>. QED
      BY <1>5, <1>6, <1>7, <2>2, BlocksFinite
  <1>9. w = 0
    <2>1. RunsLow(m)
      BY <1>1, <1>4 DEF OutOfBlocks, RunsLow, ListsSound
    <2>2. EraseDue(m)
      <3>1. BlocksUsed(m) = N
        <4>1. m.data_active = d + q /\ m.log_active = r
          BY <1>1 DEF Counted
        <4>2. BlocksUsed(m) = w + m.log_active + m.data_active - Len(m.free_list)
          BY DEF BlocksUsed
        <4>3. /\ d \in Int /\ r \in Int /\ q \in Int /\ w \in Int /\ N \in Int
              /\ w + (d + r + q) = N
              /\ BlocksUsed(m) = w + r + (d + q) - 0
          BY <1>1, <1>4, <1>5, <1>6, <1>8, <4>1, <4>2
        <4>. HIDE DEF d, r, q, w, m, N
        <4>. QED
          BY <4>3
      <3>2. GC_PERCENT \in Nat /\ GC_PERCENT < 100
        BY BlockListsAssumption, FastAssumption
      <3>. HIDE DEF N
      <3>3. GC_PERCENT * N < 100 * N
        BY <1>1, <3>2
      <3>. QED
        BY <3>1, <3>3 DEF EraseDue, N
    <2>3. NumErased(m) # 0 \/ w = 0
      BY <1>5, <2>2, FastAssumption DEF NumErased
    <2>4. ASSUME NumErased(m) # 0 PROVE FALSE
      <3>1. NumErased(m) \in Nat /\ NumErased(m) >= 1
        BY <1>1, <1>5, <2>4, ErasedType
      <3>2. ErasedBlocks(m)[1] \in ErasedSet(m)
        BY <3>1 DEF ErasedSet
      <3>. QED
        BY <1>2, <2>1, <3>2 DEF Reclaimed
    <2>. QED
      BY <2>3, <2>4
  <1>10. r <= FAST_LOG_BLOCK_LIMIT
    BY <1>1 DEF Counted
  <1>. HIDE DEF d, r, q, w, N
  <1>11. N < NumLbas + FAST_LOG_BLOCK_LIMIT + 2
    BY <1>1, <1>6, <1>8, <1>9, <1>10, Numbers DEF q
  <1>. QED
    BY <1>1, <1>11, Numbers DEF LargeEnough, N


With(S, x) == S \cup {x}
LogRoom(s) == Len(s.ring) < FAST_LOG_BLOCK_LIMIT

\* get_free_block.  t.bm is left out of the effect but for the counters.
LEMMA TakeBlockEffect ==
  ASSUME NEW s, NEW Q, Core(s, Q), Cardinality(Q) <= 1, NEW D, NEW e, Wear(s, D, e),
         NEW type \in BlockTypes, type = "LOG" => LogRoom(s),
         NEW t, t = TakeBlock(s, type)
  PROVE  \/ EndsWorn(t, e)
         \/ /\ Shape(t, With(Q, t.taken)) /\ Stays(s, t) /\ Wear(t, D, e)
            /\ t.taken \in Blocks /\ t.taken \in Idle(s)
            /\ Erased(t.flash, t.taken)
            /\ t.bm.data_active = s.bm.data_active + IF type = "DATA" THEN 1 ELSE 0
            /\ t.bm.log_active = s.bm.log_active + IF type = "LOG" THEN 1 ELSE 0
  <1>. DEFINE m == s.bm
              g == GetPageBlock(m)
              n == NextBlock(m)
              R == Reclaimed(m)
  <1>1. /\ s \in Tables /\ Alive(s) /\ m \in BlockManagerType /\ s.flash \in FlashType
        /\ ListsSound(m) /\ Shape(s, Q) /\ Counted(s, Q)
        /\ m.fresh \in 0 .. NUMBER_OF_ADDRESSABLE_BLOCKS
    BY RecordFacts DEF Core, Shape, BlockManagerType
  <1>2. /\ t \in Tables /\ SameTables(s, t) /\ t.target = s.target
        /\ Alive(t) => t.taken \in Blocks
    BY <1>1, TakeType
  <1>3. CASE ServiceFails(m, s.flash)
    <2>1. t = Fails(s, "erase_failed")
      BY <1>1, <1>3 DEF TakeBlock
    <2>2. t.abort = "erase_failed"
      BY <1>1, <2>1, FailsType, AbortIn
    <2>3. \E b \in Blocks : e[b] = 0
      BY <1>1, <1>3, EraseFailsWorn DEF ServiceFails
    <2>. QED
      BY <1>2, <2>2, <2>3 DEF EndsWorn
  <1>4. CASE ~ServiceFails(m, s.flash) /\ OutOfBlocks(m)
    <2>1. t = Fails(s, "no_free_block")
      BY <1>1, <1>4 DEF TakeBlock
    <2>2. t.abort = "no_free_block"
      BY <1>1, <2>1, FailsType, AbortIn
    <2>3. ~LargeEnough
      BY <1>4, RoomLeft
    <2>. QED
      BY <1>2, <2>2, <2>3 DEF EndsWorn
  <1>5. ~(type = "LOG" /\ LogBlockRefused(m))
    <2>1. s.ring \in Seq(LogPageBlock)
      BY <1>1, RecordFacts
    <2>2. Len(s.ring) \in Nat
      BY <2>1
    <2>. QED
      BY <1>1, <2>2, FastAssumption DEF Counted, LogBlockRefused, LogRoom
  <1>6. CASE ~ServiceFails(m, s.flash) /\ ~OutOfBlocks(m)
    <2>1. t = [s EXCEPT !.flash = ServicedFlash(m, s.flash), !.bm = GetFreeBlock(m, type),
                        !.taken = n]
      BY <1>1, <1>5, <1>6 DEF TakeBlock
    <2>2. /\ ListsSound(g)
          /\ n \in Blocks
          /\ Members(g.invalid_list) = Members(m.invalid_list) \ R
          /\ Members(g.free_list) = (Members(m.free_list) \cup R) \ {n}
          /\ \/ n = m.fresh /\ g.fresh = m.fresh + 1
             \/ n \in Members(m.free_list) \cup R /\ g.fresh = m.fresh
          /\ g.data_active = m.data_active
          /\ g.log_active = m.log_active
      BY <1>1, <1>6, PageBlockEffect
    <2>3. g \in BlockManagerType
      BY <2>2 DEF ListsSound
    <2>. DEFINE c == CountActive(g, type, 1)
    <2>4. /\ c \in BlockManagerType
          /\ c.fresh = g.fresh
          /\ c.free_list = g.free_list
          /\ c.invalid_list = g.invalid_list
          /\ c.out_of_blocks = g.out_of_blocks
          /\ c.data_active = g.data_active + IF type = "DATA" THEN 1 ELSE 0
          /\ c.log_active = g.log_active + IF type = "LOG" THEN 1 ELSE 0
      BY <2>3, CountActiveEffect
    <2>5. c = GetFreeBlock(m, type)
      BY DEF GetFreeBlock
    <2>6. R \subseteq Waiting(s)
      BY <1>1, <1>6, ServicedEffect DEF Waiting
    <2>7. ErasesBlocks(s.flash, ServicedFlash(m, s.flash), R)
      <3>1. CASE RunsLow(m)
        <4>1. /\ ServicedFlash(m, s.flash) = Erase(s.flash, ErasedSet(m))
              /\ R = ErasedSet(m)
              /\ \A b \in ErasedSet(m) : CanErase(s.flash, b)
          BY <1>6, <3>1 DEF ServicedFlash, ServiceFails, InsertEventsFails, InsertEventsFlash, Reclaimed
        <4>2. ErasedSet(m) \in SUBSET Blocks
          BY <1>1, InsertEventsType
        <4>. QED
          BY <1>1, <4>1, <4>2, ErasesBlocksOf
      <3>2. CASE ~RunsLow(m)
        BY <1>1, <3>2 DEF ServicedFlash, Reclaimed, ErasesBlocks
      <3>. QED
        BY <3>1, <3>2
    <2>8. /\ t.flash = ServicedFlash(m, s.flash) /\ t.bm = c /\ t.taken = n /\ Alive(t)
      BY <1>1, <2>1, <2>5 DEF Tables, Records, Alive
    <2>. HIDE DEF c, g, n, R
    <2>9. ListsSound(c)
      BY <2>2, <2>4 DEF ListsSound
    <2>10. /\ Available(t) = (Available(s) \cup R) \ {n}
           /\ n \in Available(s) \cup R
           /\ Waiting(t) = Waiting(s) \ R
      <3>0. Waiting(t) = Waiting(s) \ R
        BY <2>2, <2>4, <2>8 DEF Waiting
      <3>1. \A b \in Members(m.free_list) \cup R : b < m.fresh /\ b \in Blocks
        BY <1>1, <2>6, IdleFacts, ListMembers DEF ListsSound, BlockManagerType, Waiting
      <3>2. \A b \in Blocks : b \in Int
        BY DEF Blocks
      <3>3. CASE n = m.fresh /\ g.fresh = m.fresh + 1
        <4>1. {b \in Blocks : b >= g.fresh} = {b \in Blocks : b >= m.fresh} \ {n}
          BY <1>1, <3>2, <3>3
        <4>2. n \in {b \in Blocks : b >= m.fresh}
          BY <1>1, <2>2, <3>2, <3>3
        <4>. QED
          BY <2>2, <2>4, <2>8, <3>0, <4>1, <4>2 DEF Available
      <3>4. CASE n \in Members(m.free_list) \cup R /\ g.fresh = m.fresh
        <4>1. n \notin {b \in Blocks : b >= m.fresh}
          BY <1>1, <3>1, <3>2, <3>4
        <4>. QED
          BY <2>2, <2>4, <2>8, <3>0, <3>4, <4>1 DEF Available
      <3>. QED
        BY <2>2, <3>3, <3>4
    <2>11. {n} \in SUBSET (Available(s) \cup R) /\ R \in SUBSET Waiting(s)
      BY <2>6, <2>10
    <2>12. /\ Shape(t, Q \cup {n}) /\ Stays(s, t)
           /\ Erased(t.flash, n)
           /\ Wear(t, D, e)
      <3>. DEFINE T == {n}
      <3>1. /\ T \in SUBSET (Available(s) \cup R)
            /\ Available(t) = (Available(s) \cup R) \ T
            /\ n \in T
        BY <2>10
      <3>2. ErasesBlocks(s.flash, t.flash, R) /\ ListsSound(t.bm)
        BY <2>7, <2>8, <2>9
      <3>. HIDE DEF T
      <3>3. /\ Shape(t, Q \cup T) /\ Stays(s, t)
            /\ \A b \in T : Erased(t.flash, b)
            /\ \A A, x : Wear(s, A, x) => Wear(t, A, x)
        BY <1>1, <1>2, <2>8, <2>10, <2>11, <3>1, <3>2, ReclaimKeeps, SMTT(60)
      <3>. QED
        BY <3>1, <3>3 DEF T
    <2>. QED
      BY <2>2, <2>4, <2>8, <2>10, <2>11, <2>12 DEF Idle, With
  <1>. QED
    BY <1>3, <1>4, <1>6

\* get_free_block(DATA): the block is one of Q from now on.
LEMMA TakeDataEffect ==
  ASSUME NEW s, NEW Q, Core(s, Q), Cardinality(Q) <= 1, NEW D, NEW e, Wear(s, D, e),
         NEW t, t = TakeBlock(s, "DATA")
  PROVE  \/ EndsWorn(t, e)
         \/ /\ Core(t, Q \cup {t.taken}) /\ Stays(s, t) /\ Wear(t, D, e)
            /\ t.taken \in Blocks /\ t.taken \in Idle(s) /\ t.taken \notin Q
            /\ Erased(t.flash, t.taken)
  <1>1. "DATA" \in BlockTypes
    BY DEF BlockTypes
  <1>2. CASE ~EndsWorn(t, e)
    <2>1. /\ Shape(t, With(Q, t.taken)) /\ Stays(s, t) /\ Wear(t, D, e)
          /\ t.taken \in Blocks /\ t.taken \in Idle(s)
          /\ Erased(t.flash, t.taken)
          /\ t.bm.data_active = s.bm.data_active + 1
          /\ t.bm.log_active = s.bm.log_active + 0
      <3>1. "DATA" # "LOG"
        OBVIOUS
      <3>. DEFINE type == "DATA"
      <3>2. type \in BlockTypes /\ type # "LOG" /\ type = "DATA" /\ t = TakeBlock(s, type)
        BY <1>1, <3>1
      <3>. HIDE DEF type
      <3>. QED
        BY <1>2, <3>2, TakeBlockEffect
    <2>2. Owned(s, Q) /\ Counted(s, Q) /\ s \in Tables /\ s.bm \in BlockManagerType
      BY RecordFacts DEF Core, Shape
    <2>3. t.taken \notin Q
      BY <2>1, <2>2 DEF Owned
    <2>4. Cardinality(Q \cup {t.taken}) = Cardinality(Q) + 1
      BY <2>2, <2>3, BlockCount DEF Owned
    <2>5. Mapped(t) = Mapped(s) /\ t.ring = s.ring
      BY <2>1 DEF Stays, SameTables, Mapped, HasData
    <2>6. s.bm.data_active \in Int /\ s.bm.log_active \in Int
      BY <2>2 DEF BlockManagerType
    <2>7. Cardinality(Mapped(s)) \in Nat /\ Cardinality(Q) \in Nat
      BY <2>2, OwnerCounts
    <2>8. Counted(t, Q \cup {t.taken})
      BY <2>1, <2>2, <2>4, <2>5, <2>6, <2>7 DEF Counted
    <2>. QED
      BY <2>1, <2>3, <2>8 DEF Core, With
  <1>. QED
    BY <1>2

\* insert_events.
LEMMA EraseInvalidEffect ==
  ASSUME NEW s, NEW Q, Core(s, Q), NEW D, NEW e, Wear(s, D, e),
         NEW t, t = EraseInvalidBlocks(s)
  PROVE  \/ EndsWorn(t, e)
         \/ Core(t, Q) /\ Stays(s, t) /\ Wear(t, D, e) /\ t.taken = s.taken /\ Idle(t) = Idle(s)
  <1>. DEFINE m == s.bm
              R == ErasedSet(m)
  <1>1. /\ s \in Tables /\ Alive(s) /\ m \in BlockManagerType /\ s.flash \in FlashType
        /\ ListsSound(m) /\ Shape(s, Q) /\ Counted(s, Q)
    BY RecordFacts DEF Core, Shape
  <1>2. t \in Tables /\ SameTables(s, t) /\ t.target = s.target /\ t.taken = s.taken
    BY <1>1, EraseInvalidType
  <1>3. CASE InsertEventsFails(m, s.flash)
    <2>1. t = Fails(s, "erase_failed")
      BY <1>1, <1>3 DEF EraseInvalidBlocks
    <2>2. t.abort = "erase_failed"
      BY <1>1, <2>1, FailsType, AbortIn
    <2>3. \E b \in Blocks : e[b] = 0
      BY <1>1, <1>3, EraseFailsWorn
    <2>. QED
      BY <1>2, <2>2, <2>3 DEF EndsWorn
  <1>4. CASE ~InsertEventsFails(m, s.flash)
    <2>1. t = [s EXCEPT !.flash = InsertEventsFlash(m, s.flash), !.bm = InsertEvents(m)]
      BY <1>1, <1>4 DEF EraseInvalidBlocks
    <2>2. /\ t.flash = Erase(s.flash, R) /\ t.bm = InsertEvents(m) /\ Alive(t)
      BY <1>1, <2>1 DEF Tables, Records, Alive, InsertEventsFlash
    <2>3. /\ ListsSound(InsertEvents(m))
          /\ R \subseteq Members(m.invalid_list)
          /\ Members(InsertEvents(m).free_list) = Members(m.free_list) \cup R
          /\ Members(InsertEvents(m).invalid_list) = Members(m.invalid_list) \ R
          /\ InsertEvents(m).fresh = m.fresh
          /\ InsertEvents(m).data_active = m.data_active
          /\ InsertEvents(m).log_active = m.log_active
      BY <1>1, InsertEventsEffect
    <2>4. R \in SUBSET Blocks /\ \A b \in R : CanErase(s.flash, b)
      BY <1>1, <1>4, InsertEventsType DEF InsertEventsFails
    <2>5. ErasesBlocks(s.flash, t.flash, R)
      BY <1>1, <2>2, <2>4, ErasesBlocksOf
    <2>. HIDE DEF R
    <2>6. /\ Available(t) = (Available(s) \cup R) \ {}
          /\ Waiting(t) = Waiting(s) \ R
          /\ R \in SUBSET Waiting(s)
          /\ {} \in SUBSET (Available(s) \cup R)
      BY <2>2, <2>3 DEF Available, Waiting
    <2>7. Shape(t, Q \cup {}) /\ Stays(s, t) /\ Wear(t, D, e)
      BY <1>1, <1>2, <2>2, <2>3, <2>5, <2>6, ReclaimKeeps, ZenonT(60)
    <2>8. Q \cup {} = Q
      OBVIOUS
    <2>9. Mapped(t) = Mapped(s) /\ t.ring = s.ring
      BY <2>7 DEF Stays, SameTables, Mapped, HasData
    <2>10. Counted(t, Q)
      BY <1>1, <2>2, <2>3, <2>9 DEF Counted
    <2>11. Idle(t) = Idle(s)
      BY <2>6 DEF Idle
    <2>. QED
      BY <1>2, <2>7, <2>8, <2>10, <2>11 DEF Core
  <1>. QED
    BY <1>3, <1>4

LEMMA StaysReflexive ==
  ASSUME NEW s
  PROVE  Stays(s, s)
  BY DEF Stays, SameTables, SameBlock

\* The erase before a merge does the same or nothing.
LEMMA MakeRoomEffect ==
  ASSUME NEW s, NEW Q, Core(s, Q), NEW D, NEW e, Wear(s, D, e), NEW t, t = MakeRoom(s)
  PROVE  \/ EndsWorn(t, e)
         \/ Core(t, Q) /\ Stays(s, t) /\ Wear(t, D, e) /\ t.taken = s.taken /\ Idle(t) = Idle(s)
  BY EraseInvalidEffect, StaysReflexive DEF MakeRoom

---------------------------------------------------------------------------
(* What a step that moves blocks about leaves of the pages not rewritten.  *)

KeepsCold(s, t) ==
  \A lpn \in Lpns : Quiet(s, lpn) =>
    /\ Quiet(t, lpn)
    /\ AtHome(t, lpn) <=> AtHome(s, lpn)
    /\ AtHome(s, lpn) => t.flash.data[HomePage(t, lpn)] = s.flash.data[HomePage(s, lpn)]

\* Besides, the SW log block and the other blocks of Q stay as they are.
Carries(s, t, Q) ==
  /\ KeepsCold(s, t)
  /\ t.seq = s.seq
  /\ t.target = s.target
  /\ \A b \in Q : SameBlock(s.flash, t.flash, b)

LEMMA KeepsColdFacts ==
  ASSUME NEW s
  PROVE  /\ KeepsCold(s, s)
         /\ \A t, u : KeepsCold(s, t) /\ KeepsCold(t, u) => KeepsCold(s, u)
         /\ \A t : KeepsCold(s, t) =>
              \A lpn \in Lpns : \A d : Quiet(s, lpn) /\ Shows(s, lpn, d)
                                     => Quiet(t, lpn) /\ Shows(t, lpn, d)
  <1>1. KeepsCold(s, s)
    BY DEF KeepsCold
  <1>2. ASSUME NEW t, NEW u, KeepsCold(s, t), KeepsCold(t, u)
        PROVE  KeepsCold(s, u)
    BY <1>2 DEF KeepsCold
  <1>3. ASSUME NEW t, KeepsCold(s, t), NEW lpn \in Lpns, NEW d, Quiet(s, lpn), Shows(s, lpn, d)
        PROVE  Quiet(t, lpn) /\ Shows(t, lpn, d)
    BY <1>3 DEF KeepsCold, Shows
  <1>. QED
    BY <1>1, <1>2, <1>3

\* Steps that carry the log along compose.
LEMMA CarriesFacts ==
  ASSUME NEW s, NEW Q
  PROVE  /\ Carries(s, s, Q)
         /\ \A t, u : Carries(s, t, Q) /\ Carries(t, u, Q) => Carries(s, u, Q)
         /\ \A t, R : Carries(s, t, Q) /\ R \subseteq Q => Carries(s, t, R)
  <1>1. KeepsCold(s, s) /\ \A t, u : KeepsCold(s, t) /\ KeepsCold(t, u) => KeepsCold(s, u)
    BY KeepsColdFacts
  <1>2. Carries(s, s, Q)
    BY <1>1 DEF Carries, SameBlock
  <1>3. ASSUME NEW t, NEW u, Carries(s, t, Q), Carries(t, u, Q)
        PROVE  Carries(s, u, Q)
    BY <1>1, <1>3 DEF Carries, SameBlock
  <1>. QED
    BY <1>2, <1>3 DEF Carries

\* The SW log block is sound as long as it is carried along.
LEMMA SeqCarried ==
  ASSUME NEW s \in Tables, NEW Q, SeqSound(s, Q), NEW R, NEW t, Carries(s, t, R),
         NEW P, s.seq.lba # NoLba => s.seq.address \in R /\ s.seq.address \in P
  PROVE  SeqSound(t, P)
  BY DEF SeqSound, Carries, SameBlock

\* The data block of a logical block is in use.
LEMMA HomeFacts ==
  ASSUME NEW s \in Tables, NEW Q, Owned(s, Q), NEW lpn \in Lpns, HasData(s, lba(lpn))
  PROVE  /\ s.data_list[lba(lpn)] \in Blocks
         /\ s.data_list[lba(lpn)] \in DataSet(s)
         /\ s.data_list[lba(lpn)] \notin Idle(s)
         /\ s.data_list[lba(lpn)] \notin Q
         /\ HomePage(s, lpn) \in Ppns
  <1>1. lba(lpn) \in Lbas /\ off(lpn) \in Offsets
    BY LpnFacts
  <1>2. lba(lpn) \in Mapped(s)
    BY <1>1 DEF Mapped
  <1>3. s.data_list[lba(lpn)] \in DataSet(s)
    BY <1>2 DEF DataSet
  <1>4. DataSet(s) \subseteq Blocks
    BY OwnerCounts
  <1>. QED
    BY <1>1, <1>3, <1>4 DEF Owned, HomePage, Ppns

\* What leaves the blocks in use alone carries the log along.
LEMMA StaysCarries ==
  ASSUME NEW s, NEW Q, Shape(s, Q), NEW t, Stays(s, t)
  PROVE  Carries(s, t, Q)
  <1>1. s \in Tables /\ Owned(s, Q)
    BY DEF Shape
  <1>2. ASSUME NEW lpn \in Lpns
        PROVE  /\ LogEntries(t, lpn) = LogEntries(s, lpn)
               /\ InSequential(t, lba(lpn), off(lpn)) <=> InSequential(s, lba(lpn), off(lpn))
               /\ HasData(t, lba(lpn)) <=> HasData(s, lba(lpn))
               /\ HomePage(t, lpn) = HomePage(s, lpn)
    BY DEF Stays, SameTables, LogEntries, InSequential, HasData, HomePage
  <1>3. ASSUME NEW lpn \in Lpns, HasData(s, lba(lpn))
        PROVE  /\ Valid(t, HomePage(s, lpn)) <=> Valid(s, HomePage(s, lpn))
               /\ t.flash.data[HomePage(s, lpn)] = s.flash.data[HomePage(s, lpn)]
    <2>1. SameBlock(s.flash, t.flash, s.data_list[lba(lpn)])
      BY <1>1, <1>3, HomeFacts DEF Stays
    <2>. QED
      BY <2>1, LpnFacts DEF SameBlock, HomePage, Valid
  <1>4. KeepsCold(s, t)
    BY <1>2, <1>3 DEF KeepsCold, Quiet, AtHome
  <1>5. \A b \in Q : SameBlock(s.flash, t.flash, b)
    BY <1>1 DEF Owned, Stays
  <1>. QED
    BY <1>4, <1>5 DEF Carries, Stays, SameTables

---------------------------------------------------------------------------
(* A block is given back, or becomes the data block of a logical block.    *)

Without(S, x) == S \ {x}

\* A block given back waits for its erase.
LEMMA GiveBackLists ==
  ASSUME NEW s \in Tables, Alive(s), ListsSound(s.bm), NEW b \in Blocks, b \notin Idle(s),
         NEW type \in BlockTypes, NEW t, t = GiveBack(s, b, type)
  PROVE  /\ t \in Tables /\ Alive(t) /\ SameTables(s, t)
         /\ t.target = s.target /\ t.taken = s.taken /\ t.flash = s.flash
         /\ ListsSound(t.bm)
         /\ Available(t) = Available(s)
         /\ Waiting(t) = Waiting(s) \cup {b}
         /\ t.bm.data_active = s.bm.data_active - IF type = "DATA" THEN 1 ELSE 0
         /\ t.bm.log_active = s.bm.log_active - IF type = "LOG" THEN 1 ELSE 0
  <1>. DEFINE m == s.bm
              a == [m EXCEPT !.invalid_list = Append(m.invalid_list, b)]
              c == CountActive(a, type, -1)
  <1>1. /\ m \in BlockManagerType
        /\ m.free_list \in Seq(Blocks) /\ m.invalid_list \in Seq(Blocks)
        /\ m.fresh \in Int /\ m.data_active \in Int /\ m.log_active \in Int
        /\ b \notin Members(m.free_list) /\ b \notin Members(m.invalid_list) /\ b < m.fresh
    <2>1. b \in Int
      BY DEF Blocks
    <2>2. m \in BlockManagerType
      BY RecordFacts
    <2>. QED
      BY <2>1, <2>2 DEF Idle, Available, Waiting, BlockManagerType
  <1>2. /\ Append(m.invalid_list, b) \in Seq(Blocks)
        /\ Members(Append(m.invalid_list, b)) = Members(m.invalid_list) \cup {b}
        /\ NoRepeat(m.invalid_list) => NoRepeat(Append(m.invalid_list, b))
    BY <1>1, AppendedList
  <1>3. /\ a \in BlockManagerType
        /\ a.fresh = m.fresh /\ a.free_list = m.free_list
        /\ a.invalid_list = Append(m.invalid_list, b)
        /\ a.out_of_blocks = m.out_of_blocks
        /\ a.data_active = m.data_active /\ a.log_active = m.log_active
    BY <1>1, <1>2 DEF BlockManagerType
  <1>. HIDE DEF a
  <1>4. -1 \in Int
    OBVIOUS
  <1>5. /\ c.fresh = a.fresh /\ c.free_list = a.free_list
        /\ c.invalid_list = a.invalid_list /\ c.out_of_blocks = a.out_of_blocks
        /\ c \in BlockManagerType
        /\ c.data_active = a.data_active + IF type = "DATA" THEN -1 ELSE 0
        /\ c.log_active = a.log_active + IF type = "LOG" THEN -1 ELSE 0
    <2>. DEFINE k == -1
    <2>0. k \in Int /\ k = -1
      BY <1>4
    <2>. HIDE DEF k
    <2>1. /\ CountActive(a, type, k) \in BlockManagerType
          /\ CountActive(a, type, k).fresh = a.fresh
          /\ CountActive(a, type, k).free_list = a.free_list
          /\ CountActive(a, type, k).invalid_list = a.invalid_list
          /\ CountActive(a, type, k).out_of_blocks = a.out_of_blocks
          /\ CountActive(a, type, k).data_active = a.data_active + IF type = "DATA" THEN k ELSE 0
          /\ CountActive(a, type, k).log_active = a.log_active + IF type = "LOG" THEN k ELSE 0
      BY <1>3, <2>0, CountActiveEffect, ZenonT(60)
    <2>. QED
      BY <2>1 DEF k
  <1>6. c = InvalidateBlock(m, b, type)
    BY DEF InvalidateBlock, a
  <1>7. /\ t \in Tables /\ Alive(t) /\ SameTables(s, t)
        /\ t.target = s.target /\ t.taken = s.taken /\ t.flash = s.flash
        /\ t.bm = InvalidateBlock(m, b, type)
    BY GiveBackType DEF Alive
  <1>. HIDE DEF c
  <1>8. ListsSound(c)
    <2>1. /\ NoRepeat(m.free_list) /\ NoRepeat(m.invalid_list)
          /\ Members(m.free_list) \cap Members(m.invalid_list) = {}
          /\ \A x \in Members(m.free_list) \cup Members(m.invalid_list) : x < m.fresh
          /\ ~m.out_of_blocks
      BY DEF ListsSound
    <2>. QED
      BY <1>1, <1>2, <1>3, <1>5, <2>1 DEF ListsSound
  <1>9. Available(t) = Available(s) /\ Waiting(t) = Waiting(s) \cup {b}
    BY <1>2, <1>3, <1>5, <1>6, <1>7 DEF Available, Waiting
  <1>10. /\ t.bm.data_active = s.bm.data_active - IF type = "DATA" THEN 1 ELSE 0
         /\ t.bm.log_active = s.bm.log_active - IF type = "LOG" THEN 1 ELSE 0
    BY <1>1, <1>3, <1>5, <1>6, <1>7
  <1>. QED
    BY <1>6, <1>7, <1>8, <1>9, <1>10

\* The SW log block or the like goes.
LEMMA GiveBackEffect ==
  ASSUME NEW s, NEW Q, Core(s, Q), s.target = NoPpn, NEW b \in Q,
         NEW D, NEW e, Wear(s, D, e), b \in D,
         NEW t, t = GiveBack(s, b, "DATA")
  PROVE  /\ Core(t, Without(Q, b))
         /\ SameTables(s, t) /\ t.target = s.target /\ t.taken = s.taken /\ t.flash = s.flash
         /\ KeepsCold(s, t)
         /\ Wear(t, Without(D, b), e)
  <1>1. /\ s \in Tables /\ Alive(s) /\ ListsSound(s.bm) /\ Owned(s, Q) /\ Counted(s, Q)
        /\ s.bm \in BlockManagerType
        /\ b \in Blocks /\ b \notin Idle(s)
    BY RecordFacts DEF Core, Shape, Owned
  <1>2. "DATA" \in BlockTypes /\ "DATA" # "LOG"
    BY DEF BlockTypes
  <1>3. /\ t \in Tables /\ Alive(t) /\ SameTables(s, t)
        /\ t.target = s.target /\ t.taken = s.taken /\ t.flash = s.flash
        /\ ListsSound(t.bm)
        /\ Available(t) = Available(s)
        /\ Waiting(t) = Waiting(s) \cup {b}
        /\ t.bm.data_active = s.bm.data_active - 1
        /\ t.bm.log_active = s.bm.log_active - 0
    <2>. DEFINE type == "DATA"
    <2>1. type \in BlockTypes /\ type # "LOG" /\ type = "DATA" /\ t = GiveBack(s, b, type)
      BY <1>2
    <2>. HIDE DEF type
    <2>. QED
      BY <1>1, <2>1, GiveBackLists
  <1>4. /\ DataSet(t) = DataSet(s) /\ LogSet(t) = LogSet(s) /\ Mapped(t) = Mapped(s)
        /\ t.data_list = s.data_list /\ t.ring = s.ring
    BY <1>3 DEF SameTables, DataSet, LogSet, Mapped, HasData
  <1>5. Idle(t) = Idle(s) \cup {b}
    BY <1>3 DEF Idle
  <1>6. Owned(t, Q \ {b})
    BY <1>1, <1>4, <1>5 DEF Owned
  <1>7. Counted(t, Q \ {b})
    <2>1. Cardinality(Q \ {b}) = Cardinality(Q) - 1 /\ Cardinality(Q) \in Nat
      BY <1>1, BlockCount DEF Owned
    <2>2. s.bm.data_active \in Int /\ s.bm.log_active \in Int /\ Cardinality(Mapped(s)) \in Nat
      BY <1>1, OwnerCounts DEF BlockManagerType
    <2>. QED
      BY <1>1, <1>3, <1>4, <2>1, <2>2 DEF Counted
  <1>8. /\ RingPages(t) /\ EntriesMapped(t) /\ TargetFree(t)
        /\ \A x \in Available(t) : Erased(t.flash, x)
        /\ Clean(t.flash)
    BY <1>3, <1>4 DEF Core, Shape, RingPages, EntriesMapped, TargetFree, HasData
  <1>9. KeepsCold(s, t)
    BY <1>3 DEF SameTables, KeepsCold, Quiet, AtHome, LogEntries, InSequential, HasData, HomePage, Valid
  <1>10. Wear(t, D \ {b}, e)
    BY <1>3, <1>5 DEF Wear
  <1>. QED
    BY <1>3, <1>6, <1>7, <1>8, <1>9, <1>10 DEF Core, Shape, Without

\* Block b holds what the data block of l has of the pages only it has.
CopiedHome(s, l, b) ==
  \A lpn \in Lpns : lba(lpn) = l /\ Quiet(s, lpn) =>
    /\ Valid(s, <<b, off(lpn)>>) <=> AtHome(s, lpn)
    /\ AtHome(s, lpn) => s.flash.data[<<b, off(lpn)>>] = s.flash.data[HomePage(s, lpn)]

Rehomed(s, l, b) == [s EXCEPT !.data_list = [s.data_list EXCEPT ![l] = b]]
OldGivenBack(s, l) == IF HasData(s, l) THEN GiveBack(s, s.data_list[l], "DATA") ELSE s
Remapped(s, l, b) == Rehomed(OldGivenBack(s, l), l, b)

LEMMA RehomedType ==
  ASSUME NEW s \in Tables, NEW l \in Lbas, NEW b \in Blocks \cup {NoBlock},
         NEW t, t = Rehomed(s, l, b)
  PROVE  /\ t \in Tables
         /\ t.flash = s.flash /\ t.bm = s.bm /\ t.ring = s.ring
         /\ t.log_page_next = s.log_page_next /\ t.seq = s.seq
         /\ t.taken = s.taken /\ t.target = s.target /\ t.abort = s.abort
         /\ \A m \in Lbas : t.data_list[m] = IF m = l THEN b ELSE s.data_list[m]
  <1>1. s.data_list \in [Lbas -> Blocks \cup {NoBlock}]
    BY RecordFacts
  <1>2. [s.data_list EXCEPT ![l] = b] \in [Lbas -> Blocks \cup {NoBlock}]
    BY <1>1
  <1>. QED
    BY <1>1, <1>2 DEF Rehomed, Tables, Records

\* Block b becomes the data block of l, the old one is given back.
LEMMA RemapEffect ==
  ASSUME NEW s, NEW Q, Core(s, Q), s.target = NoPpn, NEW l \in Lbas, NEW b \in Q,
         CopiedHome(s, l, b),
         NEW D, NEW e, Wear(s, D, e), HasData(s, l) => s.data_list[l] \in D,
         NEW t, t = Remapped(s, l, b)
  PROVE  /\ Core(t, Without(Q, b))
         /\ t.ring = s.ring /\ t.log_page_next = s.log_page_next /\ t.seq = s.seq
         /\ t.target = s.target /\ t.flash = s.flash
         /\ \A m \in Lbas : t.data_list[m] = IF m = l THEN b ELSE s.data_list[m]
         /\ KeepsCold(s, t)
         /\ Wear(t, Without(D, s.data_list[l]), e)
  <1>. DEFINE O == IF HasData(s, l) THEN {s.data_list[l]} ELSE {}
              g == OldGivenBack(s, l)
  <1>0. /\ g = IF HasData(s, l) THEN GiveBack(s, s.data_list[l], "DATA") ELSE s
        /\ t = Rehomed(g, l, b)
    BY DEF OldGivenBack, Remapped
  <1>. HIDE DEF g
  <1>1. /\ s \in Tables /\ Alive(s) /\ ListsSound(s.bm) /\ Owned(s, Q) /\ Counted(s, Q)
        /\ s.bm \in BlockManagerType
        /\ s.bm.data_active \in Int /\ s.bm.log_active \in Int
        /\ s.data_list \in [Lbas -> Blocks \cup {NoBlock}]
        /\ b \in Blocks /\ b # NoBlock
        /\ RingPages(s) /\ EntriesMapped(s) /\ Clean(s.flash)
        /\ \A x \in Available(s) : Erased(s.flash, x)
    BY RecordFacts, Numbers DEF Core, Shape, Owned, BlockManagerType
  <1>2. HasData(s, l) => /\ s.data_list[l] \in Blocks /\ s.data_list[l] \in DataSet(s)
                         /\ s.data_list[l] \notin Idle(s) /\ l \in Mapped(s)
    BY <1>1 DEF Owned, DataSet, Mapped, HasData
  <1>3. /\ g \in Tables /\ Alive(g) /\ SameTables(s, g) /\ g.target = s.target
        /\ g.flash = s.flash
        /\ ListsSound(g.bm)
        /\ Available(g) = Available(s)
        /\ Waiting(g) = Waiting(s) \cup O
        /\ g.bm.data_active = s.bm.data_active - IF HasData(s, l) THEN 1 ELSE 0
        /\ g.bm.log_active = s.bm.log_active
    <2>1. CASE HasData(s, l)
      <3>. DEFINE type == "DATA"
      <3>1. type \in BlockTypes /\ type # "LOG" /\ type = "DATA"
        BY DEF BlockTypes
      <3>2. g = GiveBack(s, s.data_list[l], type)
        BY <1>0, <2>1
      <3>. HIDE DEF type
      <3>3. /\ g \in Tables /\ Alive(g) /\ SameTables(s, g)
            /\ g.target = s.target /\ g.taken = s.taken /\ g.flash = s.flash
            /\ ListsSound(g.bm)
            /\ Available(g) = Available(s)
            /\ Waiting(g) = Waiting(s) \cup {s.data_list[l]}
            /\ g.bm.data_active = s.bm.data_active - IF type = "DATA" THEN 1 ELSE 0
            /\ g.bm.log_active = s.bm.log_active - IF type = "LOG" THEN 1 ELSE 0
        BY <1>1, <1>2, <2>1, <3>1, <3>2, GiveBackLists
      <3>. QED
        BY <1>1, <2>1, <3>1, <3>3
    <2>2. CASE ~HasData(s, l)
      BY <1>0, <1>1, <2>2 DEF SameTables
    <2>. QED
      BY <2>1, <2>2
  <1>4. /\ t \in Tables
        /\ t.flash = g.flash /\ t.bm = g.bm /\ t.ring = g.ring
        /\ t.log_page_next = g.log_page_next /\ t.seq = g.seq
        /\ t.taken = g.taken /\ t.target = g.target /\ t.abort = g.abort
        /\ \A m \in Lbas : t.data_list[m] = IF m = l THEN b ELSE g.data_list[m]
    <2>1. g \in Tables /\ b \in Blocks \cup {NoBlock}
      BY <1>1, <1>3
    <2>. QED
      BY <1>0, <2>1, RehomedType
  <1>5. /\ t.flash = s.flash /\ t.ring = s.ring /\ t.log_page_next = s.log_page_next
        /\ t.seq = s.seq /\ t.target = s.target /\ Alive(t)
        /\ \A m \in Lbas : t.data_list[m] = IF m = l THEN b ELSE s.data_list[m]
    BY <1>3, <1>4 DEF SameTables, Alive
  <1>6. \A m \in Lbas : HasData(t, m) <=> m = l \/ HasData(s, m)
    BY <1>1, <1>5 DEF HasData
  <1>7. Mapped(t) = Mapped(s) \cup {l}
    BY <1>6 DEF Mapped
  <1>8. \A m \in Mapped(s) : m # l => s.data_list[m] \notin O
    BY <1>1, <1>2 DEF Owned
  <1>9. DataSet(t) = (DataSet(s) \ O) \cup {b}
    <2>1. ASSUME NEW x \in DataSet(t)
          PROVE  x \in (DataSet(s) \ O) \cup {b}
      <3>1. PICK m \in Mapped(t) : x = t.data_list[m]
        BY DEF DataSet
      <3>2. m \in Lbas
        BY DEF Mapped
      <3>. QED
        BY <1>5, <1>7, <1>8, <3>1, <3>2 DEF DataSet
    <2>2. ASSUME NEW x \in DataSet(s), x \notin O
          PROVE  x \in DataSet(t)
      <3>1. PICK m \in Mapped(s) : x = s.data_list[m]
        BY DEF DataSet
      <3>2. m \in Lbas /\ HasData(s, m)
        BY DEF Mapped
      <3>3. m # l
        BY <2>2, <3>1, <3>2
      <3>4. m \in Mapped(t) /\ x = t.data_list[m]
        BY <1>5, <1>7, <3>1, <3>2, <3>3
      <3>. QED
        BY <3>4 DEF DataSet
    <2>3. b \in DataSet(t)
      <3>1. l \in Mapped(t) /\ b = t.data_list[l]
        BY <1>5, <1>7
      <3>. QED
        BY <3>1 DEF DataSet
    <2>. QED
      BY <2>1, <2>2, <2>3
  <1>10. /\ Available(t) = Available(s) /\ Waiting(t) = Waiting(s) \cup O
         /\ Idle(t) = Idle(s) \cup O /\ LogSet(t) = LogSet(s)
    BY <1>3, <1>4, <1>5 DEF Available, Waiting, Idle, LogSet
  <1>11. O \subseteq DataSet(s)
    BY <1>2
  <1>12. Owned(t, Q \ {b})
    <2>1. \A m, k \in Mapped(t) : t.data_list[m] = t.data_list[k] => m = k
      <3>1. \A m \in Mapped(s) : s.data_list[m] # b
        BY <1>1 DEF Owned, DataSet
      <3>2. \A m \in Mapped(t) : m \in Lbas /\ (m = l \/ m \in Mapped(s))
        BY <1>7 DEF Mapped
      <3>. QED
        BY <1>1, <1>5, <3>1, <3>2 DEF Owned
    <2>2. \A n, k \in 1 .. Len(t.ring) : t.ring[n].address = t.ring[k].address => n = k
      BY <1>1, <1>5 DEF Owned
    <2>. HIDE DEF O
    <2>3. /\ DataSet(t) \cap LogSet(t) = {} /\ DataSet(t) \cap (Q \ {b}) = {}
          /\ LogSet(t) \cap (Q \ {b}) = {}
      BY <1>1, <1>9, <1>10 DEF Owned
    <2>4. /\ Idle(t) \cap DataSet(t) = {} /\ Idle(t) \cap LogSet(t) = {}
          /\ Idle(t) \cap (Q \ {b}) = {}
      BY <1>1, <1>9, <1>10, <1>11 DEF Owned
    <2>5. Blocks \subseteq Idle(t) \cup DataSet(t) \cup LogSet(t) \cup (Q \ {b})
      BY <1>1, <1>9, <1>10, <1>11 DEF Owned
    <2>6. Q \ {b} \in SUBSET Blocks
      BY <1>1 DEF Owned
    <2>. QED
      BY <2>1, <2>2, <2>3, <2>4, <2>5, <2>6 DEF Owned
  <1>13. Counted(t, Q \ {b})
    <2>1. Cardinality(Q \ {b}) = Cardinality(Q) - 1 /\ Cardinality(Q) \in Nat
      BY <1>1, BlockCount DEF Owned
    <2>2. Cardinality(Mapped(s)) \in Nat
      BY <1>1, OwnerCounts
    <2>3. /\ Mapped(s) \in SUBSET Lbas /\ (l \in Mapped(s) <=> HasData(s, l))
      BY DEF Mapped
    <2>4. Cardinality(Mapped(s) \cup {l})
            = IF l \in Mapped(s) THEN Cardinality(Mapped(s)) ELSE Cardinality(Mapped(s)) + 1
      BY <2>3, LbaCount
    <2>5. s.bm.data_active = Cardinality(Mapped(s)) + Cardinality(Q)
      BY <1>1 DEF Counted
    <2>6. t.bm.data_active = Cardinality(Mapped(t)) + Cardinality(Q \ {b})
      <3>. DEFINE x == Cardinality(Mapped(s))
                  y == Cardinality(Q)
                  z == Cardinality(Mapped(s) \cup {l})
                  w == Cardinality(Q \ {b})
      <3>1. /\ x \in Nat /\ y \in Nat /\ w = y - 1
            /\ z = IF HasData(s, l) THEN x ELSE x + 1
            /\ t.bm.data_active = (x + y) - IF HasData(s, l) THEN 1 ELSE 0
        BY <1>3, <1>4, <2>1, <2>2, <2>3, <2>4, <2>5
      <3>. HIDE DEF x, y, z, w
      <3>2. t.bm.data_active = z + w
        BY <3>1
      <3>. QED
        BY <1>7, <3>2 DEF z, w
    <2>. QED
      BY <1>1, <1>3, <1>4, <1>5, <2>6 DEF Counted
  <1>14. /\ RingPages(t) /\ TargetFree(t)
         /\ \A x \in Available(t) : Erased(t.flash, x)
         /\ Clean(t.flash) /\ ListsSound(t.bm)
    <2>1. RingPages(t)
      BY <1>1, <1>5 DEF RingPages
    <2>2. TargetFree(t)
      BY <1>5 DEF TargetFree
    <2>. QED
      BY <1>1, <1>3, <1>4, <1>5, <1>10, <2>1, <2>2
  <1>15. EntriesMapped(t)
    <2>1. \A n \in 1 .. Len(s.ring), i \in Offsets :
            s.ring[n].aPages[i] # NoLpn => lba(s.ring[n].aPages[i]) \in Lbas
      <3>1. s.ring \in Seq(LogPageBlock)
        BY <1>1, RecordFacts
      <3>2. \A n \in 1 .. Len(s.ring) : s.ring[n] \in LogPageBlock
        BY <3>1
      <3>3. \A n \in 1 .. Len(s.ring), i \in Offsets : s.ring[n].aPages[i] \in Lpns \cup {NoLpn}
        BY <3>2 DEF LogPageBlock
      <3>. QED
        BY <3>3, LpnFacts
    <2>. QED
      BY <1>1, <1>5, <1>6, <2>1 DEF EntriesMapped
  <1>16. KeepsCold(s, t)
    <2>. SUFFICES ASSUME NEW lpn \in Lpns, Quiet(s, lpn)
                  PROVE  /\ Quiet(t, lpn)
                         /\ AtHome(t, lpn) <=> AtHome(s, lpn)
                         /\ AtHome(s, lpn) =>
                              t.flash.data[HomePage(t, lpn)] = s.flash.data[HomePage(s, lpn)]
      BY DEF KeepsCold
    <2>1. Quiet(t, lpn)
      BY <1>5 DEF Quiet, LogEntries, InSequential
    <2>2. lba(lpn) \in Lbas
      BY LpnFacts
    <2>3. CASE lba(lpn) = l
      <3>1. HasData(t, lba(lpn)) /\ HomePage(t, lpn) = <<b, off(lpn)>>
        BY <1>5, <1>6, <2>2, <2>3 DEF HomePage
      <3>2. AtHome(t, lpn) <=> Valid(s, <<b, off(lpn)>>)
        BY <1>5, <3>1 DEF AtHome, Valid
      <3>. QED
        BY <1>5, <2>1, <2>3, <3>1, <3>2 DEF CopiedHome
    <2>4. CASE lba(lpn) # l
      <3>1. HomePage(t, lpn) = HomePage(s, lpn) /\ (HasData(t, lba(lpn)) <=> HasData(s, lba(lpn)))
        BY <1>5, <1>6, <2>2, <2>4 DEF HomePage
      <3>. QED
        BY <1>5, <2>1, <3>1 DEF AtHome, Valid
    <2>. QED
      BY <2>3, <2>4
  <1>17. Wear(t, D \ {s.data_list[l]}, e)
    <2>1. O \subseteq D
      OBVIOUS
    <2>2. (D \ {s.data_list[l]}) \cap O = {}
      OBVIOUS
    <2>. HIDE DEF O
    <2>. QED
      BY <1>5, <1>10, <2>1, <2>2 DEF Wear
  <1>. QED
    BY <1>4, <1>5, <1>12, <1>13, <1>14, <1>15, <1>16, <1>17 DEF Core, Shape, Without

---------------------------------------------------------------------------
(* The loops of the merges: page after page of an erased block is written. *)

\* Pages were copied into b and nowhere else.
CopiesInto(s, u, b) ==
  /\ OnlyPrograms(s, u)
  /\ Alive(u)
  /\ u.flash.erases_remaining = s.flash.erases_remaining
  /\ \A c \in Blocks : c # b => SameBlock(s.flash, u.flash, c)
  /\ \A i \in Offsets : u.flash.page[<<b, i>>] # "INVALID"

\* Offset n of b has the copy of page p, its other pages are left alone.
HasCopy(s, u, v, b, n, p) ==
  /\ v.flash.page[<<b, n>>] = "VALID"
  /\ v.flash.data[<<b, n>>] = s.flash.data[p]
  /\ \A i \in Offsets : i # n => /\ v.flash.page[<<b, i>>] = u.flash.page[<<b, i>>]
                                 /\ v.flash.data[<<b, i>>] = u.flash.data[<<b, i>>]

\* A page is copied to an EMPTY one.
LEMMA CopyStep ==
  ASSUME NEW s \in Tables, NEW b \in Blocks, NEW u, CopiesInto(s, u, b),
         NEW p \in Ppns, p[1] # b, NEW n \in Offsets, u.flash.page[<<b, n>>] = "EMPTY",
         NEW v, v = MergePage(u, p, b, n)
  PROVE  CopiesInto(s, v, b) /\ HasCopy(s, u, v, b, n, p)
  <1>. DEFINE q == <<b, n>>
              d == u.flash.data[p]
  <1>1. /\ u \in Tables /\ OnlyPrograms(s, u) /\ Alive(u) /\ u.flash \in FlashType
        /\ q \in Ppns /\ q[1] = b /\ p # NoPpn
        /\ u.flash.page[q] = "EMPTY"
    <2>1. u \in Tables
      BY DEF CopiesInto, OnlyPrograms
    <2>. QED
      BY <2>1, RecordFacts, NoPpnNotPage DEF CopiesInto, Ppns
  <1>2. OnlyPrograms(u, v) /\ Alive(v) /\ v.flash = Program(u.flash, q, u.flash.data[p])
    <2>1. CanProgram(u.flash, q)
      BY <1>1 DEF CanProgram
    <2>. QED
      BY <1>1, <2>1, MergePageType
  <1>3. OnlyPrograms(s, v)
    BY <1>1, <1>2, OnlyProgramsFacts
  <1>4. p[1] \in Blocks /\ p[2] \in Offsets /\ p = <<p[1], p[2]>>
    BY DEF Ppns
  <1>5. d \in Contents /\ d = s.flash.data[p]
    <2>1. u.flash.data \in [Ppns -> Contents]
      BY <1>1 DEF FlashType
    <2>2. SameBlock(s.flash, u.flash, p[1])
      BY <1>4 DEF CopiesInto
    <2>. QED
      BY <1>4, <2>1, <2>2 DEF SameBlock
  <1>. HIDE DEF d
  <1>6. /\ v.flash.page = [u.flash.page EXCEPT ![q] = "VALID"]
        /\ v.flash.data = [u.flash.data EXCEPT ![q] = d]
        /\ v.flash.pages_valid = [u.flash.pages_valid EXCEPT ![b] = u.flash.pages_valid[b] + 1]
        /\ v.flash.erases_remaining = u.flash.erases_remaining
    BY <1>1, <1>2, <1>5, ProgramEffect, SMTT(30) DEF d
  <1>7. /\ u.flash.page \in [Ppns -> PageStates] /\ u.flash.data \in [Ppns -> Contents]
        /\ u.flash.pages_valid \in [Blocks -> Nat]
    BY <1>1 DEF FlashType
  <1>8. \A c \in Blocks, i \in Offsets :
          /\ <<c, i>> \in Ppns
          /\ v.flash.page[<<c, i>>] = IF c = b /\ i = n THEN "VALID" ELSE u.flash.page[<<c, i>>]
          /\ v.flash.data[<<c, i>>] = IF c = b /\ i = n THEN d ELSE u.flash.data[<<c, i>>]
    BY <1>6, <1>7 DEF Ppns
  <1>9. \A c \in Blocks : c # b => v.flash.pages_valid[c] = u.flash.pages_valid[c]
    BY <1>6, <1>7
  <1>10. \A c \in Blocks : c # b => SameBlock(s.flash, v.flash, c)
    <2>1. \A c \in Blocks : c # b => SameBlock(s.flash, u.flash, c)
      BY DEF CopiesInto
    <2>. QED
      BY <1>8, <1>9, <2>1 DEF SameBlock
  <1>11. v.flash.erases_remaining = s.flash.erases_remaining
    BY <1>6 DEF CopiesInto
  <1>12. HasCopy(s, u, v, b, n, p)
    BY <1>5, <1>8 DEF HasCopy
  <1>13. \A i \in Offsets : v.flash.page[<<b, i>>] # "INVALID"
    <2>1. \A i \in Offsets : u.flash.page[<<b, i>>] # "INVALID"
      BY DEF CopiesInto
    <2>. QED
      BY <1>8, <2>1
  <1>. QED
    BY <1>2, <1>3, <1>10, <1>11, <1>12, <1>13 DEF CopiesInto

\* n turns are done: the pages of b hold those src names.
CopiedTo(s, u, b, src, n) ==
  /\ CopiesInto(s, u, b)
  /\ \A i \in Offsets :
       IF i < n /\ src[i] # NoPpn
         THEN /\ u.flash.page[<<b, i>>] = "VALID"
              /\ u.flash.data[<<b, i>>] = s.flash.data[src[i]]
         ELSE u.flash.page[<<b, i>>] = "EMPTY"

\* Nothing is copied yet.
LEMMA NoCopy ==
  ASSUME NEW s \in Tables, Alive(s), NEW b \in Blocks, Erased(s.flash, b)
  PROVE  CopiesInto(s, s, b)
  BY OnlyProgramsFacts DEF CopiesInto, Erased, SameBlock

\* One turn of a copying loop, ...
LEMMA CopyTurn ==
  ASSUME NEW s \in Tables, NEW b \in Blocks, NEW src, NEW n \in Offsets,
         src[n] \in Ppns \cup {NoPpn}, src[n] \in Ppns => src[n][1] # b,
         NEW u, CopiedTo(s, u, b, src, n), NEW v, v = MergePage(u, src[n], b, n)
  PROVE  CopiedTo(s, v, b, src, n + 1)
  <1>1. /\ ~(n < n) /\ n < n + 1
        /\ \A i \in Offsets : i # n => (i < n + 1 <=> i < n)
    BY Numbers DEF Offsets
  <1>2. CASE src[n] = NoPpn
    <2>1. v = u
      BY <1>2 DEF MergePage
    <2>. QED
      BY <1>1, <1>2, <2>1 DEF CopiedTo
  <1>3. CASE src[n] # NoPpn
    <2>1. u.flash.page[<<b, n>>] = "EMPTY"
      BY <1>1 DEF CopiedTo
    <2>2. CopiesInto(s, v, b) /\ HasCopy(s, u, v, b, n, src[n])
      BY <1>3, <2>1, CopyStep DEF CopiedTo
    <2>3. ASSUME NEW i \in Offsets
          PROVE  IF i < n + 1 /\ src[i] # NoPpn
                   THEN /\ v.flash.page[<<b, i>>] = "VALID"
                        /\ v.flash.data[<<b, i>>] = s.flash.data[src[i]]
                   ELSE v.flash.page[<<b, i>>] = "EMPTY"
      <3>1. CASE i = n
        BY <1>1, <1>3, <2>2, <3>1 DEF HasCopy
      <3>2. CASE i # n
        BY <1>1, <2>2, <3>2 DEF HasCopy, CopiedTo
      <3>. QED
        BY <3>1, <3>2
    <2>. QED
      BY <2>2, <2>3 DEF CopiedTo
  <1>. QED
    BY <1>2, <1>3

\* ... and all of them.
LEMMA CopyLoop ==
  ASSUME NEW s \in Tables, Alive(s), NEW b \in Blocks, Erased(s.flash, b), NEW src,
         \A i \in Offsets : /\ src[i] \in Ppns \cup {NoPpn}
                            /\ src[i] \in Ppns => src[i][1] # b,
         NEW run, run[0] = s,
         \A n \in Offsets : CopiedTo(s, run[n], b, src, n)
                              => run[n + 1] = MergePage(run[n], src[n], b, n)
  PROVE  CopiedTo(s, run[BLOCK_SIZE], b, src, BLOCK_SIZE)
  <1>. DEFINE Good == {n \in 0 .. BLOCK_SIZE : CopiedTo(s, run[n], b, src, n)}
  <1>1. BLOCK_SIZE \in Nat /\ 0 .. BLOCK_SIZE - 1 = Offsets
    BY Numbers DEF Offsets
  <1>2. 0 \in Good
    <2>1. \A i \in Offsets : ~(i < 0)
      BY DEF Offsets
    <2>2. CopiesInto(s, s, b)
      BY NoCopy
    <2>3. CopiedTo(s, s, b, src, 0)
      BY <2>1, <2>2 DEF CopiedTo, Erased
    <2>. QED
      BY <1>1, <2>3
  <1>3. ASSUME NEW n \in 0 .. BLOCK_SIZE - 1, n \in Good
        PROVE  n + 1 \in Good
    <2>1. n \in Offsets /\ n + 1 \in 0 .. BLOCK_SIZE /\ CopiedTo(s, run[n], b, src, n)
      BY <1>1, <1>3
    <2>2. run[n + 1] = MergePage(run[n], src[n], b, n)
      BY <2>1
    <2>3. CopiedTo(s, run[n + 1], b, src, n + 1)
      BY <2>1, <2>2, CopyTurn
    <2>. QED
      BY <2>1, <2>3
  <1>. HIDE DEF Good
  <1>4. BLOCK_SIZE \in Good
    <2>1. \A n \in 0 .. BLOCK_SIZE : n \in Good
      BY <1>1, <1>2, <1>3, Reaches
    <2>. QED
      BY <1>1, <2>1
  <1>. QED
    BY <1>4 DEF Good

\* Writing a block of Q leaves what is true of the others.
LEMMA CopyKeeps ==
  ASSUME NEW s, NEW Q, Core(s, Q), s.target = NoPpn, NEW b \in Q,
         NEW D, NEW e, Wear(s, D, e),
         NEW u, CopiesInto(s, u, b)
  PROVE  /\ Core(u, Q)
         /\ SameTables(s, u) /\ u.target = s.target /\ u.taken = s.taken
         /\ Carries(s, u, Without(Q, b))
         /\ Wear(u, D, e)
  <1>1. /\ s \in Tables /\ ListsSound(s.bm) /\ Owned(s, Q) /\ Counted(s, Q) /\ Clean(s.flash)
        /\ RingPages(s) /\ EntriesMapped(s)
        /\ \A x \in Available(s) : Erased(s.flash, x)
        /\ Q \subseteq Blocks
    BY DEF Core, Shape, Owned
  <1>2. /\ u \in Tables /\ Alive(u) /\ SameTables(s, u) /\ u.bm = s.bm
        /\ u.target = s.target /\ u.taken = s.taken
        /\ u.flash.erases_remaining = s.flash.erases_remaining
        /\ \A c \in Blocks : c # b => SameBlock(s.flash, u.flash, c)
        /\ \A i \in Offsets : u.flash.page[<<b, i>>] # "INVALID"
    BY DEF CopiesInto, OnlyPrograms
  <1>3. /\ Available(u) = Available(s) /\ Waiting(u) = Waiting(s) /\ Idle(u) = Idle(s)
        /\ DataSet(u) = DataSet(s) /\ LogSet(u) = LogSet(s) /\ Mapped(u) = Mapped(s)
        /\ u.ring = s.ring /\ u.data_list = s.data_list
    BY <1>2 DEF Available, Waiting, Idle, DataSet, LogSet, Mapped, HasData, SameTables
  <1>4. Owned(u, Q) /\ Counted(u, Q)
    BY <1>1, <1>2, <1>3 DEF Owned, Counted
  <1>5. Clean(u.flash)
    <2>1. \A p \in Ppns : p[1] \in Blocks /\ p[2] \in Offsets /\ p = <<p[1], p[2]>>
      BY DEF Ppns
    <2>2. \A p \in Ppns : p[1] # b => u.flash.page[p] = s.flash.page[p]
      BY <1>2, <2>1 DEF SameBlock
    <2>3. \A p \in Ppns : p[1] = b => u.flash.page[p] # "INVALID"
      BY <1>2, <2>1
    <2>. QED
      BY <1>1, <2>2, <2>3 DEF Clean
  <1>6. \A x \in Available(u) : Erased(u.flash, x)
    <2>1. \A x \in Available(s) : x \in Blocks /\ x # b
      BY <1>1, IdleFacts DEF Owned, Idle
    <2>. QED
      BY <1>1, <1>2, <1>3, <2>1 DEF SameBlock, Erased
  <1>7. \A k \in 1 .. Len(s.ring) : s.ring[k].address \in Blocks /\ s.ring[k].address # b
    <2>1. \A k \in 1 .. Len(s.ring) : s.ring[k].address \in LogSet(s)
      BY DEF LogSet
    <2>2. LogSet(s) \subseteq Blocks
      BY <1>1, OwnerCounts
    <2>. QED
      BY <1>1, <2>1, <2>2 DEF Owned
  <1>8. RingPages(u)
    BY <1>1, <1>2, <1>3, <1>7 DEF RingPages, SameBlock
  <1>9. EntriesMapped(u) /\ TargetFree(u)
    BY <1>1, <1>2, <1>3 DEF EntriesMapped, TargetFree, HasData
  <1>10. KeepsCold(s, u)
    <2>. SUFFICES ASSUME NEW lpn \in Lpns
                  PROVE  /\ Quiet(u, lpn) <=> Quiet(s, lpn)
                         /\ AtHome(u, lpn) <=> AtHome(s, lpn)
                         /\ AtHome(s, lpn) =>
                              u.flash.data[HomePage(u, lpn)] = s.flash.data[HomePage(s, lpn)]
      BY DEF KeepsCold
    <2>1. Quiet(u, lpn) <=> Quiet(s, lpn)
      BY <1>2 DEF Quiet, LogEntries, InSequential, SameTables
    <2>2. HomePage(u, lpn) = HomePage(s, lpn) /\ (HasData(u, lba(lpn)) <=> HasData(s, lba(lpn)))
      BY <1>3 DEF HomePage, HasData
    <2>3. CASE HasData(s, lba(lpn))
      <3>1. s.data_list[lba(lpn)] \in Blocks /\ s.data_list[lba(lpn)] # b
        BY <1>1, <2>3, HomeFacts
      <3>2. off(lpn) \in Offsets
        BY LpnFacts
      <3>3. SameBlock(s.flash, u.flash, s.data_list[lba(lpn)])
        BY <1>2, <3>1
      <3>4. /\ u.flash.page[HomePage(s, lpn)] = s.flash.page[HomePage(s, lpn)]
            /\ u.flash.data[HomePage(s, lpn)] = s.flash.data[HomePage(s, lpn)]
        BY <3>2, <3>3 DEF SameBlock, HomePage
      <3>. QED
        BY <2>1, <2>2, <3>4 DEF AtHome, Valid
    <2>4. CASE ~HasData(s, lba(lpn))
      BY <2>1, <2>2, <2>4 DEF AtHome
    <2>. QED
      BY <2>3, <2>4
  <1>11. Carries(s, u, Q \ {b})
    BY <1>1, <1>2, <1>10 DEF Carries, SameTables
  <1>12. Wear(u, D, e)
    BY <1>2, <1>3 DEF Wear
  <1>. QED
    BY <1>1, <1>2, <1>4, <1>5, <1>6, <1>8, <1>9, <1>11, <1>12 DEF Core, Shape, Without


---------------------------------------------------------------------------
(* The SW log block is merged or becomes a data block.                     *)

\* The SW log block, if there is one.
SequentialSet(s) == {s.seq.address} \ {NoBlock}

LEMMA WearLess ==
  ASSUME NEW s, NEW D, NEW e, Wear(s, D, e), NEW R \in SUBSET D
  PROVE  Wear(s, R, e)
  BY DEF Wear

\* The pages of the new block are copies of those of the SW log block up to its
\* offset and of the data block from there on.
LEMMA MergedSequentialEffect ==
  ASSUME NEW u, NEW Q, Core(u, Q), SeqSound(u, Q), u.target = NoPpn,
         NEW l, l = u.seq.lba, l # NoLba,
         NEW b \in Q, b # u.seq.address, Erased(u.flash, b),
         NEW D, NEW e, Wear(u, D, e),
         NEW m, m = MergedSequential(u, l, b)
  PROVE  /\ Core(m, Q)
         /\ SameTables(u, m) /\ m.target = u.target /\ m.taken = u.taken
         /\ Carries(u, m, Without(Q, b))
         /\ Wear(m, D, e)
         /\ CopiedHome(m, l, b)
  <1>. DEFINE a == u.seq.address
              src == [i \in Offsets |-> SequentialSource(u, l, i)]
  <1>1. /\ u \in Tables /\ Alive(u) /\ Owned(u, Q)
        /\ l \in Lbas /\ b \in Blocks /\ a \in Blocks /\ a \in Q
    <2>1. u \in Tables /\ Alive(u) /\ Owned(u, Q) /\ Q \in SUBSET Blocks
      BY DEF Core, Shape, Owned
    <2>2. a \in Q
      BY DEF SeqSound
    <2>3. l \in Lbas \cup {NoLba}
      BY <2>1, RecordFacts
    <2>. QED
      BY <2>1, <2>2, <2>3
  <1>2. ASSUME HasData(u, l)
        PROVE  /\ u.data_list[l] \in Blocks /\ u.data_list[l] # b /\ u.data_list[l] # a
               /\ \A i \in Offsets : DataPageAt(u, l, i) = <<u.data_list[l], i>>
    <2>1. \A i \in Offsets : DataPageAt(u, l, i) = <<u.data_list[l], i>>
      BY <1>1, <1>2, DataFacts
    <2>2. u.data_list[l] \in Blocks
      BY <1>1, <1>2, Numbers, DataFacts
    <2>3. u.data_list[l] \in DataSet(u)
      BY <1>1, <1>2 DEF DataSet, Mapped
    <2>. QED
      BY <1>1, <2>1, <2>2, <2>3 DEF Owned
  <1>3. \A i \in Offsets : /\ src[i] = SequentialSource(u, l, i)
                           /\ src[i] \in Ppns \cup {NoPpn}
                           /\ src[i] \in Ppns => src[i][1] # b
    <2>. SUFFICES ASSUME NEW i \in Offsets
                  PROVE  /\ SequentialSource(u, l, i) \in Ppns \cup {NoPpn}
                         /\ SequentialSource(u, l, i) \in Ppns => SequentialSource(u, l, i)[1] # b
      OBVIOUS
    <2>1. SequentialSource(u, l, i) \in Ppns \cup {NoPpn}
      BY <1>1, SourceFacts
    <2>2. \/ SequentialSource(u, l, i) = <<a, i>>
          \/ HasData(u, l) /\ SequentialSource(u, l, i) = DataPageAt(u, l, i)
          \/ SequentialSource(u, l, i) = NoPpn
      BY DEF SequentialSource, SequentialPage
    <2>. QED
      BY <1>2, <2>1, <2>2, NoPpnNotPage
  <1>. HIDE DEF src
  <1>4. PICK run : /\ run[0] = u /\ run[BLOCK_SIZE] = m
                   /\ \A n \in 0 .. BLOCK_SIZE : OnlyPrograms(u, run[n])
                   /\ \A n \in Offsets :
                        run[n + 1] = MergePage(run[n], SequentialSource(run[n], l, n), b, n)
    BY <1>1, MergedSequentialRun
  <1>5. ASSUME NEW n \in Offsets, CopiedTo(u, run[n], b, src, n)
        PROVE  run[n + 1] = MergePage(run[n], src[n], b, n)
    <2>. DEFINE v == run[n]
    <2>1. SameTables(u, v) /\ \A c \in Blocks : c # b => SameBlock(u.flash, v.flash, c)
      BY <1>5 DEF CopiedTo, CopiesInto, OnlyPrograms
    <2>2. v.seq = u.seq /\ v.data_list = u.data_list
      BY <2>1 DEF SameTables
    <2>3. Valid(v, <<a, n>>) <=> Valid(u, <<a, n>>)
      BY <1>1, <2>1 DEF Valid, SameBlock
    <2>4. /\ HasData(v, l) <=> HasData(u, l)
          /\ DataPageAt(v, l, n) = DataPageAt(u, l, n)
          /\ HasData(u, l) => (Valid(v, DataPageAt(u, l, n)) <=> Valid(u, DataPageAt(u, l, n)))
      BY <1>2, <2>1, <2>2 DEF HasData, DataPageAt, Valid, SameBlock
    <2>5. SequentialSource(v, l, n) = SequentialSource(u, l, n)
      BY <2>2, <2>3, <2>4 DEF SequentialSource, SequentialPage
    <2>. QED
      BY <1>3, <1>4, <2>5
  <1>6. CopiedTo(u, m, b, src, BLOCK_SIZE)
    BY <1>1, <1>3, <1>4, <1>5, CopyLoop
  <1>7. /\ Core(m, Q)
        /\ SameTables(u, m) /\ m.target = u.target /\ m.taken = u.taken
        /\ Carries(u, m, Without(Q, b))
        /\ Wear(m, D, e)
    <2>1. CopiesInto(u, m, b)
      BY <1>6 DEF CopiedTo
    <2>. QED
      BY <2>1, CopyKeeps
  <1>8. CopiedHome(m, l, b)
    <2>. SUFFICES ASSUME NEW lpn \in Lpns, lba(lpn) = l, Quiet(m, lpn)
                  PROVE  /\ Valid(m, <<b, off(lpn)>>) <=> AtHome(m, lpn)
                         /\ AtHome(m, lpn) => m.flash.data[<<b, off(lpn)>>]
                                                = m.flash.data[HomePage(m, lpn)]
      BY DEF CopiedHome
    <2>. DEFINE i == off(lpn)
    <2>1. i \in Offsets /\ i \in Int /\ i < BLOCK_SIZE
      BY LpnFacts, Numbers DEF Offsets
    <2>2. m.seq = u.seq /\ m.data_list = u.data_list
      BY <1>7 DEF SameTables
    <2>3. u.flash.page[<<a, i>>] = "EMPTY"
      <3>1. ~(u.seq.offset > i) /\ u.seq.offset \in 0 .. BLOCK_SIZE
        BY <1>1, <2>2, RecordFacts DEF Quiet, InSequential
      <3>2. i >= u.seq.offset
        BY <2>1, <3>1, Numbers
      <3>. QED
        BY <2>1, <3>2 DEF SeqSound
    <2>4. src[i] = IF HasData(u, l) /\ Valid(u, DataPageAt(u, l, i)) THEN DataPageAt(u, l, i) ELSE NoPpn
      BY <1>3, <2>1, <2>3 DEF SequentialSource, SequentialPage, Valid
    <2>5. IF src[i] # NoPpn
            THEN /\ m.flash.page[<<b, i>>] = "VALID"
                 /\ m.flash.data[<<b, i>>] = u.flash.data[src[i]]
            ELSE m.flash.page[<<b, i>>] = "EMPTY"
      BY <1>6, <2>1 DEF CopiedTo
    <2>6. CASE ~HasData(u, l)
      BY <2>2, <2>4, <2>5, <2>6 DEF AtHome, HasData, Valid
    <2>7. CASE HasData(u, l)
      <3>. DEFINE p == <<u.data_list[l], i>>
      <3>1. DataPageAt(u, l, i) = p /\ u.data_list[l] \in Blocks /\ u.data_list[l] # b /\ p # NoPpn
        <4>1. DataPageAt(u, l, i) \in Ppns
          BY <1>1, <2>1, DataFacts
        <4>. QED
          BY <1>2, <2>1, <2>7, <4>1, NoPpnNotPage
      <3>2. HomePage(m, lpn) = p /\ HasData(m, l)
        BY <2>2, <2>7 DEF HomePage, HasData
      <3>3. m.flash.page[p] = u.flash.page[p] /\ m.flash.data[p] = u.flash.data[p]
        <4>1. SameBlock(u.flash, m.flash, u.data_list[l])
          BY <1>6, <3>1 DEF CopiedTo, CopiesInto
        <4>. QED
          BY <2>1, <4>1 DEF SameBlock
      <3>. QED
        BY <2>4, <2>5, <2>7, <3>1, <3>2, <3>3 DEF AtHome, Valid
    <2>. QED
      BY <2>6, <2>7
  <1>. QED
    BY <1>7, <1>8


\* A block with the pages of a logical block keeps them while blocks are given back.
LEMMA CopiedHomeKept ==
  ASSUME NEW s, NEW t, SameTables(s, t), t.flash = s.flash, NEW l, NEW b, CopiedHome(s, l, b)
  PROVE  CopiedHome(t, l, b)
  <1>1. \A lpn \in Lpns : /\ Quiet(t, lpn) => Quiet(s, lpn)
                          /\ AtHome(t, lpn) <=> AtHome(s, lpn)
                          /\ HomePage(t, lpn) = HomePage(s, lpn)
    BY DEF SameTables, Quiet, LogEntries, InSequential, AtHome, HasData, HomePage, Valid
  <1>. QED
    BY <1>1 DEF CopiedHome, Valid

\* A block in use is still erased when only idle blocks changed.
LEMMA StaysErased ==
  ASSUME NEW s, NEW t, Stays(s, t), NEW b \in Blocks, b \notin Idle(s), Erased(s.flash, b)
  PROVE  Erased(t.flash, b)
  BY DEF Stays, SameBlock, Erased

\* After a failed assert the program is not running.
LEMMA DeadStops ==
  ASSUME NEW t, NEW e, EndsWorn(t, e)
  PROVE  ~Alive(t)
  BY DEF EndsWorn, Alive

\* A merge of the SW log block: what it leaves, unless the program ends.
SwMerged(s, t, e) ==
  \/ EndsWorn(t, e)
  \/ /\ Core(t, {}) /\ t.target = NoPpn /\ KeepsCold(s, t)
     /\ t.ring = s.ring /\ t.log_page_next = s.log_page_next /\ t.seq = s.seq
     /\ Wear(t, {}, e)

\* merge_sequential: the new block has the pages only the data block had.
LEMMA MergeSequentialEffect ==
  ASSUME NEW s, Core(s, SequentialSet(s)), SeqSound(s, SequentialSet(s)), s.target = NoPpn,
         NEW D, NEW e, Wear(s, D, e), DataSet(s) \cup SequentialSet(s) \subseteq D,
         NEW t, t = merge_sequential(s)
  PROVE  SwMerged(s, t, e)
  <1>. DEFINE Q == SequentialSet(s)
              l == s.seq.lba
              a == s.seq.address
              k == TakeBlock(s, "DATA")
              u == MakeRoom(k)
              b == u.taken
              m == MergedSequential(u, l, b)
              n == GiveBack(m, a, "DATA")
              g == IF HasData(s, l) THEN GiveBack(n, s.data_list[l], "DATA") ELSE n
  <1>1. s \in Tables /\ Owned(s, Q) /\ Alive(s)
    BY DEF Core, Shape
  <1>2. CASE l = NoLba
    <2>1. t = s
      BY <1>2 DEF merge_sequential
    <2>2. Q = {}
      BY <1>2 DEF SeqSound, SequentialSet
    <2>3. Wear(s, {}, e)
      BY WearLess
    <2>. QED
      BY <2>1, <2>2, <2>3, KeepsColdFacts DEF SwMerged
  <1>3. CASE l # NoLba
    <2>1. a \in Q /\ a \in Blocks /\ l \in Lbas /\ Q = {a} /\ Cardinality(Q) <= 1
      <3>1. a \in Q
        BY <1>3 DEF SeqSound
      <3>2. a \in Blocks /\ l \in Lbas
        BY <1>1, <1>3, RecordFacts
      <3>3. Q = {a}
        BY <3>1 DEF SequentialSet
      <3>4. Cardinality({a}) = 1
        BY FS_Singleton
      <3>. QED
        BY <3>1, <3>2, <3>3, <3>4
    <2>2. t = IF ~Alive(u) THEN u ELSE [g EXCEPT !.data_list = [g.data_list EXCEPT ![l] = b]]
      BY <1>3 DEF merge_sequential
    <2>. HIDE DEF Q, k, u, b, m, n, g
    <2>3. \/ EndsWorn(k, e)
          \/ /\ Core(k, Q \cup {k.taken}) /\ Stays(s, k) /\ Wear(k, D, e)
             /\ k.taken \in Blocks /\ k.taken \notin Q
             /\ Erased(k.flash, k.taken)
      BY <2>1, TakeDataEffect DEF Q, k
    <2>4. CASE EndsWorn(k, e)
      <3>1. u = k /\ ~Alive(u)
        BY <2>4, DeadStops DEF u, MakeRoom
      <3>. QED
        BY <2>2, <2>4, <3>1 DEF SwMerged
    <2>5. CASE /\ Core(k, Q \cup {k.taken}) /\ Stays(s, k) /\ Wear(k, D, e)
               /\ k.taken \in Blocks /\ k.taken \notin Q
               /\ Erased(k.flash, k.taken)
      <3>1. \/ EndsWorn(u, e)
            \/ Core(u, Q \cup {b}) /\ Stays(k, u) /\ Wear(u, D, e) /\ b = k.taken
        BY <2>5, MakeRoomEffect DEF u, b
      <3>2. CASE EndsWorn(u, e)
        BY <2>2, <3>2, DeadStops DEF SwMerged
      <3>3. CASE Core(u, Q \cup {b}) /\ Stays(k, u) /\ Wear(u, D, e) /\ b = k.taken
        <4>. DEFINE P == Q \cup {b}
        <4>1. /\ b \in Blocks /\ b \notin Q /\ b # a /\ Alive(u)
              /\ Erased(u.flash, b)
          <5>1. b \notin Idle(k)
            BY <2>5, <3>3 DEF Core, Shape, Owned
          <5>2. Erased(u.flash, b)
            BY <2>5, <3>3, <5>1, StaysErased
          <5>. QED
            BY <2>1, <2>5, <3>3, <5>2 DEF Core, Shape
        <4>2. /\ SameTables(s, u) /\ u.target = NoPpn
              /\ Carries(s, u, Q)
          <5>1. Carries(s, k, Q)
            BY <2>5, StaysCarries DEF Core, Q
          <5>2. Carries(k, u, Q \cup {k.taken})
            BY <2>5, <3>3, StaysCarries DEF Core
          <5>3. Carries(k, u, Q)
            <6>1. Q \subseteq Q \cup {k.taken}
              OBVIOUS
            <6>. QED
              BY <5>2, <6>1, CarriesFacts
          <5>. QED
            BY <2>5, <3>3, <5>1, <5>3, CarriesFacts DEF Stays, SameTables
        <4>3. SeqSound(u, P)
          BY <1>1, <2>1, <4>2, SeqCarried DEF Q
        <4>4. u.seq = s.seq
          BY <4>2 DEF SameTables
        <4>5. /\ Core(m, P)
              /\ SameTables(u, m) /\ m.target = NoPpn
              /\ Carries(u, m, Without(P, b))
              /\ Wear(m, D, e)
              /\ CopiedHome(m, l, b)
          <5>1. b \in P
            OBVIOUS
          <5>. HIDE DEF P
          <5>2. Core(u, P)
            BY <3>3 DEF P
          <5>. QED
            BY <1>3, <3>3, <4>1, <4>2, <4>3, <4>4, <5>1, <5>2, MergedSequentialEffect DEF m
        <4>6. /\ Core(n, {b})
              /\ SameTables(m, n) /\ n.target = NoPpn /\ n.flash = m.flash
              /\ KeepsCold(m, n)
              /\ Wear(n, Without(D, a), e)
          <5>1. a \in P /\ Without(P, a) = {b} /\ a \in D
            <6>1. a \in D
              BY <2>1 DEF Q
            <6>. QED
              BY <2>1, <4>1, <6>1 DEF Without
          <5>. HIDE DEF P
          <5>2. Core(m, P) /\ m.target = NoPpn /\ Wear(m, D, e) /\ a \in P /\ a \in D
            BY <4>5, <5>1
          <5>3. n = GiveBack(m, a, "DATA")
            BY DEF n
          <5>4. /\ Core(n, Without(P, a))
                /\ SameTables(m, n) /\ n.target = m.target /\ n.flash = m.flash
                /\ KeepsCold(m, n)
                /\ Wear(n, Without(D, a), e)
            <6>. HIDE DEF a
            <6>. QED
              BY <5>2, <5>3, GiveBackEffect
          <5>. QED
            BY <4>5, <5>1, <5>4
        <4>7. n.data_list = s.data_list /\ n.ring = s.ring /\ n.log_page_next = s.log_page_next
              /\ n.seq = s.seq
          BY <4>2, <4>5, <4>6 DEF SameTables
        <4>8. CopiedHome(n, l, b)
          BY <4>5, <4>6, CopiedHomeKept
        <4>9. t = Remapped(n, l, b)
          BY <2>2, <4>1, <4>7 DEF g, HasData, Rehomed, OldGivenBack, Remapped
        <4>10. HasData(n, l) => n.data_list[l] \in Without(D, a)
          <5>1. HasData(n, l) => n.data_list[l] \in DataSet(s)
            BY <2>1, <4>7 DEF HasData, DataSet, Mapped
          <5>2. DataSet(s) \subseteq D /\ a \notin DataSet(s)
            BY <1>1, <2>1 DEF Owned, Q
          <5>. QED
            BY <5>1, <5>2 DEF Without
        <4>11. /\ Core(t, {})
               /\ t.ring = n.ring /\ t.log_page_next = n.log_page_next /\ t.seq = n.seq
               /\ t.target = n.target
               /\ KeepsCold(n, t)
               /\ Wear(t, Without(Without(D, a), n.data_list[l]), e)
          <5>. DEFINE P1 == {b}
          <5>1. b \in P1 /\ Without(P1, b) = {} /\ Core(n, P1)
            BY <4>6 DEF Without
          <5>. HIDE DEF P1
          <5>. DEFINE E == Without(D, a)
          <5>2. Wear(n, E, e) /\ (HasData(n, l) => n.data_list[l] \in E)
            BY <4>6, <4>10
          <5>. HIDE DEF E
          <5>3. l \in Lbas
            BY <2>1
          <5>4. /\ Core(t, Without(P1, b))
                /\ t.ring = n.ring /\ t.log_page_next = n.log_page_next /\ t.seq = n.seq
                /\ t.target = n.target
                /\ KeepsCold(n, t)
                /\ Wear(t, Without(E, n.data_list[l]), e)
            <6>1. b \in P1 /\ Core(n, P1) /\ n.target = NoPpn
              BY <4>6, <5>1
            <6>. HIDE DEF l
            <6>. QED
              BY <4>8, <4>9, <5>2, <5>3, <6>1, RemapEffect
          <5>. QED
            BY <5>1, <5>4 DEF E
        <4>12. KeepsCold(s, t)
          BY <4>2, <4>5, <4>6, <4>11, KeepsColdFacts DEF Carries
        <4>13. Wear(t, {}, e)
          BY <4>11, WearLess DEF Without
        <4>. QED
          BY <4>6, <4>7, <4>11, <4>12, <4>13 DEF SwMerged
      <3>. QED
        BY <3>1, <3>2, <3>3
    <2>. QED
      BY <2>3, <2>4, <2>5
  <1>. QED
    BY <1>2, <1>3

\* A full SW log block has the pages of its logical block.
LEMMA SwitchEffect ==
  ASSUME NEW s, Core(s, SequentialSet(s)), SeqSound(s, SequentialSet(s)), s.target = NoPpn,
         s.seq.offset = BLOCK_SIZE,
         NEW D, NEW e, Wear(s, D, e), DataSet(s) \cup SequentialSet(s) \subseteq D,
         NEW t, t = switch_sequential(s)
  PROVE  SwMerged(s, t, e)
  <1>. DEFINE Q == SequentialSet(s)
              l == s.seq.lba
              b == s.seq.address
  <1>1. s \in Tables /\ Owned(s, Q) /\ Alive(s)
    BY DEF Core, Shape
  <1>2. l # NoLba /\ l \in Lbas /\ b \in Q /\ Q = {b}
    <2>1. l # NoLba
      BY Numbers DEF SeqSound
    <2>. QED
      BY <1>1, <2>1, RecordFacts DEF SeqSound, SequentialSet
  <1>3. t = Remapped(s, l, b)
    BY <1>2 DEF switch_sequential, Rehomed, OldGivenBack, Remapped
  <1>4. CopiedHome(s, l, b)
    <2>. SUFFICES ASSUME NEW lpn \in Lpns, lba(lpn) = l, Quiet(s, lpn)
                  PROVE  FALSE
      BY DEF CopiedHome
    <2>1. off(lpn) \in Offsets
      BY LpnFacts
    <2>2. BLOCK_SIZE > off(lpn)
      BY <2>1, Numbers DEF Offsets
    <2>. QED
      BY <2>2 DEF Quiet, InSequential
  <1>5. HasData(s, l) => s.data_list[l] \in D
    BY <1>2 DEF DataSet, Mapped
  <1>. HIDE DEF Q
  <1>6. /\ Core(t, Without(Q, b))
        /\ t.ring = s.ring /\ t.log_page_next = s.log_page_next /\ t.seq = s.seq
        /\ t.target = s.target
        /\ KeepsCold(s, t)
        /\ Wear(t, Without(D, s.data_list[l]), e)
    <2>1. Core(s, Q)
      BY DEF Q
    <2>2. l \in Lbas /\ b \in Q
      BY <1>2
    <2>. HIDE DEF l, b
    <2>. QED
      BY <1>3, <1>4, <1>5, <2>1, <2>2, RemapEffect
  <1>8. Wear(t, {}, e)
    BY <1>6, WearLess DEF Without
  <1>9. Without(Q, b) = {}
    BY <1>2 DEF Without
  <1>. QED
    BY <1>6, <1>8, <1>9 DEF SwMerged


---------------------------------------------------------------------------
(* A logical block is merged with its pages in the log.                    *)

\* Clearing entries leaves blocks alone, and the log fewer logical pages.
LEMMA ClearEffect ==
  ASSUME NEW s, NEW Q, Core(s, Q), NEW D, NEW e, Wear(s, D, e), NEW E,
         NEW t, t = ClearEntries(s, E)
  PROVE  /\ Core(t, Q) /\ Carries(s, t, Q) /\ Wear(t, D, e)
         /\ RingKept(s, t) /\ t.data_list = s.data_list
  <1>1. /\ s \in Tables /\ Alive(s) /\ ListsSound(s.bm) /\ Clean(s.flash)
        /\ Owned(s, Q) /\ Counted(s, Q)
        /\ \A b \in Available(s) : Erased(s.flash, b)
        /\ RingPages(s) /\ EntriesMapped(s) /\ TargetFree(s)
    BY DEF Core, Shape
  <1>2. /\ t \in Tables
        /\ t.flash = s.flash /\ t.bm = s.bm /\ t.data_list = s.data_list
        /\ t.log_page_next = s.log_page_next /\ t.seq = s.seq
        /\ t.taken = s.taken /\ t.target = s.target /\ t.abort = s.abort
        /\ RingKept(s, t)
        /\ \A n \in 1 .. Len(s.ring), i \in Offsets :
             t.ring[n].aPages[i] = IF <<n, i>> \in E THEN NoLpn ELSE s.ring[n].aPages[i]
    BY <1>1, ClearType
  <1>3. /\ Len(t.ring) = Len(s.ring)
        /\ \A n \in 1 .. Len(s.ring) : /\ t.ring[n].address = s.ring[n].address
                                       /\ t.ring[n].numPages = s.ring[n].numPages
    BY <1>2 DEF RingKept
  <1>4. /\ Available(t) = Available(s) /\ Waiting(t) = Waiting(s) /\ Idle(t) = Idle(s)
        /\ Mapped(t) = Mapped(s) /\ DataSet(t) = DataSet(s) /\ LogSet(t) = LogSet(s)
    <2>1. /\ t.bm = s.bm /\ t.data_list = s.data_list
      BY <1>2
    <2>2. /\ Available(t) = Available(s) /\ Waiting(t) = Waiting(s) /\ Idle(t) = Idle(s)
      BY <2>1 DEF Available, Waiting, Idle
    <2>3. Mapped(t) = Mapped(s) /\ DataSet(t) = DataSet(s)
      BY <2>1 DEF Mapped, DataSet, HasData
    <2>4. LogSet(t) = LogSet(s)
      BY <1>3 DEF LogSet
    <2>. QED
      BY <2>2, <2>3, <2>4
  <1>5. Owned(t, Q) /\ Counted(t, Q)
    BY <1>1, <1>2, <1>3, <1>4 DEF Owned, Counted
  <1>6. RingPages(t) /\ TargetFree(t)
    BY <1>1, <1>2, <1>3, <1>4 DEF RingPages, TargetFree
  <1>7. EntriesMapped(t)
    <2>. SUFFICES ASSUME NEW n \in 1 .. Len(s.ring), NEW i \in Offsets,
                         i < s.ring[n].numPages, t.ring[n].aPages[i] # NoLpn
                  PROVE  HasData(s, lba(t.ring[n].aPages[i]))
      BY <1>2, <1>3 DEF EntriesMapped, HasData
    <2>1. t.ring[n].aPages[i] = s.ring[n].aPages[i]
      BY <1>2
    <2>. QED
      BY <1>1, <2>1 DEF EntriesMapped
  <1>8. Core(t, Q)
    BY <1>1, <1>2, <1>4, <1>5, <1>6, <1>7 DEF Core, Shape, Alive
  <1>9. KeepsCold(s, t)
    <2>. SUFFICES ASSUME NEW lpn \in Lpns, Quiet(s, lpn)
                  PROVE  /\ Quiet(t, lpn)
                         /\ AtHome(t, lpn) <=> AtHome(s, lpn)
                         /\ HomePage(t, lpn) = HomePage(s, lpn)
      BY <1>2 DEF KeepsCold
    <2>1. AtHome(t, lpn) <=> AtHome(s, lpn)
      BY <1>2 DEF AtHome, HasData, HomePage, Valid
    <2>2. HomePage(t, lpn) = HomePage(s, lpn)
      BY <1>2 DEF HomePage
    <2>3. LogEntries(t, lpn) = {}
      <3>1. lpn # NoLpn
        BY Numbers
      <3>2. LogEntries(s, lpn) = {}
        BY DEF Quiet
      <3>. SUFFICES ASSUME NEW n \in 1 .. Len(s.ring), NEW i \in Offsets,
                           i < s.ring[n].numPages, t.ring[n].aPages[i] = lpn
                    PROVE  FALSE
        BY <1>3 DEF LogEntries
      <3>3. s.ring[n].aPages[i] = lpn
        BY <1>2, <3>1
      <3>4. <<n, i>> \in LogEntries(s, lpn)
        BY <3>3 DEF LogEntries
      <3>. QED
        BY <3>2, <3>4
    <2>. QED
      BY <1>2, <2>1, <2>2, <2>3 DEF Quiet, InSequential
  <1>10. Carries(s, t, Q) /\ Wear(t, D, e)
    BY <1>2, <1>4, <1>9 DEF Carries, SameBlock, Wear
  <1>. QED
    BY <1>2, <1>8, <1>10

\* Offset i of logical block l is in no entry the merge looks at.
Unlogged(s, l, i) == MergeEntries(s, l * BLOCK_SIZE + i) = {}

\* Log pages were copied into b.
LogPart(s, u, b, l) ==
  /\ CopiesInto(s, u, b)
  /\ \A i \in Offsets : Unlogged(s, l, i) => u.flash.page[<<b, i>>] = "EMPTY"

\* And then the pages of data block h up to offset n.
DataPart(s, u, b, l, h, n) ==
  /\ CopiesInto(s, u, b)
  /\ \A i \in Offsets : Unlogged(s, l, i) =>
       IF i < n /\ Valid(s, <<h, i>>)
         THEN /\ u.flash.page[<<b, i>>] = "VALID"
              /\ u.flash.data[<<b, i>>] = s.flash.data[<<h, i>>]
         ELSE u.flash.page[<<b, i>>] = "EMPTY"

\* A turn of the scan of the log.
LEMMA LogTurn ==
  ASSUME NEW s, NEW Q, Core(s, Q), NEW l \in Lbas, NEW b \in Q,
         NEW u, LogPart(s, u, b, l),
         NEW e \in (1 .. Len(s.ring)) \X Offsets, NEW v, v = MergeLogPage(u, l, b, e)
  PROVE  LogPart(s, v, b, l)
  <1>1. s \in Tables /\ Owned(s, Q) /\ b \in Blocks
    BY DEF Core, Shape, Owned
  <1>2. CopiesInto(s, u, b) /\ u \in Tables /\ u.ring = s.ring
    BY DEF LogPart, CopiesInto, OnlyPrograms, SameTables
  <1>3. v = u \/ LogCopied(u, v, l, b, e)
    BY <1>1, <1>2, MergeLogPageType
  <1>4. CASE v = u
    BY <1>4
  <1>5. CASE LogCopied(u, v, l, b, e)
    <2>1. PICK lpn \in Lpns :
            /\ lba(lpn) = l /\ e \in MergeEntries(u, lpn)
            /\ u.flash.page[<<b, off(lpn)>>] = "EMPTY"
            /\ LogPage(u, e) \in Ppns
            /\ v = MergePage(u, LogPage(u, e), b, off(lpn))
      BY <1>5 DEF LogCopied
    <2>2. off(lpn) \in Offsets /\ lpn = l * BLOCK_SIZE + off(lpn)
      BY <2>1, LpnFacts
    <2>3. LogPage(u, e)[1] # b
      <3>1. e[1] \in 1 .. Len(s.ring)
        OBVIOUS
      <3>2. s.ring[e[1]].address \in LogSet(s)
        BY <3>1 DEF LogSet
      <3>3. s.ring[e[1]].address # b
        BY <1>1, <3>2 DEF Owned
      <3>. QED
        BY <1>2, <3>3 DEF LogPage
    <2>. DEFINE p == LogPage(u, e)
                n == off(lpn)
    <2>4. /\ p \in Ppns /\ p[1] # b /\ n \in Offsets
          /\ u.flash.page[<<b, n>>] = "EMPTY" /\ v = MergePage(u, p, b, n)
      BY <2>1, <2>2, <2>3
    <2>. HIDE DEF p, n
    <2>5. CopiesInto(s, v, b) /\ HasCopy(s, u, v, b, n, p)
      BY <1>1, <1>2, <2>4, CopyStep
    <2>6. ~Unlogged(s, l, n)
      <3>1. MergeEntries(u, lpn) = MergeEntries(s, lpn)
        BY <1>2 DEF MergeEntries, LogEntries
      <3>. QED
        BY <2>1, <2>2, <3>1 DEF Unlogged, n
    <2>7. ASSUME NEW i \in Offsets, Unlogged(s, l, i)
          PROVE  v.flash.page[<<b, i>>] = "EMPTY"
      <3>1. i # n
        BY <2>6, <2>7
      <3>2. u.flash.page[<<b, i>>] = "EMPTY"
        BY <2>7 DEF LogPart
      <3>. QED
        BY <2>5, <3>1, <3>2 DEF HasCopy
    <2>. QED
      BY <2>5, <2>7 DEF LogPart
  <1>. QED
    BY <1>3, <1>4, <1>5

\* The whole scan.
LEMMA MergedLogEffect ==
  ASSUME NEW s, NEW Q, Core(s, Q), NEW l \in Lbas, NEW b \in Q, Erased(s.flash, b)
  PROVE  LogPart(s, MergedLog(s, l, b), b, l)
  <1>. DEFINE N == Len(s.ring) * BLOCK_SIZE
  <1>1. s \in Tables /\ Alive(s) /\ b \in Blocks
    BY DEF Core, Shape, Owned
  <1>2. N \in Nat
    <2>1. Len(s.ring) \in Nat /\ BLOCK_SIZE \in Nat
      BY <1>1, RecordFacts, Numbers
    <2>. QED
      BY <2>1
  <1>3. PICK run : /\ run[0] = s /\ run[N] = MergedLog(s, l, b)
                   /\ \A n \in 0 .. N : OnlyPrograms(s, run[n])
                   /\ \A n \in 0 .. N - 1 :
                        run[n + 1] = MergeLogPage(run[n], l, b, ScanEntry(s, n))
    BY <1>1, MergedLogRun
  <1>4. \A n \in 0 .. N - 1 : ScanEntry(s, n) \in (1 .. Len(s.ring)) \X Offsets
    BY <1>1, ScanFacts
  <1>. DEFINE Good == {n \in 0 .. N : LogPart(s, run[n], b, l)}
  <1>. HIDE DEF N
  <1>5. 0 \in Good
    <2>1. LogPart(s, s, b, l)
      BY <1>1, NoCopy DEF LogPart, Erased
    <2>. QED
      BY <1>2, <1>3, <2>1
  <1>6. ASSUME NEW n \in 0 .. N - 1, n \in Good
        PROVE  n + 1 \in Good
    <2>1. n + 1 \in 0 .. N /\ LogPart(s, run[n], b, l)
      BY <1>2, <1>6
    <2>2. LogPart(s, run[n + 1], b, l)
      BY <1>3, <1>4, <2>1, LogTurn
    <2>. QED
      BY <2>1, <2>2
  <1>. HIDE DEF Good
  <1>7. N \in Good
    <2>1. \A n \in 0 .. N : n \in Good
      BY <1>2, <1>5, <1>6, Reaches
    <2>. QED
      BY <1>2, <2>1
  <1>. QED
    BY <1>3, <1>7 DEF Good

\* A turn of the loop over the data block.
LEMMA DataTurn ==
  ASSUME NEW s \in Tables, NEW l \in Lbas, HasData(s, l), NEW b \in Blocks,
         NEW h \in Blocks, h = s.data_list[l], h # b, NEW n \in Offsets,
         NEW u, DataPart(s, u, b, l, h, n),
         NEW v, v = MergePage(u, DataSource(u, l, b, n), b, n)
  PROVE  DataPart(s, v, b, l, h, n + 1)
  <1>1. /\ ~(n < n) /\ n < n + 1
        /\ \A i \in Offsets : i # n => (i < n + 1 <=> i < n)
    BY Numbers DEF Offsets
  <1>2. /\ CopiesInto(s, u, b) /\ u.data_list = s.data_list
        /\ SameBlock(s.flash, u.flash, h)
    BY DEF DataPart, CopiesInto, OnlyPrograms, SameTables
  <1>3. DataPageAt(u, l, n) = <<h, n>>
    BY <1>2 DEF DataPageAt, HasData
  <1>4. Valid(u, <<h, n>>) <=> Valid(s, <<h, n>>)
    BY <1>2 DEF Valid, SameBlock
  <1>5. <<h, n>> \in Ppns /\ <<h, n>> # NoPpn
    <2>1. <<h, n>> \in Ppns
      BY DEF Ppns
    <2>. QED
      BY <2>1, NoPpnNotPage
  <1>6. CASE u.flash.page[<<b, n>>] = "EMPTY" /\ Valid(s, <<h, n>>)
    <2>1. v = MergePage(u, <<h, n>>, b, n)
      BY <1>3, <1>4, <1>6 DEF DataSource
    <2>. DEFINE p == <<h, n>>
    <2>2. p \in Ppns /\ p[1] # b /\ v = MergePage(u, p, b, n)
      BY <1>5, <2>1
    <2>. HIDE DEF p
    <2>3. CopiesInto(s, v, b) /\ HasCopy(s, u, v, b, n, p)
      BY <1>2, <1>6, <2>2, CopyStep
    <2>4. ASSUME NEW i \in Offsets, Unlogged(s, l, i)
          PROVE  IF i < n + 1 /\ Valid(s, <<h, i>>)
                   THEN /\ v.flash.page[<<b, i>>] = "VALID"
                        /\ v.flash.data[<<b, i>>] = s.flash.data[<<h, i>>]
                   ELSE v.flash.page[<<b, i>>] = "EMPTY"
      <3>1. CASE i = n
        BY <1>1, <1>6, <2>3, <3>1 DEF HasCopy, p
      <3>2. CASE i # n
        BY <1>1, <2>3, <2>4, <3>2 DEF HasCopy, DataPart
      <3>. QED
        BY <3>1, <3>2
    <2>. QED
      BY <2>3, <2>4 DEF DataPart
  <1>7. CASE ~(u.flash.page[<<b, n>>] = "EMPTY" /\ Valid(s, <<h, n>>))
    <2>1. v = u
      BY <1>3, <1>4, <1>7 DEF DataSource, MergePage
    <2>2. ASSUME NEW i \in Offsets, Unlogged(s, l, i)
          PROVE  IF i < n + 1 /\ Valid(s, <<h, i>>)
                   THEN /\ u.flash.page[<<b, i>>] = "VALID"
                        /\ u.flash.data[<<b, i>>] = s.flash.data[<<h, i>>]
                   ELSE u.flash.page[<<b, i>>] = "EMPTY"
      <3>1. CASE i = n
        <4>1. u.flash.page[<<b, n>>] = "EMPTY"
          BY <1>1, <2>2, <3>1 DEF DataPart
        <4>. QED
          BY <1>7, <3>1, <4>1
      <3>2. CASE i # n
        BY <1>1, <2>2, <3>2 DEF DataPart
      <3>. QED
        BY <3>1, <3>2
    <2>. QED
      BY <1>2, <2>1, <2>2 DEF DataPart
  <1>. QED
    BY <1>6, <1>7

\* The new block of a logical block has the pages only its data block had.
LEMMA MergedLbaEffect ==
  ASSUME NEW u, NEW Q, Core(u, Q), u.target = NoPpn,
         NEW l \in Lbas, HasData(u, l),
         NEW b \in Q, Erased(u.flash, b),
         NEW D, NEW e, Wear(u, D, e),
         NEW m, m = MergedLba(u, l, b)
  PROVE  /\ Core(m, Q)
         /\ SameTables(u, m) /\ m.target = u.target /\ m.taken = u.taken
         /\ Carries(u, m, Without(Q, b))
         /\ Wear(m, D, e)
         /\ CopiedHome(m, l, b)
  <1>. DEFINE h == u.data_list[l]
  <1>1. u \in Tables /\ Alive(u) /\ Owned(u, Q) /\ b \in Blocks
    BY DEF Core, Shape, Owned
  <1>2. h \in Blocks /\ h # b
    <2>1. h \in Blocks
      BY <1>1, Numbers, DataFacts
    <2>2. h \in DataSet(u)
      BY <1>1 DEF DataSet, Mapped
    <2>. QED
      BY <1>1, <2>1, <2>2 DEF Owned
  <1>. HIDE DEF h
  <1>3. BLOCK_SIZE \in Nat /\ 0 .. BLOCK_SIZE - 1 = Offsets /\ \A i \in Offsets : ~(i < 0) /\ i < BLOCK_SIZE
    BY Numbers DEF Offsets
  <1>4. PICK run : /\ run[0] = MergedLog(u, l, b) /\ run[BLOCK_SIZE] = m
                   /\ \A n \in 0 .. BLOCK_SIZE : OnlyPrograms(u, run[n])
                   /\ \A n \in Offsets :
                        run[n + 1] = MergePage(run[n], DataSource(run[n], l, b, n), b, n)
    BY <1>1, MergedLbaRun
  <1>. DEFINE Good == {n \in 0 .. BLOCK_SIZE : DataPart(u, run[n], b, l, h, n)}
  <1>5. 0 \in Good
    <2>1. LogPart(u, run[0], b, l)
      BY <1>4, MergedLogEffect
    <2>2. DataPart(u, run[0], b, l, h, 0)
      BY <1>3, <2>1 DEF LogPart, DataPart
    <2>. QED
      BY <1>3, <2>2
  <1>6. ASSUME NEW n \in 0 .. BLOCK_SIZE - 1, n \in Good
        PROVE  n + 1 \in Good
    <2>1. n \in Offsets /\ n + 1 \in 0 .. BLOCK_SIZE /\ DataPart(u, run[n], b, l, h, n)
      BY <1>3, <1>6
    <2>2. run[n + 1] = MergePage(run[n], DataSource(run[n], l, b, n), b, n)
      BY <1>4, <2>1
    <2>3. h = u.data_list[l]
      BY DEF h
    <2>4. DataPart(u, run[n + 1], b, l, h, n + 1)
      BY <1>1, <1>2, <2>1, <2>2, <2>3, DataTurn
    <2>. QED
      BY <2>1, <2>4
  <1>. HIDE DEF Good
  <1>7. DataPart(u, m, b, l, h, BLOCK_SIZE)
    <2>1. \A n \in 0 .. BLOCK_SIZE : n \in Good
      BY <1>3, <1>5, <1>6, Reaches
    <2>. QED
      BY <1>3, <1>4, <2>1 DEF Good
  <1>8. CopiesInto(u, m, b)
    BY <1>7 DEF DataPart
  <1>9. /\ Core(m, Q)
        /\ SameTables(u, m) /\ m.target = u.target /\ m.taken = u.taken
        /\ Carries(u, m, Without(Q, b))
        /\ Wear(m, D, e)
    BY <1>8, CopyKeeps
  <1>10. CopiedHome(m, l, b)
    <2>. SUFFICES ASSUME NEW lpn \in Lpns, lba(lpn) = l, Quiet(m, lpn)
                  PROVE  /\ Valid(m, <<b, off(lpn)>>) <=> AtHome(m, lpn)
                         /\ AtHome(m, lpn) => m.flash.data[<<b, off(lpn)>>]
                                                = m.flash.data[HomePage(m, lpn)]
      BY DEF CopiedHome
    <2>. DEFINE i == off(lpn)
    <2>1. i \in Offsets /\ i < BLOCK_SIZE /\ lpn = l * BLOCK_SIZE + i
      BY LpnFacts, Numbers DEF Offsets
    <2>. HIDE DEF i
    <2>2. m.ring = u.ring /\ m.data_list = u.data_list
      BY <1>9 DEF SameTables
    <2>3. Unlogged(u, l, i)
      BY <2>1, <2>2 DEF Quiet, MergeEntries, LogEntries, Unlogged
    <2>4. IF Valid(u, <<h, i>>)
            THEN /\ m.flash.page[<<b, i>>] = "VALID"
                 /\ m.flash.data[<<b, i>>] = u.flash.data[<<h, i>>]
            ELSE m.flash.page[<<b, i>>] = "EMPTY"
      BY <1>7, <2>1, <2>3 DEF DataPart
    <2>5. HomePage(m, lpn) = <<h, i>> /\ HasData(m, l)
      BY <2>2 DEF HomePage, HasData, h, i
    <2>6. m.flash.page[<<h, i>>] = u.flash.page[<<h, i>>]
          /\ m.flash.data[<<h, i>>] = u.flash.data[<<h, i>>]
      <3>1. SameBlock(u.flash, m.flash, h)
        BY <1>2, <1>8 DEF CopiesInto
      <3>. QED
        BY <2>1, <3>1 DEF SameBlock
    <2>. QED
      BY <2>4, <2>5, <2>6 DEF AtHome, Valid, i
  <1>. QED
    BY <1>9, <1>10


\* The two ways to write the end of a round of random_merge.
LEMMA RemapClears ==
  ASSUME NEW m \in Tables, Alive(m), NEW l \in Lbas, HasData(m, l), NEW b \in Blocks, NEW E,
         NEW g, g = GiveBack(ClearEntries(m, E), m.data_list[l], "DATA")
  PROVE  [g EXCEPT !.data_list = [g.data_list EXCEPT ![l] = b]]
           = ClearEntries(Remapped(m, l, b), E)
  <1>. DEFINE c == ClearEntries(m, E)
              r == [n \in DOMAIN m.ring |->
                      [m.ring[n] EXCEPT !.aPages = ClearedPages(m, n, E)]]
              k == InvalidateBlock(m.bm, m.data_list[l], "DATA")
              d == [m.data_list EXCEPT ![l] = b]
              x == Remapped(m, l, b)
  <1>1. m \in Records /\ c = [m EXCEPT !.ring = r]
    BY RecordFacts DEF ClearEntries
  <1>2. g = [m EXCEPT !.ring = r, !.bm = k]
    <2>1. c \in Tables /\ Alive(c) /\ c.bm = m.bm
      BY ClearType DEF Alive
    <2>2. g = [c EXCEPT !.bm = k]
      BY <2>1 DEF GiveBack
    <2>. HIDE DEF k, r, c
    <2>. QED
      BY <1>1, <2>2 DEF Records
  <1>3. x = [m EXCEPT !.bm = k, !.data_list = d]
    <2>1. OldGivenBack(m, l) = [m EXCEPT !.bm = k]
      BY DEF OldGivenBack, GiveBack
    <2>2. x = [OldGivenBack(m, l) EXCEPT !.data_list = [OldGivenBack(m, l).data_list EXCEPT ![l] = b]]
      BY DEF Remapped, Rehomed
    <2>3. OldGivenBack(m, l).data_list = m.data_list
      BY <1>1, <2>1 DEF Records
    <2>. HIDE DEF k, x
    <2>. QED
      BY <1>1, <2>1, <2>2, <2>3 DEF Records
  <1>4. x.ring = m.ring
    <2>. HIDE DEF k, d, x
    <2>. QED
      BY <1>1, <1>3 DEF Records
  <1>5. ClearEntries(x, E) = [x EXCEPT !.ring = r]
    BY <1>4 DEF ClearEntries, ClearedPages
  <1>6. g.data_list = m.data_list
    <2>. HIDE DEF k, r
    <2>. QED
      BY <1>1, <1>2 DEF Records
  <1>. HIDE DEF k, r, x, d
  <1>7. [g EXCEPT !.data_list = d] = [x EXCEPT !.ring = r]
    BY <1>1, <1>2, <1>3 DEF Records
  <1>. QED
    BY <1>5, <1>6, <1>7 DEF x, d

\* A logical block has moved, every other one is where it was.
LbaMerged(s, t, Q, l) ==
  /\ Core(t, Q) /\ Carries(s, t, Q) /\ RingKept(s, t)
  /\ \A m \in Lbas : /\ HasData(t, m) <=> HasData(s, m)
                     /\ m # l => t.data_list[m] = s.data_list[m]

\* One round of random_merge.
LEMMA MergeLbaEffect ==
  ASSUME NEW s, NEW Q, Core(s, Q), Cardinality(Q) <= 1, s.target = NoPpn,
         NEW l \in Lbas, HasData(s, l),
         NEW D, NEW e, Wear(s, D, e), s.data_list[l] \in D,
         NEW t, t = MergeLba(s, l)
  PROVE  EndsWorn(t, e) \/ (LbaMerged(s, t, Q, l) /\ Wear(t, Without(D, s.data_list[l]), e))
  <1>. DEFINE h == s.data_list[l]
              r == MakeRoom(s)
              u == TakeBlock(r, "DATA")
              b == u.taken
              m == MergedLba(u, l, b)
              E == Superseded(u, l, b)
              g == GiveBack(ClearEntries(m, E), DataBlockAt(u, l), "DATA")
              P == Q \cup {b}
              x == Remapped(m, l, b)
  <1>1. s \in Tables /\ Owned(s, Q) /\ Alive(s)
    BY DEF Core, Shape
  <1>2. t = IF ~Alive(u) THEN u ELSE [g EXCEPT !.data_list = [g.data_list EXCEPT ![l] = b]]
    BY DEF MergeLba
  <1>. HIDE DEF r, u, b, m, E, g, x
  <1>3. EndsWorn(r, e) \/ (Core(r, Q) /\ Stays(s, r) /\ Wear(r, D, e))
    BY MakeRoomEffect DEF r
  <1>4. CASE EndsWorn(r, e)
    <2>1. u = r /\ ~Alive(u)
      BY <1>4, DeadStops DEF u, TakeBlock
    <2>. QED
      BY <1>2, <1>4, <2>1
  <1>5. CASE Core(r, Q) /\ Stays(s, r) /\ Wear(r, D, e)
    <2>1. \/ EndsWorn(u, e)
          \/ /\ Core(u, Q \cup {b}) /\ Stays(r, u) /\ Wear(u, D, e)
             /\ b \in Blocks /\ b \notin Q
             /\ Erased(u.flash, b)
      BY <1>5, TakeDataEffect DEF u, b
    <2>2. CASE EndsWorn(u, e)
      BY <1>2, <2>2, DeadStops
    <2>3. CASE /\ Core(u, Q \cup {b}) /\ Stays(r, u) /\ Wear(u, D, e)
               /\ b \in Blocks /\ b \notin Q
               /\ Erased(u.flash, b)
      <3>1. /\ SameTables(s, u) /\ u.target = NoPpn /\ Alive(u)
            /\ Carries(s, u, Q)
        <4>1. Carries(s, r, Q)
          BY <1>5, StaysCarries DEF Core
        <4>2. Carries(r, u, Q)
          BY <1>5, <2>3, StaysCarries DEF Core
        <4>. QED
          BY <1>5, <2>3, <4>1, <4>2, CarriesFacts DEF Stays, SameTables, Core, Shape
      <3>2. HasData(u, l) /\ u.data_list = s.data_list
        BY <3>1 DEF SameTables, HasData
      <3>3. b \in P /\ Core(u, P) /\ Without(P, b) = Q
        BY <2>3 DEF Without
      <3>. HIDE DEF P
      <3>4. /\ Core(m, P)
            /\ SameTables(u, m) /\ m.target = u.target
            /\ Carries(u, m, Without(P, b))
            /\ Wear(m, D, e)
            /\ CopiedHome(m, l, b)
        BY <2>3, <3>1, <3>2, <3>3, MergedLbaEffect DEF m
      <3>5. HasData(m, l) /\ m.data_list = s.data_list /\ m.ring = s.ring /\ m.seq = s.seq
            /\ m.log_page_next = s.log_page_next
        BY <3>1, <3>2, <3>4 DEF SameTables, HasData
      <3>6. /\ Core(x, Without(P, b))
            /\ x.ring = m.ring /\ x.log_page_next = m.log_page_next /\ x.seq = m.seq
            /\ x.target = m.target /\ x.flash = m.flash
            /\ \A k \in Lbas : x.data_list[k] = IF k = l THEN b ELSE m.data_list[k]
            /\ KeepsCold(m, x)
            /\ Wear(x, Without(D, m.data_list[l]), e)
        <4>1. m.target = NoPpn /\ (HasData(m, l) => m.data_list[l] \in D)
          BY <3>1, <3>4, <3>5
        <4>2. Core(m, P) /\ CopiedHome(m, l, b) /\ Wear(m, D, e)
          BY <3>4
        <4>. QED
          BY <3>3, <4>1, <4>2, RemapEffect DEF x
      <3>7. t = ClearEntries(x, E)
        <4>1. m \in Tables /\ Alive(m)
          BY <3>4 DEF Core, Shape
        <4>2. DataBlockAt(u, l) = m.data_list[l]
          BY <3>2, <3>5 DEF DataBlockAt
        <4>3. g = GiveBack(ClearEntries(m, E), m.data_list[l], "DATA")
          BY <4>2 DEF g
        <4>. QED
          BY <1>2, <2>3, <3>1, <3>5, <4>1, <4>3, RemapClears DEF x
      <3>. DEFINE F == Without(D, h)
      <3>8. Core(x, Q) /\ Wear(x, F, e)
        BY <3>3, <3>5, <3>6
      <3>. HIDE DEF F
      <3>9. /\ Core(t, Q) /\ Carries(x, t, Q) /\ Wear(t, F, e)
            /\ RingKept(x, t) /\ t.data_list = x.data_list
        BY <3>7, <3>8, ClearEffect
      <3>10. Carries(s, t, Q)
        <4>1. Carries(m, x, Q)
          BY <3>6 DEF Carries, SameBlock
        <4>2. Carries(u, m, Q)
          BY <3>3, <3>4
        <4>. QED
          BY <3>1, <3>9, <4>1, <4>2, CarriesFacts
      <3>11. RingKept(s, t)
        BY <3>5, <3>6, <3>9 DEF RingKept
      <3>12. \A k \in Lbas : /\ HasData(t, k) <=> HasData(s, k)
                             /\ k # l => t.data_list[k] = s.data_list[k]
        <4>1. b # NoBlock
          BY <2>3, Numbers
        <4>. QED
          BY <3>5, <3>6, <3>9, <4>1 DEF HasData
      <3>. QED
        BY <3>9, <3>10, <3>11, <3>12 DEF LbaMerged, F
    <2>. QED
      BY <2>1, <2>2, <2>3
  <1>. QED
    BY <1>3, <1>4, <1>5


\* The blocks of D but for the data blocks of the first k logical blocks.
Pending(s, D, k) == {b \in D : \A m \in Lbas : m < k => s.data_list[m] # b}

\* k logical blocks have been looked at.
Rounds(s, u, Q, D, e, k) ==
  \/ EndsWorn(u, e)
  \/ /\ Core(u, Q) /\ Carries(s, u, Q) /\ RingKept(s, u)
     /\ \A m \in Lbas : /\ HasData(u, m) <=> HasData(s, m)
                        /\ m >= k => u.data_list[m] = s.data_list[m]
     /\ Wear(u, Pending(s, D, k), e)

\* A round or none.
LEMMA MergeTurnEffect ==
  ASSUME NEW s, NEW Q, Core(s, Q), Cardinality(Q) <= 1, s.target = NoPpn,
         NEW v, \A m \in MergedLbas(v) : HasData(s, m),
         NEW D, NEW e, DataSet(s) \subseteq D,
         NEW l \in Lbas, NEW u, Rounds(s, u, Q, D, e, l),
         NEW t, t = MergeTurn(u, v, l)
  PROVE  Rounds(s, t, Q, D, e, l + 1)
  <1>1. s \in Tables /\ Owned(s, Q)
    BY DEF Core, Shape
  <1>2. \A m \in Lbas : m \in Int /\ (m < l + 1 <=> m < l \/ m = l) /\ (m >= l + 1 => m >= l /\ m # l)
    BY DEF Lbas
  <1>3. CASE EndsWorn(u, e)
    <2>1. ~Alive(u)
      BY <1>3, DeadStops
    <2>2. MergeLba(u, l) = u
      BY <2>1 DEF MergeLba, MakeRoom, TakeBlock
    <2>. QED
      BY <1>3, <2>2 DEF MergeTurn, Rounds
  <1>4. CASE /\ Core(u, Q) /\ Carries(s, u, Q) /\ RingKept(s, u)
             /\ \A m \in Lbas : /\ HasData(u, m) <=> HasData(s, m)
                                /\ m >= l => u.data_list[m] = s.data_list[m]
             /\ Wear(u, Pending(s, D, l), e)
    <2>. DEFINE F == Pending(s, D, l)
    <2>1. CASE l \notin MergedLbas(v)
      <3>1. t = u
        BY <2>1 DEF MergeTurn
      <3>2. Pending(s, D, l + 1) \in SUBSET F
        BY <1>2 DEF Pending
      <3>3. Wear(u, Pending(s, D, l + 1), e)
        BY <1>4, <3>2, WearLess
      <3>. QED
        BY <1>2, <1>4, <3>1, <3>3 DEF Rounds
    <2>2. CASE l \in MergedLbas(v)
      <3>1. t = MergeLba(u, l) /\ HasData(u, l) /\ u.data_list[l] = s.data_list[l] /\ HasData(s, l)
        <4>1. l >= l
          BY <1>2
        <4>. QED
          BY <1>4, <2>2, <4>1 DEF MergeTurn
      <3>2. u.data_list[l] \in F
        <4>1. s.data_list[l] \in DataSet(s)
          BY <3>1 DEF DataSet, Mapped
        <4>2. \A m \in Lbas : m < l => s.data_list[m] # s.data_list[l]
          <5>. SUFFICES ASSUME NEW m \in Lbas, m < l, s.data_list[m] = s.data_list[l] PROVE FALSE
            OBVIOUS
          <5>1. m \in Mapped(s) /\ l \in Mapped(s)
            BY <3>1 DEF Mapped, HasData
          <5>2. m = l
            BY <1>1, <5>1 DEF Owned
          <5>. QED
            BY <1>2, <5>2
        <4>. QED
          BY <3>1, <4>1, <4>2 DEF Pending
      <3>3. Without(F, u.data_list[l]) = Pending(s, D, l + 1)
        BY <1>2, <3>1 DEF Pending, Without
      <3>. HIDE DEF F
      <3>4. u.target = NoPpn /\ Wear(u, F, e)
        BY <1>4 DEF Carries, F
      <3>5. EndsWorn(t, e) \/ (LbaMerged(u, t, Q, l) /\ Wear(t, Without(F, u.data_list[l]), e))
        BY <1>4, <3>1, <3>2, <3>4, MergeLbaEffect
      <3>6. CASE EndsWorn(t, e)
        BY <3>6 DEF Rounds
      <3>7. CASE LbaMerged(u, t, Q, l) /\ Wear(t, Without(F, u.data_list[l]), e)
        <4>1. Carries(s, t, Q)
          BY <1>4, <3>7, CarriesFacts DEF LbaMerged
        <4>2. RingKept(s, t)
          BY <1>4, <3>7 DEF LbaMerged, RingKept
        <4>3. \A m \in Lbas : /\ HasData(t, m) <=> HasData(s, m)
                              /\ m >= l + 1 => t.data_list[m] = s.data_list[m]
          BY <1>2, <1>4, <3>7 DEF LbaMerged
        <4>. QED
          BY <3>3, <3>7, <4>1, <4>2, <4>3 DEF LbaMerged, Rounds
      <3>. QED
        BY <3>5, <3>6, <3>7
    <2>. QED
      BY <2>1, <2>2
  <1>. QED
    BY <1>3, <1>4 DEF Rounds

\* The logical pages of a used log block belong to logical blocks with data.
LEMMA OldestMapped ==
  ASSUME NEW s, NEW Q, Core(s, Q), s.ring # << >>, NEW m \in MergedLbas(Head(s.ring))
  PROVE  m \in Lbas /\ HasData(s, m)
  <1>1. s.ring \in Seq(LogPageBlock) /\ Len(s.ring) \in Nat /\ Len(s.ring) >= 1
        /\ Head(s.ring) = s.ring[1] /\ s.ring[1] \in LogPageBlock
    <2>1. s.ring \in Seq(LogPageBlock)
      BY RecordFacts DEF Core, Shape
    <2>. QED
      BY <2>1
  <1>2. PICK i \in Offsets : /\ i < s.ring[1].numPages /\ s.ring[1].aPages[i] # NoLpn
                             /\ m = lba(s.ring[1].aPages[i])
    BY <1>1 DEF MergedLbas
  <1>3. HasData(s, m)
    <2>1. 1 \in 1 .. Len(s.ring)
      BY <1>1
    <2>. QED
      BY <1>2, <2>1 DEF Core, Shape, EntriesMapped
  <1>4. s.ring[1].aPages[i] \in Lpns
    BY <1>1, <1>2 DEF LogPageBlock
  <1>. QED
    BY <1>2, <1>3, <1>4, LpnFacts

\* The same logical blocks have a data block.
HomesKept(s, t) == \A l \in Lbas : HasData(t, l) <=> HasData(s, l)

\* random_merge of the oldest log block.
LEMMA RandomMergeEffect ==
  ASSUME NEW s, NEW Q, Core(s, Q), Cardinality(Q) <= 1, s.target = NoPpn, s.ring # << >>,
         NEW D, NEW e, Wear(s, D, e), DataSet(s) \subseteq D,
         NEW t, t = random_merge(s, Head(s.ring))
  PROVE  \/ EndsWorn(t, e)
         \/ /\ Core(t, Q) /\ Carries(s, t, Q) /\ RingKept(s, t) /\ HomesKept(s, t)
            /\ \A F : F \subseteq D /\ F \cap DataSet(s) = {} => Wear(t, F, e)
  <1>. DEFINE v == Head(s.ring)
  <1>1. s \in Tables /\ NumLbas \in Nat /\ 0 .. NumLbas - 1 = Lbas
    BY Numbers DEF Core, Shape, Lbas
  <1>2. \A m \in MergedLbas(v) : HasData(s, m)
    BY OldestMapped
  <1>. HIDE DEF v
  <1>3. PICK run : /\ run[0] = s /\ run[NumLbas] = random_merge(s, v)
                   /\ \A n \in 0 .. NumLbas : run[n] \in Tables /\ Merges(s, run[n])
                   /\ \A l \in Lbas : run[l + 1] = MergeTurn(run[l], v, l)
    <2>1. s \in Tables
      BY <1>1
    <2>2. PICK run : IsMergeRun(s, v, run)
      BY <2>1, RandomMergeRun
    <2>. QED
      BY <2>2 DEF IsMergeRun
  <1>. DEFINE Good == {n \in 0 .. NumLbas : Rounds(s, run[n], Q, D, e, n)}
  <1>4. 0 \in Good
    <2>1. Pending(s, D, 0) = D
      BY DEF Pending, Lbas
    <2>2. RingKept(s, s) /\ Carries(s, s, Q)
      BY CarriesFacts DEF RingKept
    <2>3. Rounds(s, s, Q, D, e, 0)
      BY <2>1, <2>2 DEF Rounds
    <2>. QED
      BY <1>1, <1>3, <2>3
  <1>5. ASSUME NEW n \in 0 .. NumLbas - 1, n \in Good
        PROVE  n + 1 \in Good
    <2>1. n \in Lbas /\ n + 1 \in 0 .. NumLbas /\ Rounds(s, run[n], Q, D, e, n)
      BY <1>1, <1>5
    <2>2. run[n + 1] = MergeTurn(run[n], v, n)
      BY <1>3, <2>1
    <2>3. Rounds(s, run[n + 1], Q, D, e, n + 1)
      BY <1>2, <2>1, <2>2, MergeTurnEffect
    <2>. QED
      BY <2>1, <2>3
  <1>. HIDE DEF Good
  <1>6. NumLbas \in Good
    <2>1. \A n \in 0 .. NumLbas : n \in Good
      BY <1>1, <1>4, <1>5, Reaches
    <2>. QED
      BY <1>1, <2>1
  <1>7. Rounds(s, t, Q, D, e, NumLbas)
    BY <1>3, <1>6 DEF Good, v
  <1>8. CASE EndsWorn(t, e)
    BY <1>8
  <1>9. CASE ~EndsWorn(t, e)
    <2>1. ASSUME NEW F, F \subseteq D, F \cap DataSet(s) = {}
          PROVE  Wear(t, F, e)
      <3>1. \A m \in Lbas : s.data_list[m] \notin F
        <4>. SUFFICES ASSUME NEW m \in Lbas, s.data_list[m] \in F PROVE FALSE
          OBVIOUS
        <4>1. s.data_list[m] # NoBlock
          <5>1. F \subseteq Blocks
            BY <2>1 DEF Wear
          <5>. QED
            BY <5>1, Numbers
        <4>2. s.data_list[m] \in DataSet(s)
          BY <4>1 DEF DataSet, Mapped, HasData
        <4>. QED
          BY <2>1, <4>2
      <3>2. F \in SUBSET Pending(s, D, NumLbas)
        BY <2>1, <3>1 DEF Pending
      <3>3. Wear(t, Pending(s, D, NumLbas), e)
        BY <1>7, <1>9 DEF Rounds
      <3>. QED
        BY <3>2, <3>3, WearLess
    <2>2. HomesKept(s, t)
      BY <1>7, <1>9 DEF Rounds, HomesKept
    <2>. QED
      BY <1>7, <1>9, <2>1, <2>2 DEF Rounds
  <1>. QED
    BY <1>8, <1>9


---------------------------------------------------------------------------
(* The list of log blocks grows and loses its oldest.                      *)

\* A log block more, taken while the list has room.
LEMMA TakeLogEffect ==
  ASSUME NEW s, NEW Q, Core(s, Q), Cardinality(Q) <= 1, Len(s.ring) < FAST_LOG_BLOCK_LIMIT,
         NEW D, NEW e, Wear(s, D, e), NEW t, t = TakeLogBlock(s)
  PROVE  \/ EndsWorn(t, e)
         \/ /\ Core(t, Q) /\ Carries(s, t, Q) /\ Wear(t, D, e)
            /\ Len(t.ring) = Len(s.ring) + 1
  <1>. DEFINE k == TakeBlock(s, "LOG")
              b == k.taken
              r == Append(k.ring, NewLogBlock(b))
              N == Len(s.ring)
              P == Q \cup {b}
              type == "LOG"
  <1>1. s \in Tables /\ Owned(s, Q) /\ Counted(s, Q) /\ N \in Nat /\ Q \subseteq Blocks
    BY RecordFacts DEF Core, Shape, Owned
  <1>2. type \in BlockTypes /\ type # "DATA" /\ type = "LOG" /\ k = TakeBlock(s, type)
    BY DEF BlockTypes
  <1>3. t = IF Alive(k) THEN [k EXCEPT !.ring = r] ELSE k
    BY DEF TakeLogBlock
  <1>. HIDE DEF k, b, type
  <1>4. \/ EndsWorn(k, e)
        \/ /\ Shape(k, P) /\ Stays(s, k) /\ Wear(k, D, e)
           /\ b \in Blocks /\ b \in Idle(s)
           /\ Erased(k.flash, b)
           /\ k.bm.data_active = s.bm.data_active + 0
           /\ k.bm.log_active = s.bm.log_active + 1
    <2>. SUFFICES ASSUME ~EndsWorn(k, e)
                  PROVE  /\ Shape(k, With(Q, k.taken)) /\ Stays(s, k) /\ Wear(k, D, e)
                         /\ k.taken \in Blocks /\ k.taken \in Idle(s)
                         /\ Erased(k.flash, k.taken)
                         /\ k.bm.data_active = s.bm.data_active + 0
                         /\ k.bm.log_active = s.bm.log_active + 1
      BY DEF b, With
    <2>1. LogRoom(s)
      BY DEF LogRoom
    <2>. QED
      BY <1>2, <2>1, TakeBlockEffect
  <1>5. CASE EndsWorn(k, e)
    BY <1>3, <1>5, DeadStops
  <1>6. CASE /\ Shape(k, P) /\ Stays(s, k) /\ Wear(k, D, e)
             /\ b \in Blocks /\ b \in Idle(s)
             /\ Erased(k.flash, b)
             /\ k.bm.data_active = s.bm.data_active + 0
             /\ k.bm.log_active = s.bm.log_active + 1
    <2>1. /\ k \in Tables /\ Alive(k) /\ ListsSound(k.bm) /\ Clean(k.flash) /\ Owned(k, P)
          /\ \A x \in Available(k) : Erased(k.flash, x)
          /\ RingPages(k) /\ EntriesMapped(k) /\ TargetFree(k)
          /\ k.ring = s.ring /\ k.seq = s.seq /\ k.data_list = s.data_list
          /\ k.target = s.target
          /\ b \notin Q
      BY <1>1, <1>6 DEF Shape, Stays, SameTables, Owned
    <2>2. k.ring \in Seq(LogPageBlock) /\ NewLogBlock(b) \in LogPageBlock
          /\ NewLogBlock(b).address = b /\ NewLogBlock(b).numPages = 0
      BY <1>6, <2>1, RecordFacts, NewLogBlockType
    <2>3. /\ r \in Seq(LogPageBlock) /\ Len(r) = N + 1
          /\ \A n \in 1 .. N : r[n] = k.ring[n]
          /\ r[N + 1] = NewLogBlock(b)
      <3>. DEFINE x == NewLogBlock(b)
      <3>. HIDE DEF x
      <3>. QED
        BY <1>1, <2>1, <2>2 DEF x
    <2>4. /\ t \in Tables /\ t.ring = r
          /\ t.flash = k.flash /\ t.bm = k.bm /\ t.data_list = k.data_list
          /\ t.log_page_next = k.log_page_next /\ t.seq = k.seq
          /\ t.taken = k.taken /\ t.target = k.target /\ t.abort = k.abort
      <3>. HIDE DEF r
      <3>. QED
        BY <1>3, <2>1, <2>3, ZenonT(60) DEF Tables, Records
    <2>. HIDE DEF r
    <2>5. /\ Len(t.ring) = N + 1 /\ 1 .. N + 1 = 1 .. N \cup {N + 1} /\ N + 1 \notin 1 .. N
          /\ \A n \in 1 .. N : t.ring[n] = k.ring[n]
          /\ t.ring[N + 1].address = b /\ t.ring[N + 1].numPages = 0
      BY <1>1, <2>2, <2>3, <2>4
    <2>6. /\ Available(t) = Available(k) /\ Waiting(t) = Waiting(k) /\ Idle(t) = Idle(k)
          /\ Mapped(t) = Mapped(k) /\ DataSet(t) = DataSet(k)
          /\ LogSet(t) = LogSet(k) \cup {b}
      <3>1. LogSet(t) = LogSet(k) \cup {b}
        BY <2>1, <2>5, SMTT(30) DEF LogSet
      <3>. QED
        BY <2>4, <3>1 DEF Available, Waiting, Idle, Mapped, DataSet, HasData
    <2>7. Owned(t, Q)
      <3>1. \A l, m \in Mapped(t) : t.data_list[l] = t.data_list[m] => l = m
        BY <2>1, <2>4, <2>6 DEF Owned
      <3>2. \A n, m \in 1 .. Len(t.ring) : t.ring[n].address = t.ring[m].address => n = m
        <4>1. \A n \in 1 .. N : t.ring[n].address \in LogSet(k)
          BY <2>1, <2>5 DEF LogSet
        <4>2. b \notin LogSet(k)
          BY <2>1 DEF Owned
        <4>3. \A n, m \in 1 .. N : t.ring[n].address = t.ring[m].address => n = m
          BY <2>1, <2>5 DEF Owned
        <4>. QED
          BY <2>5, <4>1, <4>2, <4>3
      <3>3. /\ DataSet(t) \cap LogSet(t) = {} /\ DataSet(t) \cap Q = {}
            /\ LogSet(t) \cap Q = {}
            /\ Idle(t) \cap DataSet(t) = {} /\ Idle(t) \cap LogSet(t) = {} /\ Idle(t) \cap Q = {}
            /\ Blocks \subseteq Idle(t) \cup DataSet(t) \cup LogSet(t) \cup Q
        <4>1. /\ DataSet(k) \cap LogSet(k) = {} /\ DataSet(k) \cap P = {}
              /\ LogSet(k) \cap P = {}
              /\ Idle(k) \cap DataSet(k) = {} /\ Idle(k) \cap LogSet(k) = {} /\ Idle(k) \cap P = {}
              /\ Blocks \subseteq Idle(k) \cup DataSet(k) \cup LogSet(k) \cup P
          BY <2>1 DEF Owned
        <4>. QED
          BY <2>1, <2>6, <4>1
      <3>. QED
        BY <1>1, <3>1, <3>2, <3>3 DEF Owned
    <2>8. Counted(t, Q)
      <3>1. Mapped(t) = Mapped(s)
        BY <2>1, <2>6 DEF Mapped, HasData
      <3>2. t.bm.data_active = s.bm.data_active /\ t.bm.log_active = s.bm.log_active + 1
        <4>1. s.bm.data_active \in Int
          BY <1>1, RecordFacts DEF BlockManagerType
        <4>. QED
          BY <1>2, <1>6, <2>4, <4>1
      <3>3. N + 1 <= FAST_LOG_BLOCK_LIMIT
        BY <1>1, Numbers
      <3>. QED
        BY <1>1, <2>5, <3>1, <3>2, <3>3 DEF Counted
    <2>9. RingPages(t)
      <3>. SUFFICES ASSUME NEW n \in 1 .. Len(t.ring), NEW i \in Offsets
                    PROVE  t.flash.page[<<t.ring[n].address, i>>] = "EMPTY"
                             <=> i >= t.ring[n].numPages \/ <<t.ring[n].address, i>> = t.target
        BY DEF RingPages
      <3>1. CASE n \in 1 .. N
        BY <2>1, <2>4, <2>5, <3>1, SMTT(30) DEF RingPages
      <3>2. CASE n = N + 1
        <4>1. i >= 0
          BY DEF Offsets
        <4>. QED
          BY <1>6, <2>4, <2>5, <3>2, <4>1 DEF Erased
      <3>. QED
        BY <2>5, <3>1, <3>2
    <2>10. EntriesMapped(t)
      <3>. SUFFICES ASSUME NEW n \in 1 .. Len(t.ring), NEW i \in Offsets,
                           i < t.ring[n].numPages, t.ring[n].aPages[i] # NoLpn
                    PROVE  HasData(t, lba(t.ring[n].aPages[i]))
        BY DEF EntriesMapped
      <3>1. n # N + 1
        BY <2>5 DEF Offsets
      <3>2. n \in 1 .. N /\ t.ring[n] = k.ring[n]
        BY <2>5, <3>1
      <3>. QED
        BY <2>1, <2>4, <3>2 DEF EntriesMapped, HasData
    <2>11. Core(t, Q)
      BY <2>1, <2>4, <2>6, <2>7, <2>8, <2>9, <2>10 DEF Core, Shape, Alive, TargetFree
    <2>12. KeepsCold(k, t)
      <3>. SUFFICES ASSUME NEW lpn \in Lpns, Quiet(k, lpn)
                    PROVE  /\ Quiet(t, lpn)
                           /\ AtHome(t, lpn) <=> AtHome(k, lpn)
                           /\ HomePage(t, lpn) = HomePage(k, lpn)
        BY <2>4 DEF KeepsCold
      <3>1. LogEntries(t, lpn) = {}
        <4>. SUFFICES ASSUME NEW n \in 1 .. Len(t.ring), NEW i \in Offsets,
                             i < t.ring[n].numPages, t.ring[n].aPages[i] = lpn
                      PROVE  FALSE
          BY DEF LogEntries
        <4>1. n # N + 1
          BY <2>5 DEF Offsets
        <4>2. n \in 1 .. Len(k.ring) /\ t.ring[n] = k.ring[n]
          BY <2>1, <2>5, <4>1
        <4>3. <<n, i>> \in LogEntries(k, lpn)
          BY <4>2 DEF LogEntries
        <4>. QED
          BY <4>3 DEF Quiet
      <3>. QED
        BY <2>4, <3>1 DEF Quiet, InSequential, AtHome, HasData, HomePage, Valid
    <2>13. Carries(s, t, Q)
      <3>1. Carries(s, k, Q)
        BY <1>6, StaysCarries DEF Core
      <3>2. Carries(k, t, Q)
        BY <2>4, <2>12 DEF Carries, SameBlock
      <3>. QED
        BY <3>1, <3>2, CarriesFacts
    <2>14. Wear(t, D, e)
      BY <1>6, <2>4, <2>6 DEF Wear
    <2>. QED
      BY <2>5, <2>11, <2>13, <2>14
  <1>. QED
    BY <1>4, <1>5, <1>6


\* The first request takes the log blocks, later ones find them.
LEMMA InitializedEffect ==
  ASSUME NEW s, NEW Q, Core(s, Q), Cardinality(Q) <= 1, RingOrdered(s),
         NEW D, NEW e, Wear(s, D, e), LogSet(s) \subseteq D, NEW t, t = Initialized(s)
  PROVE  \/ EndsWorn(t, e)
         \/ /\ Core(t, Q) /\ Carries(s, t, Q) /\ Wear(t, D, e)
            /\ LogFull(t) => LogSet(t) \subseteq D
  <1>1. s \in Tables /\ FAST_LOG_BLOCK_LIMIT \in Nat
    BY Numbers DEF Core, Shape
  <1>2. CASE s.ring # << >>
    <2>1. t = s
      BY <1>2 DEF Initialized
    <2>. QED
      BY <2>1, CarriesFacts
  <1>3. CASE s.ring = << >>
    <2>1. PICK run : /\ run[0] = s /\ run[FAST_LOG_BLOCK_LIMIT] = t
                     /\ \A n \in 0 .. FAST_LOG_BLOCK_LIMIT : run[n] \in Tables
                     /\ \A n \in 0 .. FAST_LOG_BLOCK_LIMIT - 1 : run[n + 1] = TakeLogBlock(run[n])
      BY <1>1, <1>3, InitializedRun
    <2>. DEFINE Grown(u, n) ==
                  \/ EndsWorn(u, e)
                  \/ Core(u, Q) /\ Carries(s, u, Q) /\ Wear(u, D, e) /\ Len(u.ring) = n
                Good == {n \in 0 .. FAST_LOG_BLOCK_LIMIT : Grown(run[n], n)}
    <2>2. 0 \in Good
      <3>1. Len(s.ring) = 0
        BY <1>3
      <3>. QED
        BY <1>1, <2>1, <3>1, CarriesFacts
    <2>3. ASSUME NEW n \in 0 .. FAST_LOG_BLOCK_LIMIT - 1, n \in Good
          PROVE  n + 1 \in Good
      <3>. DEFINE u == run[n]
                  v == run[n + 1]
      <3>1. v = TakeLogBlock(u) /\ n + 1 \in 0 .. FAST_LOG_BLOCK_LIMIT /\ Grown(u, n)
            /\ n < FAST_LOG_BLOCK_LIMIT
        BY <1>1, <2>1, <2>3
      <3>. HIDE DEF u, v
      <3>2. CASE EndsWorn(u, e)
        <4>1. ~Alive(u)
          BY <3>2, DeadStops
        <4>2. v = u
          BY <3>1, <4>1 DEF TakeLogBlock, TakeBlock
        <4>. QED
          BY <3>1, <3>2, <4>2 DEF v
      <3>3. CASE Core(u, Q) /\ Carries(s, u, Q) /\ Wear(u, D, e) /\ Len(u.ring) = n
        <4>1. \/ EndsWorn(v, e)
              \/ /\ Core(v, Q) /\ Carries(u, v, Q) /\ Wear(v, D, e)
                 /\ Len(v.ring) = Len(u.ring) + 1
          BY <3>1, <3>3, TakeLogEffect
        <4>2. Grown(v, n + 1)
          BY <3>3, <4>1, CarriesFacts
        <4>. QED
          BY <3>1, <4>2 DEF v
      <3>. QED
        BY <3>1, <3>2, <3>3
    <2>. HIDE DEF Good, Grown
    <2>4. FAST_LOG_BLOCK_LIMIT \in Good
      <3>1. \A n \in 0 .. FAST_LOG_BLOCK_LIMIT : n \in Good
        BY <1>1, <2>2, <2>3, Reaches
      <3>. QED
        BY <1>1, <3>1
    <2>5. EndsWorn(t, e) \/ (Core(t, Q) /\ Carries(s, t, Q) /\ Wear(t, D, e))
      BY <2>1, <2>4 DEF Good, Grown
    <2>6. ~LogFull(t)
      <3>1. t.log_page_next = 0
        BY <1>1, <1>3, InitializedType DEF RingOrdered
      <3>2. FAST_LOG_BLOCK_LIMIT * BLOCK_SIZE # 0
        <4>1. 0 * BLOCK_SIZE + BLOCK_SIZE <= FAST_LOG_BLOCK_LIMIT * BLOCK_SIZE
          BY <1>1, Numbers, Apart
        <4>. DEFINE x == FAST_LOG_BLOCK_LIMIT * BLOCK_SIZE
        <4>2. 0 * BLOCK_SIZE = 0 /\ BLOCK_SIZE \in Nat \ {0}
          BY Numbers
        <4>3. BLOCK_SIZE <= x
          <5>. HIDE DEF x
          <5>. QED
            BY <4>1, <4>2 DEF x
        <4>. HIDE DEF x
        <4>4. x # 0
          BY <4>2, <4>3
        <4>. QED
          BY <4>4 DEF x
      <3>. QED
        BY <3>1, <3>2 DEF LogFull
    <2>. QED
      BY <2>5, <2>6
  <1>. QED
    BY <1>2, <1>3

\* Without its first member a list of log blocks has one less.
DropOldest(s) == [s EXCEPT !.ring = Tail(s.ring)]

\* The oldest log block, merged, leaves the list and waits for its erase.
LEMMA DropEffect ==
  ASSUME NEW s, NEW Q, Core(s, Q), s.target = NoPpn, s.ring # << >>,
         NEW D, NEW e, Wear(s, D, e), Head(s.ring).address \in D,
         NEW t, t = GiveBack(DropOldest(s), Head(s.ring).address, "LOG")
  PROVE  /\ Core(t, Q) /\ Carries(s, t, Q) /\ Len(t.ring) = Len(s.ring) - 1
         /\ Wear(t, Without(D, Head(s.ring).address), e)
  <1>. DEFINE N == Len(s.ring)
              r == Tail(s.ring)
              b == Head(s.ring).address
              u == DropOldest(s)
              type == "LOG"
  <1>1. /\ s \in Tables /\ Alive(s) /\ ListsSound(s.bm) /\ Clean(s.flash)
        /\ Owned(s, Q) /\ Counted(s, Q) /\ Q \subseteq Blocks
        /\ \A x \in Available(s) : Erased(s.flash, x)
        /\ RingPages(s) /\ EntriesMapped(s)
    BY DEF Core, Shape, Owned
  <1>2. /\ s.ring \in Seq(LogPageBlock) /\ N \in Nat /\ N >= 1
        /\ r \in Seq(LogPageBlock) /\ Len(r) = N - 1
        /\ \A n \in 1 .. N - 1 : r[n] = s.ring[n + 1] /\ n + 1 \in 1 .. N
        /\ b = s.ring[1].address /\ 1 \in 1 .. N
    <2>1. s.ring \in Seq(LogPageBlock)
      BY <1>1, RecordFacts
    <2>2. N \in Nat /\ N >= 1
      BY <2>1
    <2>. QED
      BY <2>1, <2>2
  <1>3. b \in LogSet(s) /\ b \in Blocks /\ b \notin Idle(s) /\ b \notin Q
        /\ b \notin DataSet(s)
    <2>1. b \in LogSet(s)
      BY <1>2 DEF LogSet
    <2>2. LogSet(s) \subseteq Blocks
      BY <1>1, OwnerCounts
    <2>. QED
      BY <1>1, <2>1, <2>2 DEF Owned
  <1>. HIDE DEF r, b
  <1>4. /\ u \in Tables /\ u.ring = r
        /\ u.flash = s.flash /\ u.bm = s.bm /\ u.data_list = s.data_list
        /\ u.log_page_next = s.log_page_next /\ u.seq = s.seq
        /\ u.taken = s.taken /\ u.target = s.target /\ u.abort = s.abort
    BY <1>1, <1>2 DEF Tables, Records, DropOldest, r
  <1>. HIDE DEF u
  <1>5. type \in BlockTypes /\ type # "DATA" /\ type = "LOG"
    BY DEF BlockTypes
  <1>6. t = GiveBack(u, b, type)
    BY DEF u, b
  <1>. HIDE DEF type
  <1>7. Available(u) = Available(s) /\ Waiting(u) = Waiting(s) /\ Idle(u) = Idle(s)
    BY <1>4 DEF Available, Waiting, Idle
  <1>8. /\ t \in Tables /\ Alive(t) /\ SameTables(u, t)
        /\ t.target = u.target /\ t.flash = u.flash
        /\ ListsSound(t.bm)
        /\ Available(t) = Available(u)
        /\ Waiting(t) = Waiting(u) \cup {b}
        /\ t.bm.data_active = u.bm.data_active - IF type = "DATA" THEN 1 ELSE 0
        /\ t.bm.log_active = u.bm.log_active - IF type = "LOG" THEN 1 ELSE 0
    <2>1. u \in Tables /\ Alive(u) /\ ListsSound(u.bm) /\ b \in Blocks /\ b \notin Idle(u)
          /\ type \in BlockTypes
      BY <1>1, <1>3, <1>4, <1>5, <1>7 DEF Alive
    <2>. QED
      BY <1>6, <2>1, GiveBackLists
  <1>9. /\ Available(t) = Available(s) /\ Waiting(t) = Waiting(s) \cup {b}
        /\ Idle(t) = Idle(s) \cup {b}
        /\ t.bm.data_active = s.bm.data_active /\ t.bm.log_active = s.bm.log_active - 1
        /\ t.ring = r /\ t.data_list = s.data_list /\ t.seq = s.seq /\ t.flash = s.flash
        /\ t.target = s.target
    <2>1. s.bm.data_active \in Int /\ s.bm.log_active \in Int
      BY <1>1, RecordFacts DEF BlockManagerType
    <2>2. t.bm.data_active = s.bm.data_active /\ t.bm.log_active = s.bm.log_active - 1
      BY <1>4, <1>5, <1>8, <2>1
    <2>. QED
      BY <1>4, <1>7, <1>8, <2>2 DEF Idle, SameTables
  <1>9a. /\ N \in Nat /\ Len(t.ring) = N - 1
         /\ \A n \in 1 .. N - 1 : n + 1 \in 1 .. N /\ t.ring[n] = s.ring[n + 1]
    BY <1>2, <1>9
  <1>9b. t.flash = s.flash /\ t.target = s.target /\ \A l : HasData(t, l) <=> HasData(s, l)
    BY <1>9 DEF HasData
  <1>10. Mapped(t) = Mapped(s) /\ DataSet(t) = DataSet(s) /\ LogSet(t) = LogSet(s) \ {b}
    <2>1. Mapped(t) = Mapped(s) /\ DataSet(t) = DataSet(s)
      BY <1>9 DEF Mapped, DataSet, HasData
    <2>2. \A n \in 1 .. N : n # 1 => n - 1 \in 1 .. N - 1 /\ r[n - 1] = s.ring[n]
      BY <1>2
    <2>3. \A n \in 1 .. N - 1 : s.ring[n + 1].address # b
      <3>1. \A n \in 1 .. N - 1 : n + 1 # 1
        BY <1>2
      <3>. QED
        BY <1>1, <1>2, <3>1 DEF Owned
    <2>4. LogSet(t) \subseteq LogSet(s) \ {b}
      <3>. SUFFICES ASSUME NEW n \in 1 .. N - 1
                    PROVE  t.ring[n].address \in LogSet(s) \ {b}
        BY <1>9a, Zenon DEF LogSet
      <3>1. n + 1 \in 1 .. N /\ t.ring[n].address = s.ring[n + 1].address
        BY <1>9a
      <3>2. \A k \in 1 .. N : s.ring[k].address \in LogSet(s)
        BY DEF LogSet
      <3>. QED
        BY <2>3, <3>1, <3>2, Zenon
    <2>5. LogSet(s) \ {b} \subseteq LogSet(t)
      <3>. SUFFICES ASSUME NEW n \in 1 .. N, s.ring[n].address # b
                    PROVE  s.ring[n].address \in LogSet(t)
        BY DEF LogSet
      <3>1. n # 1
        BY <1>2
      <3>. QED
        BY <1>2, <1>9, <2>2, <3>1 DEF LogSet
    <2>. QED
      BY <2>1, <2>4, <2>5
  <1>11. Owned(t, Q)
    <2>1. \A l, m \in Mapped(t) : t.data_list[l] = t.data_list[m] => l = m
      BY <1>1, <1>9, <1>10 DEF Owned
    <2>2. \A n, k \in 1 .. Len(t.ring) : t.ring[n].address = t.ring[k].address => n = k
      <3>. SUFFICES ASSUME NEW n \in 1 .. N - 1, NEW k \in 1 .. N - 1,
                           t.ring[n].address = t.ring[k].address
                    PROVE  n = k
        BY <1>9a, Zenon
      <3>1. \A x, y \in 1 .. N : s.ring[x].address = s.ring[y].address => x = y
        BY <1>1, Zenon DEF Owned
      <3>2. /\ n + 1 \in 1 .. N /\ t.ring[n] = s.ring[n + 1]
            /\ k + 1 \in 1 .. N /\ t.ring[k] = s.ring[k + 1]
        BY <1>9a, Zenon
      <3>3. n + 1 = k + 1
        BY <3>1, <3>2, Zenon
      <3>. QED
        BY <3>3
    <2>3. /\ DataSet(t) \cap LogSet(t) = {} /\ DataSet(t) \cap Q = {}
          /\ LogSet(t) \cap Q = {}
          /\ Idle(t) \cap DataSet(t) = {} /\ Idle(t) \cap LogSet(t) = {} /\ Idle(t) \cap Q = {}
          /\ Blocks \subseteq Idle(t) \cup DataSet(t) \cup LogSet(t) \cup Q
      <3>1. /\ DataSet(s) \cap LogSet(s) = {} /\ DataSet(s) \cap Q = {}
            /\ LogSet(s) \cap Q = {}
            /\ Idle(s) \cap DataSet(s) = {} /\ Idle(s) \cap LogSet(s) = {} /\ Idle(s) \cap Q = {}
            /\ Blocks \subseteq Idle(s) \cup DataSet(s) \cup LogSet(s) \cup Q
        BY <1>1 DEF Owned
      <3>. QED
        BY <1>3, <1>9, <1>10, <3>1
    <2>. QED
      BY <1>1, <2>1, <2>2, <2>3 DEF Owned
  <1>12. Counted(t, Q)
    <2>1. s.bm.log_active = N /\ N <= FAST_LOG_BLOCK_LIMIT
      BY <1>1 DEF Counted
    <2>2. N - 1 <= FAST_LOG_BLOCK_LIMIT
      <3>1. N \in Nat /\ FAST_LOG_BLOCK_LIMIT \in Int
        BY <1>9a, Numbers
      <3>. QED
        BY <2>1, <3>1
    <2>. QED
      BY <1>1, <1>9, <1>9a, <1>10, <2>1, <2>2 DEF Counted
  <1>13. RingPages(t)
    <2>. SUFFICES ASSUME NEW n \in 1 .. Len(t.ring), NEW i \in Offsets
                  PROVE  t.flash.page[<<t.ring[n].address, i>>] = "EMPTY"
                           <=> i >= t.ring[n].numPages \/ <<t.ring[n].address, i>> = t.target
      BY DEF RingPages
    <2>. DEFINE k == n + 1
    <2>1. n \in 1 .. N - 1
      BY <1>9a
    <2>2. k \in 1 .. N /\ t.ring[n] = s.ring[k]
      BY <1>9a, <2>1
    <2>. HIDE DEF k
    <2>3. s.flash.page[<<s.ring[k].address, i>>] = "EMPTY"
            <=> i >= s.ring[k].numPages \/ <<s.ring[k].address, i>> = s.target
      BY <1>1, <2>2, Zenon DEF RingPages
    <2>. QED
      BY <1>9b, <2>2, <2>3
  <1>14. EntriesMapped(t)
    <2>. SUFFICES ASSUME NEW n \in 1 .. Len(t.ring), NEW i \in Offsets,
                         i < t.ring[n].numPages, t.ring[n].aPages[i] # NoLpn
                  PROVE  HasData(t, lba(t.ring[n].aPages[i]))
      BY Zenon DEF EntriesMapped
    <2>. DEFINE k == n + 1
    <2>1. n \in 1 .. N - 1
      BY <1>9a
    <2>2. k \in 1 .. N /\ t.ring[n] = s.ring[k]
      BY <1>9a, <2>1
    <2>. HIDE DEF k
    <2>3. HasData(s, lba(s.ring[k].aPages[i]))
      <3>1. EntriesMapped(s)
        BY <1>1
      <3>. QED
        BY <2>2, <3>1 DEF EntriesMapped
    <2>. QED
      BY <1>9b, <2>2, <2>3, Zenon
  <1>15. Core(t, Q)
    BY <1>1, <1>8, <1>9, <1>11, <1>12, <1>13, <1>14 DEF Core, Shape, TargetFree
  <1>16. KeepsCold(s, t)
    <2>. SUFFICES ASSUME NEW lpn \in Lpns, Quiet(s, lpn)
                  PROVE  /\ Quiet(t, lpn)
                         /\ AtHome(t, lpn) <=> AtHome(s, lpn)
                         /\ HomePage(t, lpn) = HomePage(s, lpn)
      BY <1>9 DEF KeepsCold
    <2>1. LogEntries(t, lpn) = {}
      <3>. SUFFICES ASSUME NEW n \in 1 .. N - 1, NEW i \in Offsets,
                           i < t.ring[n].numPages, t.ring[n].aPages[i] = lpn
                    PROVE  FALSE
        BY <1>9a DEF LogEntries
      <3>. DEFINE k == n + 1
      <3>1. k \in 1 .. Len(s.ring) /\ t.ring[n] = s.ring[k]
        BY <1>9a
      <3>. HIDE DEF k
      <3>2. LogEntries(s, lpn) = {}
        BY DEF Quiet
      <3>. DEFINE at == <<k, i>>
      <3>3. /\ at \in (1 .. Len(s.ring)) \X Offsets
            /\ at[2] < s.ring[at[1]].numPages /\ s.ring[at[1]].aPages[at[2]] = lpn
        BY <3>1
      <3>. HIDE DEF at
      <3>. QED
        BY <3>2, <3>3 DEF LogEntries
    <2>. QED
      BY <1>9, <2>1 DEF Quiet, InSequential, AtHome, HasData, HomePage, Valid
  <1>17. Carries(s, t, Q)
    BY <1>9, <1>16 DEF Carries, SameBlock
  <1>18. Wear(t, Without(D, b), e)
    <2>1. b \in D
      BY DEF b
    <2>. QED
      BY <1>9, <2>1 DEF Wear, Without
  <1>. QED
    BY <1>2, <1>9, <1>15, <1>17, <1>18 DEF b


\* log_page_next is no part of what is kept.
Recount(k, n) == [k EXCEPT !.log_page_next = n]

LEMMA RecountFields ==
  ASSUME NEW k \in Tables, NEW n, NEW t, t = Recount(k, n)
  PROVE  /\ t.flash = k.flash /\ t.bm = k.bm /\ t.data_list = k.data_list /\ t.ring = k.ring
         /\ t.seq = k.seq /\ t.taken = k.taken /\ t.target = k.target /\ t.abort = k.abort
  BY DEF Tables, Records, Recount

\* The oldest log block is merged and replaced by a new one.
LEMMA RecycleOldestEffect ==
  ASSUME NEW s, NEW Q, Core(s, Q), Cardinality(Q) <= 1, s.target = NoPpn,
         RingFull(s), LogFull(s),
         NEW D, NEW e, Wear(s, D, e), DataSet(s) \cup LogSet(s) \subseteq D,
         NEW t, t = RecycleOldest(s)
  PROVE  \/ EndsWorn(t, e)
         \/ Core(t, Q) /\ Carries(s, t, Q) /\ Wear(t, {}, e) /\ HomesKept(s, t)
  <1>. DEFINE v == Head(s.ring)
              m == random_merge(s, v)
              g == GiveBack(DropOldest(m), v.address, "LOG")
              k == TakeLogBlock(g)
              n == k.log_page_next - BLOCK_SIZE
  <1>1. /\ s \in Tables /\ Owned(s, Q) /\ s.ring \in Seq(LogPageBlock)
        /\ Len(s.ring) = FAST_LOG_BLOCK_LIMIT /\ Len(s.ring) >= 2 /\ s.ring # << >>
        /\ FAST_LOG_BLOCK_LIMIT \in Nat
    <2>1. s \in Tables /\ Owned(s, Q) /\ s.ring \in Seq(LogPageBlock)
      BY RecordFacts DEF Core, Shape
    <2>2. Len(s.ring) = FAST_LOG_BLOCK_LIMIT
      BY DEF RingFull
    <2>. QED
      BY <2>1, <2>2, Numbers
  <1>2. t \in Tables
    BY <1>1, RecycleEffect
  <1>3. t = Recount(k, n)
    BY DEF RecycleOldest, DropOldest, Recount
  <1>4. v = s.ring[1] /\ v.address \in LogSet(s)
    BY <1>1 DEF LogSet
  <1>. HIDE DEF v, m, g, k, n
  <1>5. \/ EndsWorn(m, e)
        \/ /\ Core(m, Q) /\ Carries(s, m, Q) /\ RingKept(s, m) /\ HomesKept(s, m)
           /\ \A F : F \subseteq D /\ F \cap DataSet(s) = {} => Wear(m, F, e)
    BY <1>1, RandomMergeEffect DEF m, v
  <1>6. CASE EndsWorn(m, e)
    <2>1. m \in Tables /\ ~Alive(m) /\ DropOldest(m).abort = m.abort
      BY <1>6, DeadStops DEF EndsWorn, DropOldest, Tables, Records
    <2>2. g = DropOldest(m) /\ ~Alive(g)
      BY <2>1 DEF g, GiveBack, Alive
    <2>3. k = g
      BY <2>2 DEF k, TakeLogBlock, TakeBlock
    <2>4. t.abort = m.abort
      BY <1>3, <2>1, <2>2, <2>3 DEF Recount, DropOldest, Tables, Records
    <2>. QED
      BY <1>2, <1>6, <2>4 DEF EndsWorn
  <1>7. CASE /\ Core(m, Q) /\ Carries(s, m, Q) /\ RingKept(s, m) /\ HomesKept(s, m)
             /\ \A F : F \subseteq D /\ F \cap DataSet(s) = {} => Wear(m, F, e)
    <2>. DEFINE F == LogSet(s)
    <2>1. Wear(m, F, e) /\ v.address \in F
      <3>1. F \subseteq D /\ F \cap DataSet(s) = {}
        BY <1>1 DEF Owned
      <3>. HIDE DEF F
      <3>. QED
        BY <1>4, <1>7, <3>1 DEF F
    <2>. HIDE DEF F
    <2>2. m.target = NoPpn /\ m.ring # << >> /\ Head(m.ring).address = v.address
          /\ Len(m.ring) = FAST_LOG_BLOCK_LIMIT
      <3>1. m.ring \in Seq(LogPageBlock) /\ Len(m.ring) = Len(s.ring)
            /\ m.ring[1].address = s.ring[1].address
        <4>1. 1 \in 1 .. Len(s.ring)
          BY <1>1
        <4>. QED
          BY <1>7, <4>1, RecordFacts DEF Core, Shape, RingKept
      <3>2. m.ring # << >> /\ Head(m.ring) = m.ring[1]
        BY <1>1, <3>1
      <3>3. m.target = NoPpn
        BY <1>7 DEF Carries
      <3>. QED
        BY <1>1, <1>4, <3>1, <3>2, <3>3
    <2>3. /\ Core(g, Q) /\ Carries(m, g, Q) /\ Len(g.ring) = Len(m.ring) - 1
          /\ Wear(g, Without(F, v.address), e)
      <3>1. /\ Head(m.ring).address \in F
            /\ g = GiveBack(DropOldest(m), Head(m.ring).address, "LOG")
        BY <2>1, <2>2 DEF g
      <3>2. Core(m, Q)
        BY <1>7
      <3>3. /\ Core(g, Q) /\ Carries(m, g, Q) /\ Len(g.ring) = Len(m.ring) - 1
            /\ Wear(g, Without(F, Head(m.ring).address), e)
        BY <2>1, <2>2, <3>1, <3>2, DropEffect
      <3>. QED
        BY <2>2, <3>3
    <2>4. LogRoom(g)
      BY <1>1, <2>2, <2>3 DEF LogRoom
    <2>5. Wear(g, {}, e)
      BY <2>3, WearLess DEF Without
    <2>6. EndsWorn(k, e) \/ (Core(k, Q) /\ Carries(g, k, Q) /\ Wear(k, {}, e))
      <3>. DEFINE Z == {}
      <3>1. Wear(g, Z, e)
        BY <2>5
      <3>. HIDE DEF Z
      <3>2. Core(g, Q) /\ Len(g.ring) < FAST_LOG_BLOCK_LIMIT
        BY <2>3, <2>4 DEF LogRoom
      <3>3. EndsWorn(k, e) \/ (Core(k, Q) /\ Carries(g, k, Q) /\ Wear(k, Z, e))
        BY <3>1, <3>2, TakeLogEffect DEF k
      <3>. QED
        BY <3>3 DEF Z
    <2>7. k \in Tables
      BY <2>6 DEF EndsWorn, Core, Shape
    <2>8. /\ t.flash = k.flash /\ t.bm = k.bm /\ t.data_list = k.data_list /\ t.ring = k.ring
          /\ t.seq = k.seq /\ t.taken = k.taken /\ t.target = k.target /\ t.abort = k.abort
      BY <1>3, <2>7, RecountFields
    <2>9. CASE EndsWorn(k, e)
      BY <1>2, <2>8, <2>9 DEF EndsWorn
    <2>10. CASE Core(k, Q) /\ Carries(g, k, Q) /\ Wear(k, {}, e)
      <3>1. /\ Available(t) = Available(k) /\ Waiting(t) = Waiting(k) /\ Idle(t) = Idle(k)
            /\ Mapped(t) = Mapped(k) /\ DataSet(t) = DataSet(k) /\ LogSet(t) = LogSet(k)
        BY <2>8 DEF Available, Waiting, Idle, Mapped, DataSet, LogSet, HasData
      <3>2. Owned(t, Q) /\ Counted(t, Q)
        BY <2>8, <2>10, <3>1 DEF Core, Shape, Owned, Counted
      <3>3. RingPages(t) /\ EntriesMapped(t) /\ TargetFree(t)
        BY <2>8, <2>10, <3>1 DEF Core, Shape, RingPages, EntriesMapped, TargetFree, HasData
      <3>4. Core(t, Q)
        BY <1>2, <2>8, <2>10, <3>1, <3>2, <3>3 DEF Core, Shape, Alive
      <3>5. Carries(k, t, Q)
        <4>1. KeepsCold(k, t)
          BY <2>8 DEF KeepsCold, Quiet, LogEntries, InSequential, AtHome, HasData, HomePage, Valid
        <4>. QED
          BY <2>8, <4>1 DEF Carries, SameBlock
      <3>6. Carries(s, t, Q)
        BY <1>7, <2>3, <2>10, <3>5, CarriesFacts
      <3>7. Wear(t, {}, e)
        BY <2>8, <2>10, <3>1 DEF Wear
      <3>8. HomesKept(s, t)
        <4>1. m \in Records /\ g \in Tables
          BY <1>7, <2>3 DEF Core, Shape, Tables
        <4>2. g.data_list = m.data_list
          BY <4>1 DEF g, GiveBack, DropOldest, Records
        <4>3. k.data_list = g.data_list
          BY <4>1, TakeLogBlockType DEF k
        <4>. QED
          BY <1>7, <2>8, <4>2, <4>3 DEF HomesKept, HasData
      <3>. QED
        BY <3>4, <3>6, <3>7, <3>8
    <2>. QED
      BY <2>6, <2>9, <2>10
  <1>. QED
    BY <1>5, <1>6, <1>7

---------------------------------------------------------------------------
(* A page is promised to the event.                                        *)

\* A logical page no part of the log has stays so and shows what it showed.
Kept(s, t, lpn) ==
  /\ Quiet(t, lpn)
  /\ AtHome(t, lpn) <=> AtHome(s, lpn)
  /\ AtHome(s, lpn) => t.flash.data[HomePage(t, lpn)] = s.flash.data[HomePage(s, lpn)]

\* So do all of them but page i of logical block l.
ColdBut(s, t, l, i) ==
  \A lpn \in Lpns : Quiet(s, lpn) /\ ~(lba(lpn) = l /\ off(lpn) = i) => Kept(s, t, lpn)

\* What was kept so far may be kept but for one page from here on.
LEMMA ColdButFacts ==
  ASSUME NEW s, NEW m, KeepsCold(s, m), NEW t, NEW l, NEW i, ColdBut(m, t, l, i)
  PROVE  ColdBut(s, t, l, i)
  <1>. SUFFICES ASSUME NEW lpn \in Lpns, Quiet(s, lpn), ~(lba(lpn) = l /\ off(lpn) = i)
                PROVE  Kept(s, t, lpn)
    BY DEF ColdBut
  <1>1. Kept(s, m, lpn)
    BY DEF KeepsCold, Kept
  <1>2. Kept(m, t, lpn)
    BY <1>1 DEF Kept, ColdBut
  <1>. QED
    BY <1>1, <1>2 DEF Kept

\* A page outside the log blocks is promised; the SW log may be another one.
Promises(s, t, p) ==
  /\ t \in Tables
  /\ t.flash = s.flash /\ t.bm = s.bm /\ t.data_list = s.data_list /\ t.ring = s.ring
  /\ t.abort = s.abort
  /\ t.target = p
  /\ p \in Ppns /\ s.flash.page[p] = "EMPTY" /\ p[1] \notin Idle(s) /\ p[1] \notin LogSet(s)

\* A promise changes no page.
LEMMA PromiseEffect ==
  ASSUME NEW s, NEW Q, Core(s, Q), s.target = NoPpn, NEW D, NEW e, Wear(s, D, e),
         NEW p, NEW t, Promises(s, t, p)
  PROVE  /\ Core(t, Q) /\ Wear(t, D, e)
         /\ \A lpn \in Lpns : Quiet(s, lpn) /\ ~InSequential(t, lba(lpn), off(lpn))
                                => Kept(s, t, lpn)
         /\ DataSet(t) = DataSet(s)
  <1>1. /\ s \in Tables /\ Alive(s) /\ ListsSound(s.bm) /\ Clean(s.flash) /\ Owned(s, Q)
        /\ \A b \in Available(s) : Erased(s.flash, b)
        /\ RingPages(s) /\ EntriesMapped(s) /\ Counted(s, Q)
    BY DEF Core, Shape
  <1>2. /\ t \in Tables /\ t.flash = s.flash /\ t.bm = s.bm /\ t.data_list = s.data_list
        /\ t.ring = s.ring /\ t.abort = s.abort /\ t.target = p
        /\ p \in Ppns /\ s.flash.page[p] = "EMPTY" /\ p[1] \notin Idle(s) /\ p[1] \notin LogSet(s)
    BY DEF Promises
  <1>3. /\ Available(t) = Available(s) /\ Waiting(t) = Waiting(s) /\ Idle(t) = Idle(s)
        /\ Mapped(t) = Mapped(s) /\ DataSet(t) = DataSet(s) /\ LogSet(t) = LogSet(s)
    BY <1>2 DEF Available, Waiting, Idle, Mapped, HasData, DataSet, LogSet
  <1>4. Owned(t, Q) /\ Counted(t, Q) /\ EntriesMapped(t)
    BY <1>1, <1>2, <1>3 DEF Owned, Counted, EntriesMapped, HasData
  <1>5. RingPages(t)
    <2>. SUFFICES ASSUME NEW n \in 1 .. Len(t.ring), NEW i \in Offsets
                  PROVE  t.flash.page[<<t.ring[n].address, i>>] = "EMPTY"
                           <=> i >= t.ring[n].numPages \/ <<t.ring[n].address, i>> = t.target
      BY DEF RingPages
    <2>1. n \in 1 .. Len(s.ring) /\ s.ring[n].address \in LogSet(s)
      BY <1>2 DEF LogSet
    <2>2. <<s.ring[n].address, i>> # p
      BY <1>2, <2>1
    <2>3. <<s.ring[n].address, i>> # NoPpn
      <3>1. s.ring[n].address \in Blocks
        BY <1>1, <2>1, OwnerCounts
      <3>2. <<s.ring[n].address, i>> \in Ppns
        BY <3>1 DEF Ppns
      <3>. QED
        BY <3>2, NoPpnNotPage
    <2>. QED
      BY <1>1, <1>2, <2>1, <2>2, <2>3 DEF RingPages
  <1>6. TargetFree(t) /\ Alive(t)
    BY <1>1, <1>2, <1>3 DEF TargetFree, Alive
  <1>7. Core(t, Q)
    BY <1>1, <1>2, <1>3, <1>4, <1>5, <1>6 DEF Core, Shape
  <1>8. Wear(t, D, e)
    BY <1>2, <1>3 DEF Wear
  <1>9. ASSUME NEW lpn \in Lpns, Quiet(s, lpn), ~InSequential(t, lba(lpn), off(lpn))
        PROVE  Kept(s, t, lpn)
    BY <1>2, <1>9 DEF Kept, Quiet, LogEntries, AtHome, HomePage, HasData, Valid
  <1>. QED
    BY <1>3, <1>7, <1>8, <1>9

\* The log counts the promised page as used already.
CountsTarget(s) ==
  /\ \A n \in 1 .. Len(s.ring) :
       s.target[1] = s.ring[n].address => s.target[2] < s.ring[n].numPages
  /\ s.target[1] = s.seq.address => s.target[2] < s.seq.offset

\* The page chosen for page i of logical block l can be written: unless it is
\* the one of the data block, no data block has it.
Ready(s, t, l, i, e) ==
  \/ EndsWorn(t, e)
  \/ /\ Core(t, SequentialSet(t)) /\ SeqSound(t, SequentialSet(t)) /\ Wear(t, {}, e)
     /\ t.target \in Ppns /\ CountsTarget(t)
     /\ ColdBut(s, t, l, i)
     /\ t.target[1] \in DataSet(t) => HasData(t, l) /\ t.target = <<t.data_list[l], i>>

LEMMA ReadyAfter ==
  ASSUME NEW s, NEW m, KeepsCold(s, m), NEW t, NEW l, NEW i, NEW e, Ready(m, t, l, i, e)
  PROVE  Ready(s, t, l, i, e)
  BY ColdButFacts DEF Ready

\* A new SW log block.
LEMMA StartSequentialEffect ==
  ASSUME NEW s, Core(s, {}), s.target = NoPpn, NEW D, NEW e, Wear(s, D, e),
         NEW l \in Lbas, NEW t, t = StartSequential(s, l)
  PROVE  /\ Ready(s, t, l, 0, e)
         /\ Alive(t) => t.target[1] \notin DataSet(t)
  <1>. DEFINE Z == {}
              k == TakeBlock(s, "DATA")
              b == k.taken
  <1>1. s \in Tables /\ Alive(s) /\ Owned(s, {})
    BY DEF Core, Shape
  <1>2. Cardinality(Z) <= 1 /\ Core(s, Z)
    BY FS_EmptySet
  <1>3. \/ EndsWorn(k, e)
        \/ /\ Core(k, Z \cup {b}) /\ Stays(s, k) /\ Wear(k, D, e)
           /\ b \in Blocks /\ b \in Idle(s) /\ b \notin Z /\ Erased(k.flash, b)
    <2>. HIDE DEF Z
    <2>. QED
      BY <1>2, TakeDataEffect
  <1>4. /\ t \in Tables /\ t.ring = s.ring /\ t.data_list = s.data_list
        /\ Alive(t) => /\ t.taken \in Blocks /\ t.taken = b
                       /\ t.target = <<t.taken, 0>> /\ t.target \in Ppns
                       /\ t.seq.address = t.taken /\ t.seq.offset = 1 /\ t.seq.lba = l
                       /\ t.bm = k.bm /\ t.flash = k.flash
    BY <1>1, StartSequentialType
  <1>5. CASE EndsWorn(k, e)
    <2>1. ~Alive(k)
      BY <1>5, DeadStops
    <2>2. t = k
      BY <2>1 DEF StartSequential
    <2>. QED
      BY <1>5, <2>1, <2>2 DEF Ready
  <1>6. CASE /\ Core(k, Z \cup {b}) /\ Stays(s, k) /\ Wear(k, D, e)
             /\ b \in Blocks /\ b \in Idle(s) /\ Erased(k.flash, b)
    <2>. DEFINE P == {b}
    <2>1. Core(k, P) /\ b \in P
      BY <1>6, SetExtensionality
    <2>2. Alive(k) /\ k \in Tables /\ Owned(k, P)
      BY <2>1 DEF Core, Shape
    <2>3. t = [k EXCEPT !.seq = [address |-> b, offset |-> 1, lba |-> l], !.target = <<b, 0>>]
      BY <2>2 DEF StartSequential
    <2>4. t.abort = k.abort
      BY <2>2, <2>3, RecordFacts DEF Tables, Records
    <2>5. Alive(t)
      BY <2>2, <2>4 DEF Alive
    <2>6. k.target = NoPpn /\ k.data_list = s.data_list /\ k.ring = s.ring
      BY <1>6 DEF Stays, SameTables
    <2>7. b \notin Idle(k) /\ b \notin LogSet(k) /\ b \notin DataSet(k)
      BY <2>1, <2>2 DEF Owned
    <2>8. 0 \in Offsets
      BY Numbers
    <2>9. <<b, 0>>[1] = b /\ k.flash.page[<<b, 0>>] = "EMPTY"
      BY <1>6, <2>8 DEF Erased
    <2>10. Promises(k, t, <<b, 0>>)
      BY <1>4, <2>4, <2>5, <2>6, <2>7, <2>9 DEF Promises
    <2>11. /\ Core(t, P) /\ Wear(t, D, e)
           /\ \A lpn \in Lpns : Quiet(k, lpn) /\ ~InSequential(t, lba(lpn), off(lpn))
                                  => Kept(k, t, lpn)
           /\ DataSet(t) = DataSet(k)
      <3>. HIDE DEF P, k, b
      <3>. QED
        BY <1>6, <2>1, <2>6, <2>10, PromiseEffect
    <2>12. SequentialSet(t) = P
      BY <1>4, <1>6, <2>5, Numbers DEF SequentialSet
    <2>13. SeqSound(t, P)
      <3>1. \A i \in Offsets : /\ i \in Int /\ i >= 0
                               /\ t.flash.page[<<b, i>>] = "EMPTY"
        BY <1>4, <1>6, <2>5 DEF Erased, Offsets
      <3>2. \A i \in Offsets : i >= 1 \/ i = 0
        BY DEF Offsets
      <3>3. t.flash.pages_valid[b] = 0
        BY <1>4, <1>6, <2>5 DEF Erased
      <3>4. t.seq.lba # NoLba /\ t.target # NoPpn /\ t.target[1] = b
        BY <1>4, <2>5, <2>9, Numbers, NoPpnNotPage
      <3>. QED
        BY <1>4, <2>5, <3>1, <3>2, <3>3, <3>4 DEF SeqSound
    <2>14. Wear(t, {}, e)
      BY <2>11, WearLess
    <2>15. ColdBut(k, t, l, 0)
      <3>1. ASSUME NEW lpn \in Lpns, ~(lba(lpn) = l /\ off(lpn) = 0)
            PROVE  ~InSequential(t, lba(lpn), off(lpn))
        <4>1. off(lpn) \in Nat
          BY <3>1, LpnFacts DEF Offsets
        <4>. QED
          BY <1>4, <2>5, <3>1, <4>1 DEF InSequential
      <3>. QED
        BY <2>11, <3>1 DEF ColdBut
    <2>16. KeepsCold(s, k)
      <3>1. Shape(s, {})
        BY DEF Core
      <3>. QED
        BY <1>6, <3>1, StaysCarries DEF Carries
    <2>17. ColdBut(s, t, l, 0)
      BY <2>15, <2>16, ColdButFacts
    <2>18. t.target \in Ppns /\ t.target[1] \notin DataSet(t)
      BY <1>4, <2>5, <2>7, <2>9, <2>11
    <2>19. CountsTarget(t)
      <3>1. t.target[1] = b /\ t.target[2] = 0 /\ t.seq.offset = 1
        BY <1>4, <2>5
      <3>2. \A n \in 1 .. Len(t.ring) : t.ring[n].address \in LogSet(k)
        BY <1>4, <2>6 DEF LogSet
      <3>. QED
        BY <2>7, <3>1, <3>2 DEF CountsTarget
    <2>. QED
      BY <2>11, <2>12, <2>13, <2>14, <2>17, <2>18, <2>19 DEF Ready
  <1>. QED
    BY <1>3, <1>5, <1>6

\* The next page of the SW log block: it follows the last one that was written.
LEMMA AppendSequentialEffect ==
  ASSUME NEW s, Core(s, SequentialSet(s)), SeqSound(s, SequentialSet(s)), s.target = NoPpn,
         NEW D, NEW e, Wear(s, D, e),
         NEW l \in Lbas, s.seq.lba = l, NEW i \in Offsets, s.seq.offset = i,
         NEW t, t = AppendSequential(s)
  PROVE  Ready(s, t, l, i, e)
  <1>. DEFINE Q == SequentialSet(s)
              b == s.seq.address
              p == <<b, i>>
  <1>1. s \in Tables /\ Alive(s) /\ Owned(s, Q)
    BY DEF Core, Shape
  <1>2. /\ l # NoLba /\ b \in Blocks /\ b \in Q
        /\ i \in Int /\ i >= 1 /\ i < BLOCK_SIZE /\ i # BLOCK_SIZE /\ BLOCK_SIZE \in Int
        /\ \A j \in Offsets : j \in Int
    <2>1. l # NoLba
      BY Numbers
    <2>2. b \in Q /\ i >= 1
      BY <2>1 DEF SeqSound
    <2>. QED
      BY <1>1, <2>1, <2>2, Numbers DEF Owned, Offsets
  <1>3. /\ \A j \in Offsets : s.flash.page[<<b, j>>] = "EMPTY" <=> j >= i
        /\ s.flash.pages_valid[b] = i
    <2>1. \A j \in Offsets : <<b, j>> \in Ppns
      BY <1>2 DEF Ppns
    <2>2. \A j \in Offsets : <<b, j>> # NoPpn
      BY <2>1, NoPpnNotPage
    <2>3. s.flash.pages_valid[b] \in Int
      BY <1>1, <1>2, RecordFacts DEF FlashType
    <2>. QED
      BY <1>2, <2>2, <2>3 DEF SeqSound
  <1>4. HasFreePage(s.flash, b) /\ FreePage(s.flash, b) = p
    BY <1>2, <1>3 DEF HasFreePage, FreePage
  <1>5. /\ t \in Tables /\ t.ring = s.ring /\ Alive(t)
        /\ t.target = p /\ p \in Ppns
        /\ t.seq.address = b /\ t.seq.lba = l /\ t.seq.offset = i + 1
        /\ t.bm = s.bm /\ t.flash = s.flash /\ t.data_list = s.data_list
    BY <1>1, <1>2, <1>4, AppendSequentialType
  <1>6. b \notin Idle(s) /\ b \notin LogSet(s) /\ b \notin DataSet(s) /\ p[1] = b
    BY <1>1, <1>2 DEF Owned
  <1>7. s.flash.page[p] = "EMPTY"
    BY <1>2, <1>3
  <1>8. Promises(s, t, p)
    BY <1>1, <1>5, <1>6, <1>7 DEF Promises, Alive
  <1>9. /\ Core(t, Q) /\ Wear(t, D, e)
        /\ \A lpn \in Lpns : Quiet(s, lpn) /\ ~InSequential(t, lba(lpn), off(lpn))
                               => Kept(s, t, lpn)
        /\ DataSet(t) = DataSet(s)
    <2>1. Core(s, Q)
      OBVIOUS
    <2>. HIDE DEF Q, p
    <2>. QED
      BY <1>8, <2>1, PromiseEffect
  <1>10. SequentialSet(t) = Q
    BY <1>5 DEF SequentialSet
  <1>11. SeqSound(t, Q)
    <2>1. \A j \in Offsets : t.flash.page[<<b, j>>] = "EMPTY" <=> j >= i + 1 \/ <<b, j>> = p
      <3>1. \A j \in Offsets : j >= i <=> j >= i + 1 \/ j = i
        BY <1>2
      <3>. QED
        BY <1>3, <1>5, <3>1
    <2>2. t.target # NoPpn /\ t.target[1] = b
      BY <1>5, <1>6, NoPpnNotPage
    <2>3. t.flash.pages_valid[b] + 1 = i + 1 /\ i + 1 >= 1
      BY <1>2, <1>3, <1>5
    <2>. HIDE DEF Q, p
    <2>. QED
      BY <1>2, <1>5, <2>1, <2>2, <2>3 DEF SeqSound
  <1>12. Wear(t, {}, e)
    BY <1>9, WearLess
  <1>13. ColdBut(s, t, l, i)
    <2>1. ASSUME NEW lpn \in Lpns, ~(lba(lpn) = l /\ off(lpn) = i), Quiet(s, lpn)
          PROVE  ~InSequential(t, lba(lpn), off(lpn))
      <3>1. off(lpn) \in Int
        BY <2>1, LpnFacts DEF Offsets
      <3>2. ~InSequential(s, lba(lpn), off(lpn))
        BY <2>1 DEF Quiet
      <3>. QED
        BY <1>2, <1>5, <2>1, <3>1, <3>2 DEF InSequential
    <2>. QED
      BY <1>9, <2>1 DEF ColdBut
  <1>14. CountsTarget(t)
    <2>1. t.target[1] = b /\ t.target[2] = i /\ i < i + 1
      BY <1>2, <1>5
    <2>2. \A n \in 1 .. Len(t.ring) : t.ring[n].address \in LogSet(s)
      BY <1>5 DEF LogSet
    <2>. QED
      BY <1>5, <1>6, <2>1, <2>2 DEF CountsTarget
  <1>. QED
    BY <1>5, <1>6, <1>9, <1>10, <1>11, <1>12, <1>13, <1>14 DEF Ready

\* The next page of the first log block with room.
LEMMA AppendRandomReady ==
  ASSUME NEW s, Core(s, SequentialSet(s)), SeqSound(s, SequentialSet(s)), s.target = NoPpn,
         RingFull(s), ~LogFull(s), NEW D, NEW e, Wear(s, D, e),
         NEW lpn \in Lpns, HasData(s, lba(lpn)),
         NEW t, t = AppendRandom(s, lpn)
  PROVE  Ready(s, t, lba(lpn), off(lpn), e)
  <1>. DEFINE Q == SequentialSet(s)
              L == FAST_LOG_BLOCK_LIMIT
  <1>1. /\ s \in Tables /\ Alive(s) /\ ListsSound(s.bm) /\ Clean(s.flash) /\ Owned(s, Q)
        /\ \A b \in Available(s) : Erased(s.flash, b)
        /\ RingPages(s) /\ EntriesMapped(s) /\ Counted(s, Q)
    BY DEF Core, Shape
  <1>2. PICK k \in 1 .. L, i \in Offsets :
          /\ s.ring[k].numPages = i
          /\ t \in Tables /\ RingFull(t)
          /\ t.flash = s.flash /\ t.bm = s.bm /\ t.data_list = s.data_list
          /\ t.seq = s.seq /\ t.taken = s.taken /\ t.abort = s.abort
          /\ t.target = <<s.ring[k].address, i>> /\ t.target \in Ppns
          /\ \A n \in 1 .. L :
               /\ t.ring[n].address = s.ring[n].address
               /\ t.ring[n].numPages = IF n = k THEN i + 1 ELSE s.ring[n].numPages
               /\ \A j \in Offsets :
                    t.ring[n].aPages[j] = IF n = k /\ j = i THEN lpn ELSE s.ring[n].aPages[j]
    BY <1>1, AppendRandomEffect
  <1>. DEFINE b == s.ring[k].address
              p == <<b, i>>
  <1>3. /\ Len(s.ring) = L /\ Len(t.ring) = L /\ L \in Nat
        /\ i \in Int /\ \A j \in Offsets : j \in Int
        /\ \A n \in 1 .. L : s.ring[n].numPages \in Int
        /\ \A n \in 1 .. L : s.ring[n].address \in Blocks
    <2>1. s.ring \in Seq(LogPageBlock)
      BY <1>1, RecordFacts
    <2>2. Len(s.ring) = L /\ Len(t.ring) = L /\ L \in Nat
      BY <1>2, Numbers DEF RingFull
    <2>3. \A n \in 1 .. L : s.ring[n] \in LogPageBlock
      BY <2>1, <2>2
    <2>. QED
      BY <2>2, <2>3, Numbers DEF LogPageBlock, Offsets
  <1>4. /\ LogSet(t) = LogSet(s) /\ b \in LogSet(s)
        /\ \A n \in 1 .. L : s.ring[n].address \in LogSet(s)
    BY <1>2, <1>3, SMTT(30) DEF LogSet
  <1>5. /\ Available(t) = Available(s) /\ Waiting(t) = Waiting(s) /\ Idle(t) = Idle(s)
        /\ Mapped(t) = Mapped(s) /\ DataSet(t) = DataSet(s)
    BY <1>2 DEF Available, Waiting, Idle, Mapped, HasData, DataSet
  <1>6. /\ b \notin Idle(s) /\ b \notin Q /\ b \notin DataSet(s)
        /\ t.target = p /\ t.target[1] = b
    BY <1>1, <1>2, <1>4 DEF Owned
  <1>7. \A n \in 1 .. L, j \in Offsets :
          s.flash.page[<<s.ring[n].address, j>>] = "EMPTY" <=> j >= s.ring[n].numPages
    <2>. SUFFICES ASSUME NEW n \in 1 .. L, NEW j \in Offsets
                  PROVE  s.flash.page[<<s.ring[n].address, j>>] = "EMPTY"
                           <=> j >= s.ring[n].numPages
      OBVIOUS
    <2>1. <<s.ring[n].address, j>> \in Ppns
      BY <1>3 DEF Ppns
    <2>2. <<s.ring[n].address, j>> # NoPpn
      BY <2>1, NoPpnNotPage
    <2>. QED
      BY <1>1, <1>3, <2>2 DEF RingPages
  <1>8. Owned(t, Q)
    <2>1. \A n, m \in 1 .. Len(t.ring) : t.ring[n].address = t.ring[m].address => n = m
      BY <1>1, <1>2, <1>3 DEF Owned
    <2>2. \A l, m \in Mapped(t) : t.data_list[l] = t.data_list[m] => l = m
      BY <1>1, <1>2, <1>5 DEF Owned
    <2>. HIDE DEF Q
    <2>. QED
      BY <1>1, <1>4, <1>5, <2>1, <2>2 DEF Owned
  <1>9. Counted(t, Q)
    BY <1>1, <1>2, <1>3, <1>5 DEF Counted
  <1>10. RingPages(t)
    <2>. SUFFICES ASSUME NEW n \in 1 .. Len(t.ring), NEW j \in Offsets
                  PROVE  t.flash.page[<<t.ring[n].address, j>>] = "EMPTY"
                           <=> j >= t.ring[n].numPages \/ <<t.ring[n].address, j>> = t.target
      BY DEF RingPages
    <2>0. n \in 1 .. L
      BY <1>3
    <2>1. t.flash.page[<<t.ring[n].address, j>>] = "EMPTY" <=> j >= s.ring[n].numPages
      BY <1>2, <1>7, <2>0
    <2>2. CASE n = k
      <3>1. <<t.ring[n].address, j>> = t.target <=> j = i
        BY <1>2, <2>2, <2>0
      <3>2. t.ring[n].numPages = i + 1 /\ s.ring[n].numPages = i
        BY <1>2, <2>0, <2>2
      <3>3. j >= i <=> j >= i + 1 \/ j = i
        BY <1>3
      <3>. QED
        BY <2>1, <3>1, <3>2, <3>3
    <2>3. CASE n # k
      <3>1. t.ring[n].address # b
        BY <1>1, <1>2, <1>3, <2>0, <2>3 DEF Owned
      <3>2. <<t.ring[n].address, j>> # t.target
        BY <1>6, <3>1
      <3>3. t.ring[n].numPages = s.ring[n].numPages
        BY <1>2, <2>0, <2>3
      <3>. QED
        BY <2>1, <3>2, <3>3
    <2>. QED
      BY <2>2, <2>3
  <1>11. \A n \in 1 .. L, j \in Offsets :
           j < t.ring[n].numPages =>
             \/ n = k /\ j = i /\ t.ring[n].aPages[j] = lpn
             \/ j < s.ring[n].numPages /\ t.ring[n].aPages[j] = s.ring[n].aPages[j]
    <2>. SUFFICES ASSUME NEW n \in 1 .. L, NEW j \in Offsets, j < t.ring[n].numPages
                  PROVE  \/ n = k /\ j = i /\ t.ring[n].aPages[j] = lpn
                         \/ j < s.ring[n].numPages /\ t.ring[n].aPages[j] = s.ring[n].aPages[j]
      OBVIOUS
    <2>1. CASE n = k /\ j = i
      BY <1>2, <2>1
    <2>2. CASE ~(n = k /\ j = i)
      <3>1. t.ring[n].aPages[j] = s.ring[n].aPages[j]
        BY <1>2, <2>2
      <3>2. j < s.ring[n].numPages
        BY <1>2, <1>3, <2>2, SMTT(30)
      <3>. QED
        BY <3>1, <3>2
    <2>. QED
      BY <2>1, <2>2
  <1>12. EntriesMapped(t)
    <2>. SUFFICES ASSUME NEW n \in 1 .. Len(t.ring), NEW j \in Offsets,
                         j < t.ring[n].numPages, t.ring[n].aPages[j] # NoLpn
                  PROVE  HasData(t, lba(t.ring[n].aPages[j]))
      BY DEF EntriesMapped
    <2>1. n \in 1 .. L /\ n \in 1 .. Len(s.ring)
      BY <1>3
    <2>2. CASE t.ring[n].aPages[j] = lpn
      BY <1>2, <2>2 DEF HasData
    <2>3. CASE j < s.ring[n].numPages /\ t.ring[n].aPages[j] = s.ring[n].aPages[j]
      BY <1>1, <1>2, <2>1, <2>3 DEF EntriesMapped, HasData
    <2>. QED
      BY <1>11, <2>1, <2>2, <2>3
  <1>13. TargetFree(t) /\ Alive(t) /\ s.flash.page[p] = "EMPTY"
    <2>1. s.flash.page[p] = "EMPTY"
      BY <1>2, <1>3, <1>7
    <2>. QED
      BY <1>1, <1>2, <1>5, <1>6, <2>1 DEF TargetFree, Alive
  <1>14. Core(t, Q)
    BY <1>1, <1>2, <1>5, <1>8, <1>9, <1>10, <1>12, <1>13 DEF Core, Shape
  <1>15. SequentialSet(t) = Q
    BY <1>2 DEF SequentialSet
  <1>16. SeqSound(t, Q)
    <2>1. CASE s.seq.lba = NoLba
      BY <1>2, <2>1 DEF SeqSound
    <2>2. CASE s.seq.lba # NoLba
      <3>1. s.seq.address \in Q /\ s.seq.address # b /\ s.seq.address \in Blocks
        BY <1>1, <1>6, <2>2 DEF SeqSound, Owned
      <3>2. \A j \in Offsets : <<s.seq.address, j>> \in Ppns
        BY <3>1 DEF Ppns
      <3>3. \A j \in Offsets : <<s.seq.address, j>> # NoPpn /\ <<s.seq.address, j>> # t.target
        BY <1>6, <3>1, <3>2, NoPpnNotPage
      <3>. HIDE DEF Q
      <3>. QED
        BY <1>2, <1>6, <2>2, <3>1, <3>3 DEF SeqSound, Q
    <2>. QED
      BY <2>1, <2>2
  <1>17. Wear(t, {}, e)
    <2>1. Wear(s, {}, e)
      BY WearLess
    <2>. QED
      BY <1>2, <1>5, <2>1 DEF Wear
  <1>18. ColdBut(s, t, lba(lpn), off(lpn))
    <2>. SUFFICES ASSUME NEW x \in Lpns, Quiet(s, x), ~(lba(x) = lba(lpn) /\ off(x) = off(lpn))
                  PROVE  Kept(s, t, x)
      BY DEF ColdBut
    <2>1. x # lpn
      OBVIOUS
    <2>2. LogEntries(t, x) = {}
      <3>. SUFFICES ASSUME NEW g \in LogEntries(t, x) PROVE FALSE
        OBVIOUS
      <3>1. /\ g[1] \in 1 .. L /\ g[2] \in Offsets /\ g \in (1 .. Len(s.ring)) \X Offsets
            /\ g[2] < t.ring[g[1]].numPages /\ t.ring[g[1]].aPages[g[2]] = x
        BY <1>3 DEF LogEntries
      <3>2. g[2] < s.ring[g[1]].numPages /\ s.ring[g[1]].aPages[g[2]] = x
        BY <1>11, <2>1, <3>1
      <3>3. g \in LogEntries(s, x)
        BY <3>1, <3>2 DEF LogEntries
      <3>. QED
        BY <3>3 DEF Quiet
    <2>3. ~InSequential(t, lba(x), off(x))
      BY <1>2 DEF Quiet, InSequential
    <2>. QED
      BY <1>2, <2>2, <2>3 DEF Kept, Quiet, AtHome, HomePage, HasData, Valid
  <1>19. t.target \in Ppns /\ t.target[1] \notin DataSet(t)
    BY <1>2, <1>5, <1>6
  <1>20. CountsTarget(t)
    <2>1. t.target[1] = b /\ t.target[2] = i /\ i < i + 1
      BY <1>2, <1>3
    <2>2. \A n \in 1 .. L : t.ring[n].address = b => n = k
      BY <1>1, <1>2, <1>3 DEF Owned
    <2>3. t.seq.address # b
      <3>1. s.seq.address = NoBlock \/ s.seq.address \in Q
        BY DEF SequentialSet
      <3>2. b # NoBlock
        BY <1>3, Numbers
      <3>. QED
        BY <1>2, <1>6, <3>1, <3>2
    <2>. QED
      BY <1>2, <1>3, <2>1, <2>2, <2>3 DEF CountsTarget
  <1>. QED
    BY <1>14, <1>15, <1>16, <1>17, <1>18, <1>19, <1>20 DEF Ready

\* A SW log block is started for logical block l after the old one was merged.
LEMMA RestartEffect ==
  ASSUME NEW s, NEW e, NEW u, SwMerged(s, u, e), NEW l \in Lbas, NEW i \in Offsets,
         \A x \in Lpns : Quiet(s, x) /\ lba(x) = l /\ off(x) = 0 => i = 0,
         NEW t, t = StartSequential(u, l)
  PROVE  Ready(s, t, l, i, e)
  <1>1. CASE EndsWorn(u, e)
    <2>1. ~Alive(u)
      BY <1>1, DeadStops
    <2>2. t = u
      BY <2>1 DEF StartSequential, TakeBlock
    <2>. QED
      BY <1>1, <2>2 DEF Ready
  <1>2. CASE Core(u, {}) /\ u.target = NoPpn /\ KeepsCold(s, u) /\ Wear(u, {}, e)
    <2>. DEFINE Z == {}
    <2>1. Core(u, {}) /\ u.target = NoPpn /\ Wear(u, Z, e)
      BY <1>2
    <2>2. Ready(u, t, l, 0, e) /\ (Alive(t) => t.target[1] \notin DataSet(t))
      <3>. HIDE DEF Z
      <3>. QED
        BY <2>1, StartSequentialEffect
    <2>3. Ready(s, t, l, 0, e)
      BY <1>2, <2>2, ReadyAfter
    <2>4. CASE EndsWorn(t, e)
      BY <2>4 DEF Ready
    <2>5. CASE ~EndsWorn(t, e)
      <3>1. /\ Core(t, SequentialSet(t)) /\ SeqSound(t, SequentialSet(t)) /\ Wear(t, {}, e)
            /\ t.target \in Ppns /\ CountsTarget(t) /\ ColdBut(s, t, l, 0)
        BY <2>3, <2>5 DEF Ready
      <3>2. t.target[1] \notin DataSet(t)
        BY <2>2, <3>1 DEF Core, Shape
      <3>3. ColdBut(s, t, l, i)
        BY <3>1 DEF ColdBut
      <3>. QED
        BY <3>1, <3>2, <3>3 DEF Ready
    <2>. QED
      BY <2>4, <2>5
  <1>. QED
    BY <1>1, <1>2 DEF SwMerged

\* write_to_log_block of a logical page whose logical block has a data block.
LEMMA WriteToLogEffect ==
  ASSUME NEW s, Core(s, SequentialSet(s)), SeqSound(s, SequentialSet(s)), s.target = NoPpn,
         RingFull(s), NEW D, NEW e, Wear(s, D, e),
         DataSet(s) \cup SequentialSet(s) \subseteq D, LogFull(s) => LogSet(s) \subseteq D,
         NEW lpn \in Lpns, HasData(s, lba(lpn)),
         NEW t, t = write_to_log_block(s, lpn)
  PROVE  Ready(s, t, lba(lpn), off(lpn), e)
  <1>. DEFINE l == lba(lpn)
              i == off(lpn)
              Q == SequentialSet(s)
  <1>1. l \in Lbas /\ i \in Offsets /\ s \in Tables /\ Alive(s) /\ Owned(s, Q)
    BY LpnFacts DEF Core, Shape
  <1>2. CASE i = 0
    <2>. DEFINE u == IF s.seq.offset = BLOCK_SIZE THEN switch_sequential(s)
                                                  ELSE merge_sequential(s)
    <2>1. t = StartSequential(u, l)
      BY <1>2 DEF write_to_log_block
    <2>2. SwMerged(s, u, e)
      BY SwitchEffect, MergeSequentialEffect
    <2>. HIDE DEF u, l, i, Q
    <2>. QED
      BY <1>1, <1>2, <2>1, <2>2, RestartEffect DEF l, i
  <1>3. CASE i # 0 /\ s.seq.lba = l /\ i = s.seq.offset
    <2>1. t = AppendSequential(s)
      BY <1>3 DEF write_to_log_block
    <2>. HIDE DEF l, i, Q
    <2>. QED
      BY <1>1, <1>3, <2>1, AppendSequentialEffect DEF l, i
  <1>4. CASE i # 0 /\ s.seq.lba = l /\ i # s.seq.offset
    <2>. DEFINE u == merge_sequential(s)
    <2>1. t = StartSequential(u, l)
      BY <1>4 DEF write_to_log_block
    <2>2. SwMerged(s, u, e)
      BY MergeSequentialEffect
    <2>3. ASSUME NEW x \in Lpns, Quiet(s, x), lba(x) = l, off(x) = 0
          PROVE  FALSE
      <3>1. s.seq.offset \in Int /\ s.seq.offset >= 1
        <4>1. s.seq.lba # NoLba
          BY <1>1, <1>4, Numbers
        <4>2. s.seq.offset \in 0 .. BLOCK_SIZE /\ BLOCK_SIZE \in Nat
          BY <1>1, RecordFacts, Numbers
        <4>. QED
          BY <4>1, <4>2 DEF SeqSound
      <3>2. InSequential(s, lba(x), off(x))
        BY <1>4, <2>3, <3>1 DEF InSequential
      <3>. QED
        BY <2>3, <3>2 DEF Quiet
    <2>. HIDE DEF u, l, i, Q
    <2>. QED
      BY <1>1, <2>1, <2>2, <2>3, RestartEffect DEF l, i
  <1>5. CASE i # 0 /\ s.seq.lba # l
    <2>. DEFINE u == IF LogFull(s) THEN RecycleOldest(s) ELSE s
    <2>1. t = AppendRandom(u, lpn)
      BY <1>5 DEF write_to_log_block
    <2>2. u \in Tables /\ (Alive(u) => RingFull(u) /\ ~LogFull(u))
      BY <1>1, RecycleEffect
    <2>3. Cardinality(Q) <= 1 /\ Core(s, Q)
      <3>1. Q \in SUBSET {s.seq.address}
        BY DEF SequentialSet
      <3>2. IsFiniteSet({s.seq.address}) /\ Cardinality({s.seq.address}) = 1
        BY FS_Singleton
      <3>. QED
        BY <3>1, <3>2, FS_Subset
    <2>4. \/ EndsWorn(u, e)
          \/ Core(u, Q) /\ Carries(s, u, Q) /\ Wear(u, {}, e) /\ HomesKept(s, u)
      <3>1. CASE LogFull(s)
        <4>1. DataSet(s) \cup LogSet(s) \subseteq D /\ u = RecycleOldest(s)
          BY <3>1
        <4>. HIDE DEF u, Q
        <4>. QED
          BY <2>3, <3>1, <4>1, RecycleOldestEffect
      <3>2. CASE ~LogFull(s)
        <4>1. u = s /\ Wear(s, {}, e) /\ HomesKept(s, s)
          BY <3>2, WearLess DEF HomesKept
        <4>2. Carries(s, s, Q)
          BY CarriesFacts
        <4>. HIDE DEF u, Q
        <4>. QED
          BY <2>3, <4>1, <4>2
      <3>. QED
        BY <3>1, <3>2
    <2>. HIDE DEF u, l, i
    <2>5. CASE EndsWorn(u, e)
      <3>1. t = u
        BY <2>1, <2>5, DeadStops DEF AppendRandom
      <3>. QED
        BY <2>5, <3>1 DEF Ready
    <2>6. CASE Core(u, Q) /\ Carries(s, u, Q) /\ Wear(u, {}, e) /\ HomesKept(s, u)
      <3>. DEFINE Z == {}
      <3>1. /\ u.seq = s.seq /\ u.target = NoPpn /\ KeepsCold(s, u)
            /\ SequentialSet(u) = Q
        BY <2>6 DEF Carries, SequentialSet
      <3>2. SeqSound(u, Q)
        <4>1. SeqSound(s, Q)
          OBVIOUS
        <4>2. s.seq.lba # NoLba => s.seq.address \in Q
          BY <4>1 DEF SeqSound
        <4>. HIDE DEF Q
        <4>. QED
          BY <1>1, <2>6, <4>1, <4>2, SeqCarried
      <3>3. Core(u, SequentialSet(u)) /\ SeqSound(u, SequentialSet(u)) /\ Wear(u, Z, e)
        BY <2>6, <3>1, <3>2
      <3>4. RingFull(u) /\ ~LogFull(u)
        BY <2>2, <2>6 DEF Core, Shape
      <3>5. HasData(u, lba(lpn))
        BY <1>1, <2>6 DEF HomesKept, l
      <3>. HIDE DEF Z, Q
      <3>6. Ready(u, t, lba(lpn), off(lpn), e)
        BY <2>1, <3>1, <3>3, <3>4, <3>5, AppendRandomReady
      <3>. QED
        BY <3>1, <3>6, ReadyAfter
    <2>. QED
      BY <2>4, <2>5, <2>6
  <1>. QED
    BY <1>2, <1>3, <1>4, <1>5

---------------------------------------------------------------------------
(* The requests.                                                           *)

\* A promise outside the SW log block.
LEMMA PromiseKeepsSeq ==
  ASSUME NEW s, NEW Q, Core(s, Q), SeqSound(s, Q), s.target = NoPpn,
         NEW p, p[1] \notin Q, NEW t, Promises(s, t, p), t.seq = s.seq
  PROVE  SeqSound(t, Q)
  <1>1. t.flash = s.flash /\ t.target = p
    BY DEF Promises
  <1>2. CASE s.seq.lba = NoLba
    BY <1>2 DEF SeqSound
  <1>3. CASE s.seq.lba # NoLba
    <2>1. s.seq.address \in Q /\ s.seq.address # p[1] /\ s.seq.address \in Blocks
      BY <1>3 DEF SeqSound, Core, Shape, Owned
    <2>2. \A j \in Offsets : <<s.seq.address, j>> \in Ppns
      BY <2>1 DEF Ppns
    <2>3. \A j \in Offsets : <<s.seq.address, j>> # NoPpn /\ <<s.seq.address, j>> # p
      BY <2>1, <2>2, NoPpnNotPage
    <2>. QED
      BY <1>1, <1>3, <2>1, <2>3 DEF SeqSound
  <1>. QED
    BY <1>2, <1>3

\* A page of the data block is promised.
LEMMA HomePromised ==
  ASSUME NEW s, NEW Q, Core(s, Q), Q = SequentialSet(s), SeqSound(s, Q), s.target = NoPpn,
         NEW D, NEW e, Wear(s, D, e), NEW lpn \in Lpns, HasData(s, lba(lpn)),
         s.flash.page[HomePage(s, lpn)] = "EMPTY",
         NEW t \in Tables, t.flash = s.flash, t.bm = s.bm, t.data_list = s.data_list,
         t.ring = s.ring, t.abort = s.abort, t.seq = s.seq, t.target = HomePage(s, lpn)
  PROVE  /\ Ready(s, t, lba(lpn), off(lpn), e)
         /\ Quiet(s, lpn) => Quiet(t, lpn)
         /\ HasData(t, lba(lpn)) /\ t.target = HomePage(t, lpn)
  <1>. DEFINE p == HomePage(s, lpn)
              b == s.data_list[lba(lpn)]
  <1>1. s \in Tables /\ Owned(s, Q)
    BY DEF Core, Shape
  <1>2. b \in DataSet(s) /\ b \notin Idle(s) /\ b \notin Q /\ p \in Ppns /\ p[1] = b
    BY <1>1, HomeFacts DEF HomePage
  <1>3. b \notin LogSet(s)
    BY <1>1, <1>2 DEF Owned
  <1>4. Promises(s, t, p)
    BY <1>2, <1>3 DEF Promises
  <1>5. /\ Core(t, Q) /\ Wear(t, D, e)
        /\ \A x \in Lpns : Quiet(s, x) /\ ~InSequential(t, lba(x), off(x)) => Kept(s, t, x)
    <2>. HIDE DEF p
    <2>. QED
      BY <1>4, PromiseEffect
  <1>6. SeqSound(t, Q)
    <2>. HIDE DEF p
    <2>. QED
      BY <1>2, <1>4, PromiseKeepsSeq
  <1>7. SequentialSet(t) = Q
    BY DEF SequentialSet
  <1>8. \A x \in Lpns : Quiet(s, x) => Kept(s, t, x)
    BY <1>5 DEF Quiet, InSequential
  <1>9. HasData(t, lba(lpn)) /\ t.target = HomePage(t, lpn)
    BY DEF HasData, HomePage
  <1>10. Wear(t, {}, e)
    BY <1>5, WearLess
  <1>11. ColdBut(s, t, lba(lpn), off(lpn))
    BY <1>8 DEF ColdBut
  <1>12. CountsTarget(t)
    <2>1. \A n \in 1 .. Len(t.ring) : t.ring[n].address \in LogSet(s)
      BY DEF LogSet
    <2>2. t.seq.address # b
      <3>1. s.seq.address = NoBlock \/ s.seq.address \in Q
        BY DEF SequentialSet
      <3>2. b # NoBlock
        BY DEF HasData
      <3>. QED
        BY <1>2, <3>1, <3>2
    <2>. QED
      BY <1>2, <1>3, <2>1, <2>2 DEF CountsTarget
  <1>. QED
    BY <1>2, <1>5, <1>6, <1>7, <1>8, <1>9, <1>10, <1>11, <1>12 DEF Ready, HomePage, Kept

\* Where a write goes: home while its page is EMPTY, else to the log.
LEMMA PlacedEffect ==
  ASSUME NEW s, Core(s, SequentialSet(s)), SeqSound(s, SequentialSet(s)), s.target = NoPpn,
         RingFull(s), NEW D, NEW e, Wear(s, D, e),
         DataSet(s) \cup SequentialSet(s) \subseteq D, LogFull(s) => LogSet(s) \subseteq D,
         NEW lpn \in Lpns, NEW t, t = Placed(s, lpn)
  PROVE  /\ Ready(s, t, lba(lpn), off(lpn), e)
         /\ \/ EndsWorn(t, e) \/ AtHome(s, lpn) \/ ~Quiet(s, lpn)
            \/ Quiet(t, lpn) /\ HasData(t, lba(lpn)) /\ t.target = HomePage(t, lpn)
  <1>. DEFINE l == lba(lpn)
              i == off(lpn)
              Q == SequentialSet(s)
              k == TakeBlock(s, "DATA")
              b == k.taken
  <1>1. /\ l \in Lbas /\ i \in Offsets /\ s \in Tables /\ Alive(s) /\ Owned(s, Q)
        /\ Clean(s.flash)
    BY LpnFacts DEF Core, Shape
  <1>2. t \in Tables
    BY <1>1, PlacedType DEF Proceeds
  <1>3. Core(s, Q) /\ Cardinality(Q) <= 1 /\ SeqSound(s, Q)
    <2>1. Q \in SUBSET {s.seq.address}
      BY DEF SequentialSet
    <2>2. IsFiniteSet({s.seq.address}) /\ Cardinality({s.seq.address}) = 1
      BY FS_Singleton
    <2>. QED
      BY <2>1, <2>2, FS_Subset
  <1>4. CASE ~HasData(s, l)
    <2>1. \/ EndsWorn(k, e)
          \/ /\ Core(k, Q \cup {b}) /\ Stays(s, k) /\ Wear(k, D, e)
             /\ b \in Blocks /\ b \in Idle(s) /\ b \notin Q /\ Erased(k.flash, b)
      <3>. HIDE DEF Q
      <3>. QED
        BY <1>3, TakeDataEffect
    <2>2. CASE EndsWorn(k, e)
      <3>1. t = k
        BY <1>1, <1>4, <2>2, DeadStops DEF Placed
      <3>. QED
        BY <2>2, <3>1 DEF Ready
    <2>3. CASE /\ Core(k, Q \cup {b}) /\ Stays(s, k) /\ Wear(k, D, e)
               /\ b \in Blocks /\ b \in Idle(s) /\ b \notin Q /\ Erased(k.flash, b)
      <3>. DEFINE P == Q \cup {b}
                  x == Remapped(k, l, b)
                  F == Without(D, k.data_list[l])
      <3>1. k \in Tables /\ Alive(k) /\ Core(k, P) /\ b \in P
        BY <2>3 DEF Core, Shape
      <3>2. /\ k.data_list = s.data_list /\ k.target = NoPpn /\ k.seq = s.seq
            /\ ~HasData(k, l)
        BY <1>4, <2>3 DEF Stays, SameTables, HasData
      <3>3. CopiedHome(k, l, b)
        BY <2>3, <3>2, LpnFacts DEF CopiedHome, AtHome, Valid, Erased
      <3>4. /\ Core(x, Without(P, b))
            /\ x.ring = k.ring /\ x.seq = k.seq /\ x.target = NoPpn /\ x.flash = k.flash
            /\ \A m \in Lbas : x.data_list[m] = IF m = l THEN b ELSE k.data_list[m]
            /\ KeepsCold(k, x) /\ Wear(x, F, e)
        <4>. HIDE DEF P, x, k, l
        <4>. QED
          BY <1>1, <2>3, <3>1, <3>2, <3>3, RemapEffect DEF x
      <3>5. Without(P, b) = Q
        BY <2>3 DEF Without
      <3>6. Core(x, Q)
        BY <3>4, <3>5
      <3>7. Carries(s, k, Q) /\ KeepsCold(s, x)
        <4>1. Shape(s, Q)
          BY <1>3 DEF Core
        <4>2. Carries(s, k, Q)
          <5>. HIDE DEF Q, k
          <5>. QED
            BY <2>3, <4>1, StaysCarries
        <4>. QED
          BY <3>4, <4>2, KeepsColdFacts DEF Carries
      <3>8. SeqSound(x, Q)
        <4>1. s.seq.lba # NoLba => s.seq.address \in Q
          BY <1>3 DEF SeqSound
        <4>2. SeqSound(k, Q)
          <5>. HIDE DEF Q, k
          <5>. QED
            BY <1>1, <1>3, <3>7, <4>1, SeqCarried
        <4>3. x.seq = k.seq /\ x.flash = k.flash /\ x.target = k.target
          BY <3>2, <3>4
        <4>. HIDE DEF Q, k, x
        <4>. QED
          BY <4>2, <4>3 DEF SeqSound
      <3>9. /\ t = [k EXCEPT !.data_list = [k.data_list EXCEPT ![l] = b], !.target = <<b, i>>]
            /\ x = [k EXCEPT !.data_list = [k.data_list EXCEPT ![l] = b]]
        BY <1>1, <1>4, <3>1, <3>2 DEF Placed, Remapped, OldGivenBack, Rehomed
      <3>10. /\ t.flash = x.flash /\ t.bm = x.bm /\ t.data_list = x.data_list
             /\ t.ring = x.ring /\ t.abort = x.abort /\ t.seq = x.seq
             /\ t.target = <<b, i>>
        BY <3>1, <3>9 DEF Tables, Records
      <3>11. /\ x.data_list[lba(lpn)] = b /\ HasData(x, lba(lpn))
             /\ HomePage(x, lpn) = <<b, i>> /\ x.flash.page[HomePage(x, lpn)] = "EMPTY"
        <4>1. x.data_list[lba(lpn)] = b /\ b # NoBlock
          BY <1>1, <2>3, <3>4, Numbers
        <4>2. HomePage(x, lpn) = <<b, i>>
          BY <4>1 DEF HomePage
        <4>3. k.flash.page[<<b, i>>] = "EMPTY"
          BY <1>1, <2>3 DEF Erased
        <4>. QED
          BY <3>4, <4>1, <4>2, <4>3 DEF HasData
      <3>12. x.target = NoPpn /\ Wear(x, F, e) /\ Q = SequentialSet(x)
        BY <3>2, <3>4 DEF SequentialSet
      <3>13. t.target = HomePage(x, lpn)
        BY <3>10, <3>11
      <3>14. /\ Ready(x, t, lba(lpn), off(lpn), e)
             /\ Quiet(x, lpn) => Quiet(t, lpn)
             /\ HasData(t, lba(lpn)) /\ t.target = HomePage(t, lpn)
        <4>. HIDE DEF Q, k, x, F
        <4>. QED
          BY <1>2, <3>6, <3>8, <3>10, <3>11, <3>12, <3>13, HomePromised
      <3>15. Ready(s, t, lba(lpn), off(lpn), e)
        <4>. HIDE DEF x
        <4>. QED
          BY <3>7, <3>14, ReadyAfter
      <3>16. Quiet(s, lpn) => Quiet(x, lpn)
        BY <3>7 DEF KeepsCold
      <3>. QED
        BY <3>14, <3>15, <3>16
    <2>. QED
      BY <2>1, <2>2, <2>3
  <1>5. CASE HasData(s, l)
    <2>1. DataPageAt(s, l, i) = HomePage(s, lpn) /\ HomePage(s, lpn) \in Ppns
      BY <1>1, <1>5, DataFacts DEF HomePage
    <2>2. CASE s.flash.page[HomePage(s, lpn)] = "EMPTY"
      <3>1. t = [s EXCEPT !.target = HomePage(s, lpn)]
        BY <1>1, <1>5, <2>1, <2>2 DEF Placed
      <3>2. /\ t.flash = s.flash /\ t.bm = s.bm /\ t.data_list = s.data_list
            /\ t.ring = s.ring /\ t.abort = s.abort /\ t.seq = s.seq
            /\ t.target = HomePage(s, lpn)
        BY <1>1, <3>1 DEF Tables, Records
      <3>3. HasData(s, lba(lpn)) /\ Q = SequentialSet(s)
        BY <1>5
      <3>4. /\ Ready(s, t, lba(lpn), off(lpn), e)
            /\ Quiet(s, lpn) => Quiet(t, lpn)
            /\ HasData(t, lba(lpn)) /\ t.target = HomePage(t, lpn)
        <4>. HIDE DEF Q
        <4>. QED
          BY <1>2, <1>3, <2>2, <3>2, <3>3, HomePromised
      <3>. QED
        BY <3>4
    <2>3. CASE s.flash.page[HomePage(s, lpn)] # "EMPTY"
      <3>1. t = write_to_log_block(s, lpn)
        BY <1>1, <1>5, <2>1, <2>3 DEF Placed
      <3>2. HasData(s, lba(lpn))
        BY <1>5
      <3>3. Ready(s, t, lba(lpn), off(lpn), e)
        <4>. HIDE DEF l, i, Q
        <4>. QED
          BY <3>1, <3>2, WriteToLogEffect
      <3>4. AtHome(s, lpn)
        <4>1. s.flash.page[HomePage(s, lpn)] \in PageStates
          BY <1>1, <2>1, RecordFacts DEF FlashType
        <4>. QED
          BY <1>1, <2>1, <2>3, <3>2, <4>1 DEF AtHome, Valid, Clean, PageStates
      <3>. QED
        BY <3>3, <3>4
    <2>. QED
      BY <2>2, <2>3
  <1>. QED
    BY <1>4, <1>5

\* The end of a handler forgets the block it took last.
LEMMA RelabelEffect ==
  ASSUME NEW s, NEW Q, Core(s, Q), SeqSound(s, Q), NEW t \in Tables,
         t.flash = s.flash, t.bm = s.bm, t.data_list = s.data_list, t.ring = s.ring,
         t.seq = s.seq, t.target = s.target, t.abort = s.abort
  PROVE  Core(t, Q) /\ SeqSound(t, Q) /\ KeepsCold(s, t)
  <1>1. /\ Available(t) = Available(s) /\ Waiting(t) = Waiting(s) /\ Idle(t) = Idle(s)
        /\ Mapped(t) = Mapped(s) /\ DataSet(t) = DataSet(s) /\ LogSet(t) = LogSet(s)
    BY DEF Available, Waiting, Idle, Mapped, DataSet, LogSet, HasData
  <1>2. Owned(t, Q) /\ Counted(t, Q)
    BY <1>1 DEF Core, Shape, Owned, Counted
  <1>3. RingPages(t) /\ EntriesMapped(t) /\ TargetFree(t)
    BY <1>1 DEF Core, Shape, RingPages, EntriesMapped, TargetFree, HasData
  <1>4. Core(t, Q)
    BY <1>1, <1>2, <1>3 DEF Core, Shape, Alive
  <1>5. KeepsCold(s, t)
    BY DEF KeepsCold, Quiet, LogEntries, InSequential, AtHome, HasData, HomePage, Valid
  <1>6. SeqSound(t, Q)
    BY DEF SeqSound
  <1>. QED
    BY <1>4, <1>5, <1>6

\* The event's page is written: nothing is promised any more, and of the pages
\* outside the log only that of the event changes.
LEMMA WrittenEffect ==
  ASSUME NEW s, NEW Q, Core(s, Q), SeqSound(s, Q), CountsTarget(s), s.target \in Ppns,
         NEW lpn \in Lpns, NEW d \in Payloads,
         s.target[1] \in DataSet(s) => HasData(s, lba(lpn)) /\ s.target = HomePage(s, lpn),
         NEW t \in Tables, t.flash = Program(s.flash, s.target, d),
         t.bm = s.bm, t.data_list = s.data_list, t.ring = s.ring, t.seq = s.seq,
         t.target = NoPpn, t.abort = s.abort
  PROVE  /\ Core(t, Q) /\ SeqSound(t, Q)
         /\ \A x \in Lpns : x # lpn /\ Quiet(s, x) => Kept(s, t, x)
         /\ Quiet(s, lpn) /\ HasData(s, lba(lpn)) /\ s.target = HomePage(s, lpn)
              => Quiet(t, lpn) /\ Shows(t, lpn, d)
  <1>. DEFINE p == s.target
  <1>1. /\ s \in Tables /\ Alive(s) /\ ListsSound(s.bm) /\ Clean(s.flash) /\ Owned(s, Q)
        /\ \A b \in Available(s) : Erased(s.flash, b)
        /\ RingPages(s) /\ EntriesMapped(s) /\ Counted(s, Q)
        /\ p[1] \notin Idle(s) /\ p # NoPpn
    BY NoPpnNotPage DEF Core, Shape, TargetFree
  <1>2. /\ \A q \in Ppns : /\ t.flash.page[q] = IF q = p THEN "VALID" ELSE s.flash.page[q]
                           /\ t.flash.data[q] = IF q = p THEN d ELSE s.flash.data[q]
        /\ \A b \in Blocks : t.flash.pages_valid[b]
                               = s.flash.pages_valid[b] + IF b = p[1] THEN 1 ELSE 0
        /\ p[1] \in Blocks /\ p[2] \in Offsets /\ p = <<p[1], p[2]>>
        /\ \A b \in Blocks : s.flash.pages_valid[b] \in Int
    <2>1. /\ s.flash \in FlashType /\ d \in Contents
          /\ s.flash.page \in [Ppns -> PageStates] /\ s.flash.data \in [Ppns -> Contents]
          /\ s.flash.pages_valid \in [Blocks -> Nat]
      BY <1>1, RecordFacts DEF FlashType, Contents
    <2>2. p[1] \in Blocks /\ p[2] \in Offsets /\ p = <<p[1], p[2]>>
      BY DEF Ppns
    <2>3. /\ t.flash.page = [s.flash.page EXCEPT ![p] = "VALID"]
          /\ t.flash.data = [s.flash.data EXCEPT ![p] = d]
          /\ t.flash.pages_valid
               = [s.flash.pages_valid EXCEPT ![p[1]] = s.flash.pages_valid[p[1]] + 1]
      BY <2>1, ProgramEffect, SMTT(30)
    <2>. QED
      BY <2>1, <2>2, <2>3
  <1>3. /\ Available(t) = Available(s) /\ Waiting(t) = Waiting(s) /\ Idle(t) = Idle(s)
        /\ Mapped(t) = Mapped(s) /\ DataSet(t) = DataSet(s) /\ LogSet(t) = LogSet(s)
    BY DEF Available, Waiting, Idle, Mapped, DataSet, LogSet, HasData
  <1>4. Owned(t, Q) /\ Counted(t, Q)
    BY <1>1, <1>3 DEF Owned, Counted
  <1>5. EntriesMapped(t) /\ TargetFree(t) /\ Alive(t)
    BY <1>1 DEF EntriesMapped, TargetFree, HasData, Alive
  <1>6. Clean(t.flash)
    BY <1>1, <1>2 DEF Clean
  <1>7. \A b \in Blocks, i \in Offsets : <<b, i>> \in Ppns /\ <<b, i>> # NoPpn
    BY NoPpnNotPage DEF Ppns
  <1>8. ASSUME NEW b \in Available(t) PROVE Erased(t.flash, b)
    <2>1. b \in Blocks /\ b # p[1] /\ Erased(s.flash, b)
      BY <1>1, <1>3, <1>8, IdleFacts DEF Idle
    <2>2. \A i \in Offsets : <<b, i>> # p
      BY <2>1
    <2>. QED
      BY <1>2, <1>7, <2>1, <2>2 DEF Erased
  <1>9. RingPages(t)
    <2>. SUFFICES ASSUME NEW n \in 1 .. Len(t.ring), NEW i \in Offsets
                  PROVE  t.flash.page[<<t.ring[n].address, i>>] = "EMPTY"
                           <=> i >= t.ring[n].numPages \/ <<t.ring[n].address, i>> = t.target
      BY DEF RingPages
    <2>. DEFINE q == <<s.ring[n].address, i>>
    <2>1. n \in 1 .. Len(s.ring) /\ s.ring[n].address \in Blocks
          /\ s.ring[n].numPages \in Int /\ i \in Int
      <3>1. s.ring \in Seq(LogPageBlock)
        BY <1>1, RecordFacts
      <3>2. s.ring[n] \in LogPageBlock
        BY <3>1
      <3>. QED
        BY <3>2, Numbers DEF LogPageBlock, Offsets
    <2>2. q \in Ppns /\ q # NoPpn
      BY <1>7, <2>1
    <2>3. s.flash.page[q] = "EMPTY" <=> i >= s.ring[n].numPages \/ q = p
      BY <1>1, <2>1 DEF RingPages
    <2>4. q = p => ~(i >= s.ring[n].numPages)
      BY <1>2, <2>1 DEF CountsTarget
    <2>. QED
      BY <1>2, <2>2, <2>3, <2>4
  <1>10. Core(t, Q)
    BY <1>1, <1>3, <1>4, <1>5, <1>6, <1>8, <1>9 DEF Core, Shape
  <1>11. SeqSound(t, Q)
    <2>1. CASE s.seq.lba = NoLba
      BY <2>1 DEF SeqSound
    <2>2. CASE s.seq.lba # NoLba
      <3>. DEFINE a == s.seq.address
      <3>1. /\ a \in Q /\ a \in Blocks /\ s.seq.offset >= 1 /\ s.seq.offset \in Int
            /\ s.flash.pages_valid[a] + (IF p[1] = a THEN 1 ELSE 0) = s.seq.offset
        BY <1>1, <2>2, RecordFacts, Numbers DEF SeqSound, Owned
      <3>2. \A i \in Offsets : s.flash.page[<<a, i>>] = "EMPTY"
                                 <=> i >= s.seq.offset \/ <<a, i>> = p
        BY <2>2 DEF SeqSound
      <3>3. \A i \in Offsets : i \in Int /\ (<<a, i>> = p => ~(i >= s.seq.offset))
        BY <1>2, <3>1 DEF CountsTarget, Offsets
      <3>4. \A i \in Offsets : t.flash.page[<<a, i>>] = "EMPTY" <=> i >= s.seq.offset
        BY <1>2, <1>7, <3>1, <3>2, <3>3
      <3>5. t.flash.pages_valid[a] + 0 = s.seq.offset
        BY <1>2, <3>1
      <3>. QED
        BY <1>7, <2>2, <3>1, <3>4, <3>5 DEF SeqSound
    <2>. QED
      BY <2>1, <2>2
  <1>12. \A x \in Lpns : /\ Quiet(t, x) <=> Quiet(s, x)
                         /\ HasData(t, lba(x)) <=> HasData(s, lba(x))
                         /\ HomePage(t, x) = HomePage(s, x)
    BY DEF Quiet, LogEntries, InSequential, HasData, HomePage
  <1>13. ASSUME NEW x \in Lpns, x # lpn, Quiet(s, x)
         PROVE  Kept(s, t, x)
    <2>1. CASE ~HasData(s, lba(x))
      BY <1>12, <1>13, <2>1 DEF Kept, AtHome
    <2>2. CASE HasData(s, lba(x))
      <3>1. /\ s.data_list[lba(x)] \in DataSet(s) /\ HomePage(s, x) \in Ppns
            /\ lba(x) \in Mapped(s)
        BY <1>1, <2>2, HomeFacts, LpnFacts DEF Mapped
      <3>2. HomePage(s, x) # p
        <4>. SUFFICES ASSUME HomePage(s, x) = p PROVE FALSE
          OBVIOUS
        <4>1. p[1] \in DataSet(s)
          BY <3>1 DEF HomePage
        <4>2. HasData(s, lba(lpn)) /\ p = HomePage(s, lpn)
          BY <4>1
        <4>3. /\ s.data_list[lba(x)] = s.data_list[lba(lpn)] /\ off(x) = off(lpn)
              /\ lba(lpn) \in Mapped(s)
          BY <4>2, LpnFacts DEF HomePage, Mapped
        <4>4. lba(x) = lba(lpn)
          BY <1>1, <3>1, <4>3 DEF Owned
        <4>. QED
          BY <1>13, <4>3, <4>4, LpnFacts
      <3>. QED
        BY <1>2, <1>12, <1>13, <3>1, <3>2 DEF Kept, AtHome, Valid
    <2>. QED
      BY <2>1, <2>2
  <1>14. ASSUME Quiet(s, lpn), HasData(s, lba(lpn)), p = HomePage(s, lpn)
         PROVE  Quiet(t, lpn) /\ Shows(t, lpn, d)
    <2>1. t.flash.page[p] = "VALID" /\ t.flash.data[p] = d
      BY <1>2
    <2>. QED
      BY <1>12, <1>14, <2>1, PayloadAssumption DEF Shows, AtHome, Valid
  <1>. QED
    BY <1>10, <1>11, <1>13, <1>14

\* The end of a handler as the tables of the next request.
LEMMA BecomesNow ==
  ASSUME NEW s \in Tables, Alive(s), Becomes(s)
  PROVE  /\ Now' \in Tables
         /\ Now'.flash = s.flash /\ Now'.bm = s.bm /\ Now'.data_list = s.data_list
         /\ Now'.ring = s.ring /\ Now'.seq = s.seq /\ Now'.abort = s.abort
         /\ Now'.target = NoPpn
  <1>1. /\ abort' = s.abort /\ flash' = s.flash /\ bm' = s.bm /\ data_list' = s.data_list
        /\ log_pages' = s.ring /\ log_page_next' = s.log_page_next
        /\ sequential_address' = s.seq.address
        /\ sequential_offset' = s.seq.offset
        /\ sequential_logicalblock_address' = s.seq.lba
    BY DEF Becomes
  <1>2. s.seq \in SequentialState
    BY RecordFacts
  <1>3. Now'.seq = s.seq
    BY <1>1, <1>2 DEF Now, SequentialState
  <1>4. Now' \in Records
    BY <1>1, <1>2, <1>3, RecordFacts DEF Now, Records
  <1>5. Now'.seq.lba # NoLba => Now'.seq.address \in Blocks
    BY <1>3, RecordFacts
  <1>6. Now' \in Tables
    BY <1>4, <1>5 DEF Tables
  <1>. QED
    BY <1>1, <1>3, <1>6 DEF Now

---------------------------------------------------------------------------
(* The invariant of the specification.                                     *)

\* A handler that ends in an abort ends for want of erases or of blocks.
LEMMA WornEnd ==
  ASSUME NEW t, EndsWorn(t, flash.erases_remaining), Becomes(t)
  PROVE  ~UntilTrim' /\ OnlyWearEndsIt'
  <1>1. ~Alive(t) /\ abort' = t.abort
    BY DeadStops DEF Becomes
  <1>2. flash' = flash
    BY <1>1 DEF Becomes
  <1>3. ~UntilTrim'
    BY <1>1 DEF UntilTrim, Running, Alive
  <1>4. OnlyWearEndsIt'
    BY <1>1, <1>2 DEF EndsWorn, OnlyWearEndsIt, LargeEnough
  <1>. QED
    BY <1>3, <1>4

\* What a request starts from once the log blocks are there.
Started(t, e) ==
  /\ Core(t, SequentialSet(t)) /\ SeqSound(t, SequentialSet(t)) /\ t.target = NoPpn
  /\ RingFull(t) /\ KeepsCold(Now, t)
  /\ \E D : /\ Wear(t, D, e) /\ DataSet(t) \cup SequentialSet(t) \subseteq D
            /\ LogFull(t) => LogSet(t) \subseteq D

\* initialize_log_pages at the beginning of a request.
LEMMA HandlerStart ==
  ASSUME TypeInv, LiveInv, NEW t, t = Initialized(Now)
  PROVE  EndsWorn(t, flash.erases_remaining) \/ Started(t, flash.erases_remaining)
  <1>. DEFINE s == Now
              e == flash.erases_remaining
              Q == SequentialSet(s)
              D == DataSet(s) \cup LogSet(s) \cup Q
  <1>1. SequentialBlocks = Q /\ s.target = NoPpn /\ s.flash = flash
    BY DEF SequentialBlocks, SequentialSet, Now
  <1>2. Core(s, Q) /\ SeqSound(s, Q) /\ s \in Tables /\ Owned(s, Q) /\ RingOrdered(s)
    BY <1>1, NowType DEF LiveInv, Core, Shape
  <1>3. Cardinality(Q) <= 1
    <2>1. Q \in SUBSET {s.seq.address}
      BY DEF SequentialSet
    <2>2. IsFiniteSet({s.seq.address}) /\ Cardinality({s.seq.address}) = 1
      BY FS_Singleton
    <2>. QED
      BY <2>1, <2>2, FS_Subset
  <1>4. Wear(s, D, e)
    <2>1. D \in SUBSET Blocks /\ Q \subseteq Blocks
      BY <1>2, OwnerCounts DEF Owned
    <2>2. D \cap Idle(s) = {}
      BY <1>2 DEF Owned
    <2>3. \A b \in Waiting(s) \cup D : s.flash.erases_remaining[b] = e[b]
      BY <1>1
    <2>. QED
      BY <2>1, <2>2, <2>3 DEF Wear
  <1>5. /\ LogSet(s) \subseteq D /\ DataSet(s) \subseteq D /\ Q \subseteq D
        /\ s.seq.lba # NoLba => s.seq.address \in Q
    BY <1>2 DEF SeqSound
  <1>. HIDE DEF s, Q, D, e
  <1>6. \/ EndsWorn(t, e)
        \/ /\ Core(t, Q) /\ Carries(s, t, Q) /\ Wear(t, D, e)
           /\ LogFull(t) => LogSet(t) \subseteq D
    BY <1>2, <1>3, <1>4, <1>5, InitializedEffect DEF s
  <1>7. ASSUME Core(t, Q), Carries(s, t, Q), Wear(t, D, e), LogFull(t) => LogSet(t) \subseteq D
        PROVE  Started(t, e)
    <2>1. t.seq = s.seq /\ t.target = NoPpn /\ KeepsCold(s, t)
      BY <1>1, <1>7 DEF Carries
    <2>2. SequentialSet(t) = Q
      BY <2>1 DEF SequentialSet, Q
    <2>3. SeqSound(t, Q)
      BY <1>2, <1>5, <1>7, SeqCarried
    <2>4. Alive(t)
      BY <1>7 DEF Core, Shape
    <2>5. t.data_list = s.data_list /\ RingFull(t)
      BY <1>2, <2>4, InitializedType DEF s
    <2>6. DataSet(t) = DataSet(s)
      BY <2>5 DEF DataSet, Mapped, HasData
    <2>. QED
      BY <1>5, <1>7, <2>1, <2>2, <2>3, <2>5, <2>6 DEF Started, s
  <1>. QED
    BY <1>6, <1>7 DEF e

\* A read and a write leave what they found, unless they end the program.
LEMMA ReadLive ==
  ASSUME TypeInv, LiveInv, read
  PROVE  (UntilTrim' => LiveInv') /\ OnlyWearEndsIt'
  <1>. DEFINE t == Initialized(Now)
              e == flash.erases_remaining
  <1>1. EndsWorn(t, e) \/ Started(t, e)
    BY HandlerStart
  <1>2. Becomes(t) /\ rewritten' = rewritten /\ stored' = stored
    BY DEF read
  <1>. HIDE DEF t
  <1>3. CASE EndsWorn(t, e)
    BY <1>2, <1>3, WornEnd
  <1>4. CASE Started(t, e)
    <2>. DEFINE n == Now'
                Q == SequentialSet(t)
    <2>1. t \in Tables /\ Alive(t) /\ Core(t, Q) /\ SeqSound(t, Q) /\ t.target = NoPpn
          /\ KeepsCold(Now, t)
      BY <1>4 DEF Started, Core, Shape
    <2>2. /\ n \in Tables
          /\ n.flash = t.flash /\ n.bm = t.bm /\ n.data_list = t.data_list
          /\ n.ring = t.ring /\ n.seq = t.seq /\ n.abort = t.abort /\ n.target = t.target
      BY <1>2, <2>1, BecomesNow
    <2>3. SequentialSet(n) = Q
      BY <2>2 DEF SequentialSet
    <2>4. Core(n, Q) /\ SeqSound(n, Q) /\ KeepsCold(t, n)
      <3>. HIDE DEF n, Q
      <3>. QED
        BY <2>1, <2>2, RelabelEffect
    <2>5. KeepsCold(Now, n)
      BY <2>1, <2>4, KeepsColdFacts
    <2>6. \A lpn \in Lpns : lpn \notin rewritten' =>
            Quiet(n, lpn) /\ Shows(n, lpn, stored'[lpn])
      BY <1>2, <2>5, KeepsColdFacts DEF LiveInv, ColdInv
    <2>7. abort' = "none"
      BY <1>2, <2>1 DEF Becomes, Alive
    <2>. QED
      BY <2>3, <2>4, <2>6, <2>7
         DEF LiveInv, ColdInv, SequentialBlocks, SequentialSet, Now, OnlyWearEndsIt
  <1>. QED
    BY <1>1, <1>3, <1>4

\* A write.
LEMMA WriteLive ==
  ASSUME TypeInv, LiveInv, NEW lpn \in Lpns, NEW d \in Payloads, write(lpn, d)
  PROVE  (UntilTrim' => LiveInv') /\ OnlyWearEndsIt'
  <1>. DEFINE e == flash.erases_remaining
              l == lba(lpn)
              i == off(lpn)
              s1 == Initialized(Now)
              s2 == Placed(s1, lpn)
              s3 == EraseInvalidBlocks(s2)
              s4 == WritePage(s3, s3.target, d, NoPpn)
              n == Now'
  <1>1. Becomes(s4)
    BY DEF write
  <1>2. EndsWorn(s1, e) \/ Started(s1, e)
    BY HandlerStart
  <1>. HIDE DEF s1
  <1>3. CASE EndsWorn(s1, e)
    <2>1. ~Alive(s1)
      BY <1>3, DeadStops
    <2>2. s4 = s1
      BY <2>1 DEF Placed, EraseInvalidBlocks, WritePage
    <2>. QED
      BY <1>1, <1>3, <2>2, WornEnd
  <1>4. CASE Started(s1, e)
    <2>1. /\ Ready(s1, s2, l, i, e)
          /\ \/ EndsWorn(s2, e) \/ AtHome(s1, lpn) \/ ~Quiet(s1, lpn)
             \/ Quiet(s2, lpn) /\ HasData(s2, l) /\ s2.target = HomePage(s2, lpn)
      <3>1. PICK D : /\ Wear(s1, D, e) /\ DataSet(s1) \cup SequentialSet(s1) \subseteq D
                     /\ LogFull(s1) => LogSet(s1) \subseteq D
        BY <1>4 DEF Started
      <3>2. /\ Core(s1, SequentialSet(s1)) /\ SeqSound(s1, SequentialSet(s1))
            /\ s1.target = NoPpn /\ RingFull(s1)
        BY <1>4 DEF Started
      <3>. QED
        BY <3>1, <3>2, PlacedEffect
    <2>. HIDE DEF s2
    <2>2. CASE EndsWorn(s2, e)
      <3>1. ~Alive(s2)
        BY <2>2, DeadStops
      <3>2. s4 = s2
        BY <3>1 DEF EraseInvalidBlocks, WritePage
      <3>. QED
        BY <1>1, <2>2, <3>2, WornEnd
    <2>3. CASE ~EndsWorn(s2, e)
      <3>. DEFINE Q == SequentialSet(s2)
                  Z == {}
      <3>1. /\ Core(s2, Q) /\ SeqSound(s2, Q) /\ Wear(s2, Z, e)
            /\ s2.target \in Ppns /\ CountsTarget(s2)
            /\ ColdBut(s1, s2, l, i)
            /\ s2.target[1] \in DataSet(s2) => HasData(s2, l) /\ s2.target = HomePage(s2, lpn)
        BY <2>1, <2>3 DEF Ready, HomePage
      <3>2. s2 \in Tables /\ Owned(s2, Q) /\ Alive(s2) /\ Shape(s2, Q)
        BY <3>1 DEF Core, Shape
      <3>3. \/ EndsWorn(s3, e)
            \/ Core(s3, Q) /\ Stays(s2, s3)
        <4>. HIDE DEF Q, Z
        <4>. QED
          BY <3>1, EraseInvalidEffect
      <3>. HIDE DEF s3
      <3>4. CASE EndsWorn(s3, e)
        <4>1. s4 = s3
          BY <3>4, DeadStops DEF WritePage
        <4>. QED
          BY <1>1, <3>4, <4>1, WornEnd
      <3>5. CASE Core(s3, Q) /\ Stays(s2, s3)
        <4>1. Carries(s2, s3, Q) /\ KeepsCold(s2, s3)
          <5>1. Carries(s2, s3, Q)
            <6>. HIDE DEF Q
            <6>. QED
              BY <3>2, <3>5, StaysCarries
          <5>. QED
            BY <5>1 DEF Carries
        <4>2. /\ s3.data_list = s2.data_list /\ s3.ring = s2.ring /\ s3.seq = s2.seq
              /\ s3.target = s2.target
          BY <3>5 DEF Stays, SameTables
        <4>3. SeqSound(s3, Q)
          <5>1. s2.seq.lba # NoLba => s2.seq.address \in Q
            BY <3>1 DEF SeqSound
          <5>. HIDE DEF Q
          <5>. QED
            BY <3>1, <3>2, <4>1, <5>1, SeqCarried
        <4>4. /\ CountsTarget(s3) /\ s3.target \in Ppns /\ DataSet(s3) = DataSet(s2)
              /\ HasData(s3, l) <=> HasData(s2, l)
              /\ HomePage(s3, lpn) = HomePage(s2, lpn)
          BY <3>1, <4>2 DEF CountsTarget, DataSet, Mapped, HasData, HomePage
        <4>5. s3 \in Tables /\ Alive(s3) /\ s3.flash \in FlashType /\ d \in Contents
          BY <3>5, RecordFacts DEF Core, Shape, Contents
        <4>6. CanProgram(s3.flash, s3.target)
          <5>1. TargetFree(s3) /\ s3.target # NoPpn
            BY <3>5, <4>4, NoPpnNotPage DEF Core, Shape
          <5>. QED
            BY <5>1 DEF TargetFree, CanProgram
        <4>7. /\ s4 \in Tables /\ SameTables(s3, s4) /\ s4.bm = s3.bm
              /\ Alive(s4) /\ s4.flash = Program(s3.flash, s3.target, d)
          BY <4>4, <4>5, <4>6, WritePageType
        <4>. HIDE DEF s4
        <4>8. /\ n \in Tables
              /\ n.flash = Program(s3.flash, s3.target, d)
              /\ n.bm = s3.bm /\ n.data_list = s3.data_list /\ n.ring = s3.ring
              /\ n.seq = s3.seq /\ n.target = NoPpn /\ n.abort = s3.abort
          BY <1>1, <4>5, <4>7, BecomesNow DEF SameTables, Alive
        <4>9. SequentialSet(n) = Q
          BY <4>2, <4>8 DEF SequentialSet
        <4>10. s3.target[1] \in DataSet(s3) => HasData(s3, lba(lpn)) /\ s3.target = HomePage(s3, lpn)
          BY <3>1, <4>2, <4>4
        <4>11. /\ Core(n, Q) /\ SeqSound(n, Q)
               /\ \A x \in Lpns : x # lpn /\ Quiet(s3, x) => Kept(s3, n, x)
               /\ Quiet(s3, lpn) /\ HasData(s3, lba(lpn)) /\ s3.target = HomePage(s3, lpn)
                    => Quiet(n, lpn) /\ Shows(n, lpn, d)
          <5>. HIDE DEF n, Q
          <5>. QED
            BY <3>5, <4>3, <4>4, <4>8, <4>10, WrittenEffect
        <4>. HIDE DEF n
        <4>12. \A x \in Lpns : x \notin rewritten =>
                 Quiet(s1, x) /\ Shows(s1, x, stored[x])
          BY <1>4, KeepsColdFacts DEF LiveInv, ColdInv, Started
        <4>13. ASSUME NEW x \in Lpns, x # lpn, x \notin rewritten
               PROVE  Quiet(n, x) /\ Shows(n, x, stored[x])
          <5>1. ~(lba(x) = l /\ off(x) = i)
            BY <4>13, LpnFacts
          <5>2. Kept(s1, s2, x)
            BY <3>1, <4>12, <4>13, <5>1 DEF ColdBut
          <5>3. Kept(s2, s3, x)
            BY <4>1, <5>2 DEF KeepsCold, Kept
          <5>4. Kept(s3, n, x)
            BY <4>11, <4>13, <5>3 DEF Kept
          <5>. QED
            BY <4>12, <4>13, <5>2, <5>3, <5>4 DEF Kept, Shows
        <4>14. ASSUME lpn \notin rewritten'
               PROVE  Quiet(n, lpn) /\ Shows(n, lpn, d)
          <5>1. lpn \notin rewritten /\ stored[lpn] = NoData
            BY <4>14 DEF write
          <5>2. Quiet(s1, lpn) /\ ~AtHome(s1, lpn)
            BY <4>12, <5>1 DEF Shows
          <5>3. Quiet(s2, lpn) /\ HasData(s2, l) /\ s2.target = HomePage(s2, lpn)
            BY <2>1, <2>3, <5>2
          <5>4. Quiet(s3, lpn)
            BY <4>1, <5>3 DEF KeepsCold
          <5>. QED
            BY <4>2, <4>4, <4>11, <5>3, <5>4
        <4>15. \A x \in Lpns : x \notin rewritten' => Quiet(n, x) /\ Shows(n, x, stored'[x])
          <5>1. /\ stored' = [stored EXCEPT ![lpn] = d] /\ stored \in [Lpns -> Contents]
                /\ rewritten \subseteq rewritten'
            BY DEF write, TypeInv, TypeOK
          <5>2. stored'[lpn] = d /\ \A x \in Lpns : x # lpn => stored'[x] = stored[x]
            BY <5>1
          <5>. QED
            BY <4>13, <4>14, <5>1, <5>2
        <4>16. abort' = "none"
          BY <1>1, <4>7 DEF Becomes, Alive
        <4>. QED
          BY <4>9, <4>11, <4>15, <4>16
             DEF n, LiveInv, ColdInv, SequentialBlocks, SequentialSet, Now, OnlyWearEndsIt
      <3>. QED
        BY <3>3, <3>4, <3>5
    <2>. QED
      BY <2>2, <2>3
  <1>. QED
    BY <1>2, <1>3, <1>4

\* At the beginning every block is fresh.
LEMMA InitLive ==
  ASSUME Init
  PROVE  LiveInv
  <1>. DEFINE Z == {}
  <1>1. Now \in Tables
    BY InitTypes, NowType
  <1>2. /\ Now.flash = FlashInit /\ Now.bm = BlockManagerInit
        /\ Now.data_list = [l \in Lbas |-> NoBlock] /\ Now.ring = << >>
        /\ Now.seq = [address |-> NoBlock, offset |-> 0, lba |-> NoLba]
        /\ Now.target = NoPpn /\ Now.abort = "none"
    BY DEF Init, Now
  <1>3. Len(Now.ring) = 0 /\ 1 .. Len(Now.ring) = {}
    BY <1>2
  <1>4. ListsSound(Now.bm) /\ Available(Now) = Blocks /\ Waiting(Now) = {}
    <2>1. Members(<< >>) = {} /\ NoRepeat(<< >>) /\ \A b \in Blocks : b >= 0
      BY DEF Members, NoRepeat, Blocks
    <2>2. /\ Now.bm.free_list = << >> /\ Now.bm.invalid_list = << >> /\ Now.bm.fresh = 0
          /\ Now.bm.out_of_blocks = FALSE /\ Now.bm \in BlockManagerType
      BY <1>1, <1>2, RecordFacts DEF BlockManagerInit
    <2>. QED
      BY <2>1, <2>2 DEF ListsSound, Available, Waiting
  <1>5. Mapped(Now) = {} /\ DataSet(Now) = {} /\ LogSet(Now) = {} /\ Idle(Now) = Blocks
    BY <1>2, <1>3, <1>4 DEF Mapped, HasData, DataSet, LogSet, Idle
  <1>6. Owned(Now, Z)
    BY <1>3, <1>5 DEF Owned
  <1>7. Counted(Now, Z)
    <2>1. Now.bm.data_active = 0 /\ Now.bm.log_active = 0
      BY <1>2 DEF BlockManagerInit
    <2>2. Cardinality(Mapped(Now)) = 0 /\ Cardinality(Z) = 0
      BY <1>5, FS_EmptySet
    <2>3. 0 <= FAST_LOG_BLOCK_LIMIT
      BY Numbers
    <2>. HIDE DEF Z
    <2>. QED
      BY <1>3, <2>1, <2>2, <2>3 DEF Counted
  <1>8. /\ \A p \in Ppns : Now.flash.page[p] = "EMPTY"
        /\ \A b \in Blocks : Now.flash.pages_valid[b] = 0
    BY <1>2 DEF FlashInit
  <1>9. \A b \in Blocks : Erased(Now.flash, b)
    BY <1>8 DEF Erased, Ppns
  <1>10. Clean(Now.flash) /\ RingPages(Now) /\ EntriesMapped(Now) /\ TargetFree(Now)
    BY <1>2, <1>3, <1>8 DEF Clean, RingPages, EntriesMapped, TargetFree
  <1>11. Core(Now, Z)
    BY <1>1, <1>2, <1>4, <1>6, <1>7, <1>9, <1>10 DEF Core, Shape, Alive
  <1>12. SeqSound(Now, Z)
    BY <1>2 DEF SeqSound
  <1>13. SequentialBlocks = Z
    BY DEF Init, SequentialBlocks
  <1>14. ASSUME NEW lpn \in Lpns
         PROVE  Quiet(Now, lpn) /\ Shows(Now, lpn, stored[lpn])
    <2>1. LogEntries(Now, lpn) = {}
      BY <1>3 DEF LogEntries
    <2>2. ~InSequential(Now, lba(lpn), off(lpn)) /\ ~HasData(Now, lba(lpn))
      BY <1>2, LpnFacts, Numbers DEF InSequential, HasData
    <2>3. stored[lpn] = NoData
      BY DEF Init
    <2>. QED
      BY <2>1, <2>2, <2>3 DEF Quiet, Shows, AtHome
  <1>. QED
    BY <1>11, <1>12, <1>13, <1>14 DEF LiveInv, ColdInv

\* Until the first trim, and until a block is worn out or the device is too
\* small, every request finds each block with one owner, the log blocks and the
\* SW log block filled in order, and the pages written once at home.
THEOREM Invariance == Spec => []IInv
  <1>1. Init => IInv
    <2>. SUFFICES ASSUME Init PROVE IInv
      OBVIOUS
    <2>. QED
      BY InitTypes, InitLive DEF IInv, OnlyWearEndsIt, Init
  <1>2. IInv /\ [Next]_vars => IInv'
    <2>. SUFFICES ASSUME IInv, [Next]_vars PROVE IInv'
      OBVIOUS
    <2>1. TypeInv
      BY DEF IInv
    <2>2. CASE trimmed'
      <3>1. ~UntilTrim' /\ OnlyWearEndsIt'
        BY <2>2 DEF UntilTrim, OnlyWearEndsIt
      <3>2. TypeInv'
        <4>1. CASE read
          BY <2>1, <4>1, ReadType
        <4>2. ASSUME NEW lpn \in Lpns, NEW d \in Payloads, write(lpn, d)
              PROVE  TypeInv'
          BY <2>1, <4>2, WriteType
        <4>3. ASSUME NEW lpn \in Lpns, trim(lpn)
              PROVE  TypeInv'
          BY <2>1, <4>3, TrimType
        <4>4. CASE UNCHANGED vars
          BY <2>1, <4>4 DEF vars, tables, TypeInv, TypeOK, RingOrdered, RingFull, Now
        <4>. QED
          BY <4>1, <4>2, <4>3, <4>4 DEF Next
      <3>. QED
        BY <3>1, <3>2 DEF IInv
    <2>3. CASE ~trimmed'
      <3>1. CASE read
        <4>1. Running /\ ~trimmed
          BY <2>3, <3>1 DEF read
        <4>2. LiveInv
          BY <4>1 DEF IInv, UntilTrim
        <4>. QED
          BY <2>1, <3>1, <4>2, ReadType, ReadLive DEF IInv
      <3>2. ASSUME NEW lpn \in Lpns, NEW d \in Payloads, write(lpn, d)
            PROVE  IInv'
        <4>1. Running /\ ~trimmed
          BY <2>3, <3>2 DEF write
        <4>2. LiveInv
          BY <4>1 DEF IInv, UntilTrim
        <4>3. TypeInv'
          BY <2>1, <3>2, WriteType
        <4>4. (UntilTrim' => LiveInv') /\ OnlyWearEndsIt'
          BY <2>1, <3>2, <4>2, WriteLive
        <4>. QED
          BY <4>3, <4>4 DEF IInv
      <3>3. ASSUME NEW lpn \in Lpns, trim(lpn)
            PROVE  IInv'
        BY <2>3, <3>3 DEF trim
      <3>4. CASE UNCHANGED vars
        <4>1. TypeInv' /\ OnlyWearEndsIt'
          BY <2>1, <3>4 DEF vars, tables, IInv, OnlyWearEndsIt, TypeInv, TypeOK, RingOrdered,
                           RingFull, Now
        <4>2. UntilTrim' => LiveInv'
          <5>1. /\ UntilTrim' = UntilTrim /\ Now' = Now /\ SequentialBlocks' = SequentialBlocks
                /\ rewritten' = rewritten /\ stored' = stored
            BY <3>4 DEF vars, tables, UntilTrim, Running, Now, SequentialBlocks
          <5>. QED
            BY <5>1 DEF IInv, LiveInv, ColdInv
        <4>. QED
          BY <4>1, <4>2 DEF IInv
      <3>. QED
        BY <3>1, <3>2, <3>3, <3>4 DEF Next
    <2>. QED
      BY <2>2, <2>3
  <1>. QED
    BY <1>1, <1>2, PTL DEF Spec

\* Until a trim no assert of the Block_manager, of get_free_page or of
\* Page::_write fails on a device with two blocks more than its data and log
\* blocks, whatever is merged, switched and reused: only wear ends the program.
THEOREM OnlyWearEndsProgram == Spec => []OnlyWearEndsIt
  <1>1. IInv => OnlyWearEndsIt
    BY DEF IInv
  <1>. QED
    BY <1>1, Invariance, PTL

\* A page written once keeps its content while the overwrites of other pages
\* are logged, switched and merged.
THEOREM ColdDataKept == Spec => []ColdDataSurvives
  <1>1. IInv => ColdDataSurvives
    <2>. SUFFICES ASSUME IInv, UntilTrim, NEW lpn \in Lpns,
                         stored[lpn] # NoData, lpn \notin rewritten
                  PROVE  /\ ReadPpn(lpn) # NoPpn
                         /\ flash.page[ReadPpn(lpn)] = "VALID"
                         /\ flash.data[ReadPpn(lpn)] = stored[lpn]
      BY DEF ColdDataSurvives
    <2>1. LiveInv /\ Now \in Tables /\ Now.flash = flash
      BY NowType DEF IInv, Now
    <2>2. Quiet(Now, lpn) /\ AtHome(Now, lpn)
          /\ Now.flash.data[HomePage(Now, lpn)] = stored[lpn]
      BY <2>1 DEF LiveInv, ColdInv, Shows
    <2>3. lba(lpn) \in Lbas /\ off(lpn) \in Offsets /\ HasData(Now, lba(lpn))
      BY <2>2, LpnFacts DEF AtHome
    <2>4. /\ DataPageAt(Now, lba(lpn), off(lpn)) = HomePage(Now, lpn)
          /\ HomePage(Now, lpn) \in Ppns
      BY <2>1, <2>3, DataFacts DEF HomePage
    <2>5. ReadPpn(lpn) = HomePage(Now, lpn)
      BY <2>2, <2>3, <2>4 DEF ReadPpn, Quiet
    <2>. QED
      BY <2>1, <2>2, <2>4, <2>5, NoPpnNotPage DEF AtHome, Valid
  <1>. QED
    BY <1>1, Invariance, PTL

\* Through every switch, merge and reuse each block has one owner, blocks to be
\* handed out are EMPTY and the counters that start erasing agree.
THEOREM OwnedOnce == Spec => []BlocksOwnedOnce
  <1>1. IInv => BlocksOwnedOnce
    <2>. SUFFICES ASSUME IInv, UntilTrim PROVE BlocksOwnedOnce
      BY DEF BlocksOwnedOnce
    <2>. DEFINE s == Now
                Q == SequentialBlocks
    <2>1. LiveInv /\ s \in Tables /\ s.flash = flash /\ s.bm = bm
      BY NowType DEF IInv, Now
    <2>2. Core(s, Q)
      BY <2>1 DEF LiveInv
    <2>3. /\ ListsSound(bm) /\ Owned(s, Q) /\ Counted(s, Q) /\ bm \in BlockManagerType
          /\ \A b \in Available(s) : Erased(flash, b)
      BY <2>1, <2>2 DEF Core, Shape, ListsSound
    <2>4. /\ FreshBlocks = {b \in Blocks : b >= bm.fresh}
          /\ bm.fresh \in Int /\ bm.free_list \in Seq(Blocks) /\ bm.invalid_list \in Seq(Blocks)
      <3>1. /\ bm.fresh \in 0 .. NUMBER_OF_ADDRESSABLE_BLOCKS
            /\ bm.free_list \in Seq(Blocks) /\ bm.invalid_list \in Seq(Blocks)
        BY <2>3 DEF BlockManagerType
      <3>2. NUMBER_OF_ADDRESSABLE_BLOCKS \in Nat
        BY GeometryAssumption
      <3>3. \A b : b \in FreshBlocks <=> b \in Int /\ bm.fresh <= b /\ b <= LastBlock
        BY <3>1, <3>2 DEF FreshBlocks, LastBlock
      <3>4. \A b : b \in Blocks <=> b \in Int /\ 0 <= b /\ b <= LastBlock
        BY <3>2 DEF Blocks, LastBlock
      <3>5. \A b : b \in FreshBlocks <=> b \in Blocks /\ b >= bm.fresh
        BY <3>1, <3>3, <3>4
      <3>. QED
        BY <3>1, <3>5
    <2>5. /\ Available(s) = FreeBlocks \cup FreshBlocks /\ Waiting(s) = InvalidBlocks
          /\ Idle(s) = FreeBlocks \cup FreshBlocks \cup InvalidBlocks
          /\ DataBlocks = DataSet(s) /\ LogBlocks = LogSet(s)
          /\ Mapped(s) = {l \in Lbas : data_list[l] # NoBlock}
          /\ s.ring = log_pages /\ Len(s.ring) = Len(log_pages)
      <3>1. DOMAIN log_pages = 1 .. Len(log_pages)
        BY DEF IInv, TypeInv, TypeOK
      <3>. QED
        BY <2>1, <2>4, <3>1
           DEF Available, Waiting, Idle, FreeBlocks, InvalidBlocks, DataBlocks, LogBlocks,
               DataSet, LogSet, Mapped, HasData, Now
    <2>6. /\ FreeBlocks \subseteq Blocks /\ InvalidBlocks \subseteq Blocks
          /\ FreshBlocks \subseteq Blocks /\ Q \subseteq Blocks
          /\ DataBlocks \subseteq Blocks /\ LogBlocks \subseteq Blocks
      BY <2>1, <2>3, <2>4, <2>5, ListMembers, OwnerCounts
         DEF FreeBlocks, InvalidBlocks, Owned
    <2>7. /\ FreeBlocks \cap InvalidBlocks = {}
          /\ FreeBlocks \cap FreshBlocks = {} /\ InvalidBlocks \cap FreshBlocks = {}
      <3>1. FreeBlocks \cap InvalidBlocks = {}
        BY <2>3 DEF ListsSound, FreeBlocks, InvalidBlocks
      <3>2. \A b \in FreeBlocks \cup InvalidBlocks : b < bm.fresh
        BY <2>3 DEF ListsSound, FreeBlocks, InvalidBlocks
      <3>3. \A b \in FreshBlocks : b \in Int /\ ~(b < bm.fresh)
        <4>1. \A b \in Blocks : b \in Int
          BY DEF Blocks
        <4>. QED
          BY <2>4, <4>1
      <3>. QED
        BY <3>1, <3>2, <3>3
    <2>8. /\ (FreeBlocks \cup FreshBlocks \cup InvalidBlocks) \cap DataBlocks = {}
          /\ (FreeBlocks \cup FreshBlocks \cup InvalidBlocks) \cap LogBlocks = {}
          /\ (FreeBlocks \cup FreshBlocks \cup InvalidBlocks) \cap Q = {}
          /\ DataBlocks \cap LogBlocks = {} /\ DataBlocks \cap Q = {} /\ LogBlocks \cap Q = {}
          /\ Blocks \subseteq FreeBlocks \cup FreshBlocks \cup InvalidBlocks
                                \cup DataBlocks \cup LogBlocks \cup Q
      BY <2>3, <2>5 DEF Owned
    <2>9. /\ Owners \in Seq(SUBSET Blocks) /\ DOMAIN Owners = 1 .. 6
          /\ Owners[1] = FreeBlocks /\ Owners[2] = InvalidBlocks /\ Owners[3] = FreshBlocks
          /\ Owners[4] = DataBlocks /\ Owners[5] = LogBlocks /\ Owners[6] = Q
      BY <2>6 DEF Owners
    <2>. HIDE DEF Q
    <2>10. UNION Members(Owners) = Blocks
      <3>1. Members(Owners) = {FreeBlocks, InvalidBlocks, FreshBlocks, DataBlocks, LogBlocks, Q}
        <4>1. Members(Owners) = {Owners[i] : i \in 1 .. 6}
          <5>1. Len(Owners) = 6
            BY DEF Owners
          <5>. QED
            BY <5>1 DEF Members
        <4>2. \A i : i \in 1 .. 6 <=> i = 1 \/ i = 2 \/ i = 3 \/ i = 4 \/ i = 5 \/ i = 6
          OBVIOUS
        <4>. QED
          BY <2>9, <4>1, <4>2
      <3>. QED
        BY <2>6, <2>8, <3>1
    <2>11. \A i, j \in DOMAIN Owners : i # j => Owners[i] \cap Owners[j] = {}
      <3>1. \A i : i \in 1 .. 6 <=> i = 1 \/ i = 2 \/ i = 3 \/ i = 4 \/ i = 5 \/ i = 6
        OBVIOUS
      <3>2. \A x \in 1 .. 6 : Owners[x] \cap Owners[x] = Owners[x]
        OBVIOUS
      <3>. QED
        BY <2>7, <2>8, <2>9, <3>1
    <2>12. /\ Len(bm.free_list) = Cardinality(FreeBlocks)
           /\ Len(bm.invalid_list) = Cardinality(InvalidBlocks)
      BY <2>3, <2>4, CountedList DEF ListsSound, FreeBlocks, InvalidBlocks
    <2>13. Cardinality(DataBlocks) = Cardinality({l \in Lbas : data_list[l] # NoBlock})
      <3>1. Cardinality(DataSet(s)) = Cardinality(Mapped(s))
        BY <2>1, <2>3, OwnerCounts
      <3>. QED
        BY <2>5, <3>1
    <2>14. \A p \in Ppns : p[1] \in FreeBlocks \cup FreshBlocks => flash.page[p] = "EMPTY"
      <3>. SUFFICES ASSUME NEW p \in Ppns, p[1] \in FreeBlocks \cup FreshBlocks
                    PROVE  flash.page[p] = "EMPTY"
        OBVIOUS
      <3>1. p = <<p[1], p[2]>> /\ p[2] \in Offsets
        BY DEF Ppns
      <3>2. Erased(flash, p[1])
        BY <2>3, <2>5
      <3>. QED
        BY <3>1, <3>2 DEF Erased
    <2>15. bm.data_active = Cardinality(DataBlocks \cup Q)
      <3>1. IsFiniteSet(DataBlocks) /\ IsFiniteSet(Q)
        BY <2>6, BlocksFinite, FS_Subset
      <3>2. Cardinality(DataBlocks \cup Q) = Cardinality(DataBlocks) + Cardinality(Q)
        BY <2>8, <3>1, DisjointUnion
      <3>3. bm.data_active = Cardinality(Mapped(s)) + Cardinality(Q)
        BY <2>1, <2>3 DEF Counted
      <3>4. Cardinality(DataBlocks) = Cardinality(Mapped(s))
        BY <2>5, <2>13
      <3>. QED
        BY <3>2, <3>3, <3>4
    <2>16. bm.log_active = Len(log_pages)
      BY <2>1, <2>3, <2>5 DEF Counted
    <2>. QED
      BY <2>10, <2>11, <2>12, <2>13, <2>14, <2>15, <2>16 DEF BlocksOwnedOnce, Q
  <1>. QED
    BY <1>1, Invariance, PTL
================================================================================
