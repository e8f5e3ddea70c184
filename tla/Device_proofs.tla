---------------------------- MODULE Device_proofs ----------------------------
(***************************************************************************)
(* Proofs about the device hierarchy: whatever its geometry, every level   *)
(* that routes an event by a field of the address and the page memory that *)
(* is indexed by the linear number mean the same page, so Device           *)
(* implements FlatFlash; and what the hierarchy counts beside the pages -  *)
(* block states, free blocks of a plane, wear of a level - agrees with     *)
(* them after every event, but for the two steps a plane miscounts.        *)
(***************************************************************************)
EXTENDS Device, FiniteSetTheorems, SequenceTheorems, TLAPS

---------------------------------------------------------------------------
(* Division.                                                               *)

LEMMA DivMod ==
  ASSUME NEW a \in Nat, NEW n \in Nat \ {0}
  PROVE  /\ a \div n \in Nat
         /\ a % n \in 0 .. n - 1
         /\ a = n * (a \div n) + (a % n)
  OBVIOUS

LEMMA QuotientUnique ==
  ASSUME NEW n \in Nat \ {0}, NEW x \in Nat, NEW y \in Nat,
         NEW r \in 0 .. n - 1, NEW s \in 0 .. n - 1, n * x + r = n * y + s
  PROVE  x = y /\ r = s
  <1>1. ASSUME x > y PROVE FALSE
    <2>1. PICK k \in Nat \ {0} : x = y + k
      BY <1>1
    <2>2. n * x = n * y + n * k
      BY <2>1
    <2>3. n * k >= n
      BY <2>1
    <2>. QED
      BY <2>2, <2>3
  <1>2. ASSUME y > x PROVE FALSE
    <2>1. PICK k \in Nat \ {0} : y = x + k
      BY <1>2
    <2>2. n * y = n * x + n * k
      BY <2>1
    <2>3. n * k >= n
      BY <2>1
    <2>. QED
      BY <2>2, <2>3
  <1>3. x = y
    BY <1>1, <1>2
  <1>. QED
    BY <1>3

LEMMA DivUnique ==
  ASSUME NEW n \in Nat \ {0}, NEW x \in Nat, NEW r \in 0 .. n - 1
  PROVE  (n * x + r) \div n = x /\ (n * x + r) % n = r
  <1>. DEFINE a == n * x + r
  <1>1. a \in Nat
    OBVIOUS
  <1>. HIDE DEF a
  <1>2. /\ a \div n \in Nat
        /\ a % n \in 0 .. n - 1
        /\ a = n * (a \div n) + (a % n)
    BY <1>1, DivMod
  <1>3. n * (a \div n) + (a % n) = n * x + r
    BY <1>2 DEF a
  <1>4. a \div n = x /\ a % n = r
    BY <1>2, <1>3, QuotientUnique
  <1>. QED
    BY <1>4 DEF a

LEMMA DivBound ==
  ASSUME NEW a \in Nat, NEW n \in Nat \ {0}, NEW k \in Nat, a < n * k
  PROVE  a \div n < k
  <1>1. /\ a \div n \in Nat
        /\ a % n \in 0 .. n - 1
        /\ a = n * (a \div n) + (a % n)
    BY DivMod
  <1>2. SUFFICES ASSUME a \div n >= k PROVE FALSE
    BY <1>1
  <1>3. n * (a \div n) >= n * k
    BY <1>1, <1>2
  <1>. QED
    BY <1>1, <1>3

LEMMA ModSmall ==
  ASSUME NEW n \in Nat \ {0}, NEW a \in 0 .. n - 1
  PROVE  a % n = a
  OBVIOUS

---------------------------------------------------------------------------
(* Blocks as paths.                                                        *)

LEMMA Geometry ==
  /\ SSD_SIZE \in Nat \ {0} /\ PACKAGE_SIZE \in Nat \ {0} /\ DIE_SIZE \in Nat \ {0}
  /\ PLANE_SIZE \in Nat \ {0} /\ BLOCK_SIZE \in Nat \ {0}
  BY DeviceAssumption

LEMMA BlockPaths ==
  ASSUME NEW p, NEW d, NEW l, NEW b
  PROVE  <<p, d, l, b>> \in Blocks <=>
           /\ p \in 0 .. SSD_SIZE - 1
           /\ d \in 0 .. PACKAGE_SIZE - 1
           /\ l \in 0 .. DIE_SIZE - 1
           /\ b \in 0 .. PLANE_SIZE - 1
  BY DEF Blocks, PackageNumbers, DieNumbers, PlaneNumbers, BlockNumbers

LEMMA BlockIsPath ==
  ASSUME NEW b \in Blocks
  PROVE  b = <<b[1], b[2], b[3], b[4]>>
  BY DEF Blocks

---------------------------------------------------------------------------
(* Addresses.                                                              *)

\* The number of a block in the order of physical addresses.
BlockNumber(b) == PLANE_SIZE * (DIE_SIZE * (PACKAGE_SIZE * b[1] + b[2]) + b[3]) + b[4]

LEMMA Product ==
  ASSUME NEW a \in Nat \ {0}, NEW b \in Nat \ {0}
  PROVE  a * b \in Nat \ {0}
  OBVIOUS

\* A number of two digits is below the product of their bases.
LEMMA TwoDigits ==
  ASSUME NEW m \in Nat \ {0}, NEW n \in Nat \ {0}, NEW x \in 0 .. m - 1, NEW r \in 0 .. n - 1
  PROVE  n * x + r \in 0 .. m * n - 1
  <1>1. n * x <= n * (m - 1)
    OBVIOUS
  <1>2. n * (m - 1) = m * n - n
    OBVIOUS
  <1>3. n * x \in Nat /\ m * n \in Nat
    OBVIOUS
  <1>. QED
    BY <1>1, <1>2, <1>3

LEMMA BlockNumberType ==
  ASSUME NEW b \in Blocks
  PROVE  BlockNumber(b) \in FlatBlocks
  <1>1. /\ b[1] \in 0 .. SSD_SIZE - 1 /\ b[2] \in 0 .. PACKAGE_SIZE - 1
        /\ b[3] \in 0 .. DIE_SIZE - 1 /\ b[4] \in 0 .. PLANE_SIZE - 1
    BY DEF Blocks, PackageNumbers, DieNumbers, PlaneNumbers, BlockNumbers
  <1>. DEFINE x == PACKAGE_SIZE * b[1] + b[2]
              y == DIE_SIZE * x + b[3]
  <1>2. x \in 0 .. SSD_SIZE * PACKAGE_SIZE - 1
    BY <1>1, Geometry, TwoDigits
  <1>3. SSD_SIZE * PACKAGE_SIZE \in Nat \ {0}
    BY Geometry, Product
  <1>. HIDE DEF x
  <1>4. y \in 0 .. SSD_SIZE * PACKAGE_SIZE * DIE_SIZE - 1
    BY <1>1, <1>2, <1>3, Geometry, TwoDigits
  <1>5. SSD_SIZE * PACKAGE_SIZE * DIE_SIZE \in Nat \ {0}
    BY <1>3, Geometry, Product
  <1>. HIDE DEF y
  <1>6. PLANE_SIZE * y + b[4] \in 0 .. SSD_SIZE * PACKAGE_SIZE * DIE_SIZE * PLANE_SIZE - 1
    BY <1>1, <1>4, <1>5, Geometry, TwoDigits
  <1>. QED
    BY <1>6 DEF x, y, BlockNumber, FlatBlocks

LEMMA PhysicalNumber ==
  ASSUME NEW b \in Blocks
  PROVE  PhysicalAddress(b) = BLOCK_SIZE * BlockNumber(b)
  <1>1. b[1] \in Nat /\ b[2] \in Nat /\ b[3] \in Nat /\ b[4] \in Nat
    BY DEF Blocks, PackageNumbers, DieNumbers, PlaneNumbers, BlockNumbers
  <1>. QED
    BY <1>1, Geometry DEF PhysicalAddress, BlockNumber

\* set_linear_address: the fields name a block and a page of it, and the
\* number is that of the page.
LEMMA AddressFields ==
  ASSUME NEW n \in Linear, NEW valid
  PROVE  /\ Address(n, valid).block \in Blocks
         /\ Address(n, valid).page \in Pages
         /\ Address(n, valid).real_address = n
         /\ Address(n, valid).valid = valid
         /\ n = BLOCK_SIZE * BlockNumber(Address(n, valid).block) + Address(n, valid).page
  <1>. DEFINE blk == n \div BLOCK_SIZE
              pln == blk \div PLANE_SIZE
              die == pln \div DIE_SIZE
              pkg == die \div PACKAGE_SIZE
              F == SSD_SIZE * PACKAGE_SIZE
              G == F * DIE_SIZE
              H == G * PLANE_SIZE
  <1>1. F \in Nat \ {0} /\ G \in Nat \ {0} /\ H \in Nat \ {0}
    BY Geometry, Product
  <1>2. n \in Nat /\ n < BLOCK_SIZE * H
    BY <1>1, Geometry DEF Linear, TotalPages
  <1>. HIDE DEF H
  <1>3. /\ blk \in Nat /\ blk < H /\ n % BLOCK_SIZE \in 0 .. BLOCK_SIZE - 1
        /\ n = BLOCK_SIZE * blk + (n % BLOCK_SIZE)
    BY <1>1, <1>2, Geometry, DivMod, DivBound
  <1>4. blk < PLANE_SIZE * G
    BY <1>1, <1>3, Geometry DEF H
  <1>. HIDE DEF blk, G
  <1>5. /\ pln \in Nat /\ pln < G /\ blk % PLANE_SIZE \in 0 .. PLANE_SIZE - 1
        /\ blk = PLANE_SIZE * pln + (blk % PLANE_SIZE)
    BY <1>1, <1>3, <1>4, Geometry, DivMod, DivBound
  <1>6. pln < DIE_SIZE * F
    BY <1>1, <1>5, Geometry DEF G
  <1>. HIDE DEF pln, F
  <1>7. /\ die \in Nat /\ die < F /\ pln % DIE_SIZE \in 0 .. DIE_SIZE - 1
        /\ pln = DIE_SIZE * die + (pln % DIE_SIZE)
    BY <1>1, <1>5, <1>6, Geometry, DivMod, DivBound
  <1>8. die < PACKAGE_SIZE * SSD_SIZE
    BY <1>1, <1>7, Geometry DEF F
  <1>. HIDE DEF die
  <1>9. /\ pkg \in Nat /\ pkg < SSD_SIZE /\ die % PACKAGE_SIZE \in 0 .. PACKAGE_SIZE - 1
        /\ die = PACKAGE_SIZE * pkg + (die % PACKAGE_SIZE)
    BY <1>7, <1>8, Geometry, DivMod, DivBound
  <1>. HIDE DEF pkg
  <1>10. pkg % SSD_SIZE = pkg
    BY <1>9, Geometry, ModSmall, SMTT(30)
  <1>11. Address(n, valid) =
           [block |-> <<pkg, die % PACKAGE_SIZE, pln % DIE_SIZE, blk % PLANE_SIZE>>,
            page |-> n % BLOCK_SIZE, valid |-> valid, real_address |-> n]
    BY <1>10 DEF Address, pkg, die, pln, blk
  <1>12. <<pkg, die % PACKAGE_SIZE, pln % DIE_SIZE, blk % PLANE_SIZE>> \in Blocks
    BY <1>3, <1>5, <1>7, <1>9, Geometry, BlockPaths
  <1>13. BlockNumber(<<pkg, die % PACKAGE_SIZE, pln % DIE_SIZE, blk % PLANE_SIZE>>) = blk
    BY <1>5, <1>7, <1>9 DEF BlockNumber
  <1>. QED
    BY <1>3, <1>11, <1>12, <1>13 DEF Pages

\* Different blocks have different numbers.
LEMMA BlockNumberInjective ==
  ASSUME NEW b \in Blocks, NEW c \in Blocks, BlockNumber(b) = BlockNumber(c)
  PROVE  b = c
  <1>1. /\ b[1] \in Nat /\ b[2] \in 0 .. PACKAGE_SIZE - 1
        /\ b[3] \in 0 .. DIE_SIZE - 1 /\ b[4] \in 0 .. PLANE_SIZE - 1
        /\ c[1] \in Nat /\ c[2] \in 0 .. PACKAGE_SIZE - 1
        /\ c[3] \in 0 .. DIE_SIZE - 1 /\ c[4] \in 0 .. PLANE_SIZE - 1
    BY DEF Blocks, PackageNumbers, DieNumbers, PlaneNumbers, BlockNumbers
  <1>. DEFINE xb == PACKAGE_SIZE * b[1] + b[2]
              xc == PACKAGE_SIZE * c[1] + c[2]
              yb == DIE_SIZE * xb + b[3]
              yc == DIE_SIZE * xc + c[3]
  <1>2. xb \in Nat /\ xc \in Nat
    BY <1>1, Geometry
  <1>3. yb \in Nat /\ yc \in Nat
    <2>. HIDE DEF xb, xc
    <2>. QED
      BY <1>1, <1>2, Geometry
  <1>4. PLANE_SIZE * yb + b[4] = PLANE_SIZE * yc + c[4]
    BY DEF BlockNumber
  <1>5. yb = yc /\ b[4] = c[4]
    <2>. HIDE DEF yb, yc, xb, xc
    <2>1. b[4] \in 0 .. PLANE_SIZE - 1 /\ c[4] \in 0 .. PLANE_SIZE - 1
      BY <1>1
    <2>2. PLANE_SIZE \in Nat \ {0}
      BY Geometry
    <2>. QED
      BY <2>1, <2>2, <1>3, <1>4, QuotientUnique
  <1>6. DIE_SIZE * xb + b[3] = DIE_SIZE * xc + c[3]
    BY <1>5
  <1>7. xb = xc /\ b[3] = c[3]
    <2>. HIDE DEF xb, xc
    <2>. QED
      BY <1>1, <1>2, <1>6, Geometry, QuotientUnique
  <1>8. PACKAGE_SIZE * b[1] + b[2] = PACKAGE_SIZE * c[1] + c[2]
    BY <1>7
  <1>9. b[1] = c[1] /\ b[2] = c[2]
    BY <1>1, <1>8, Geometry, QuotientUnique, SMTT(30)
  <1>10. b[3] = c[3] /\ b[4] = c[4]
    BY <1>5, <1>7
  <1>. QED
    BY <1>9, <1>10, BlockIsPath

\* The number of page o of block b addresses it.
LEMMA AddressUnique ==
  ASSUME NEW b \in Blocks, NEW o \in Pages, NEW valid
  PROVE  /\ BLOCK_SIZE * BlockNumber(b) + o \in Linear
         /\ Address(BLOCK_SIZE * BlockNumber(b) + o, valid).block = b
         /\ Address(BLOCK_SIZE * BlockNumber(b) + o, valid).page = o
  <1>. DEFINE n == BLOCK_SIZE * BlockNumber(b) + o
              a == Address(n, valid)
              H == SSD_SIZE * PACKAGE_SIZE * DIE_SIZE * PLANE_SIZE
  <1>1. H \in Nat \ {0}
    BY Geometry, Product
  <1>2. BlockNumber(b) \in 0 .. H - 1
    BY BlockNumberType DEF FlatBlocks
  <1>3. n \in 0 .. H * BLOCK_SIZE - 1
    <2>. HIDE DEF H
    <2>. QED
      BY <1>1, <1>2, Geometry, TwoDigits DEF Pages
  <1>4. n \in Linear
    BY <1>3 DEF Linear, TotalPages
  <1>. HIDE DEF n
  <1>5. /\ a.block \in Blocks /\ a.page \in Pages
        /\ n = BLOCK_SIZE * BlockNumber(a.block) + a.page
    BY <1>4, AddressFields
  <1>. HIDE DEF a
  <1>6. BlockNumber(b) \in Nat /\ BlockNumber(a.block) \in Nat
    BY <1>5, BlockNumberType DEF FlatBlocks
  <1>7. BLOCK_SIZE * BlockNumber(b) + o = BLOCK_SIZE * BlockNumber(a.block) + a.page
    BY <1>5 DEF n
  <1>8. BlockNumber(b) = BlockNumber(a.block) /\ o = a.page
    BY <1>5, <1>6, <1>7, Geometry, QuotientUnique DEF Pages
  <1>9. b = a.block
    BY <1>5, <1>8, BlockNumberInjective
  <1>. QED
    BY <1>4, <1>8, <1>9 DEF a, n

\* Block i of the flat flash is the block with number i.
LEMMA BlockAtNumber ==
  ASSUME NEW i \in FlatBlocks
  PROVE  BlockAt[i] \in Blocks /\ BlockNumber(BlockAt[i]) = i
  <1>. DEFINE H == SSD_SIZE * PACKAGE_SIZE * DIE_SIZE * PLANE_SIZE
              n == BLOCK_SIZE * i + 0
              c == Address(n, "BLOCK").block
  <1>1. H \in Nat \ {0} /\ i \in 0 .. H - 1
    BY Geometry, Product DEF FlatBlocks
  <1>2. n \in 0 .. H * BLOCK_SIZE - 1
    <2>. HIDE DEF H
    <2>1. 0 \in 0 .. BLOCK_SIZE - 1
      BY Geometry
    <2>. QED
      BY <1>1, <2>1, Geometry, TwoDigits
  <1>3. n \in Linear
    BY <1>2 DEF Linear, TotalPages
  <1>4. c \in Blocks /\ BlockNumber(c) = i
    <2>. DEFINE o == Address(n, "BLOCK").page
    <2>1. c \in Blocks /\ o \in Pages /\ n = BLOCK_SIZE * BlockNumber(c) + o
      BY <1>3, AddressFields
    <2>. HIDE DEF c, o, n
    <2>2. BlockNumber(c) \in Nat /\ i \in Nat /\ 0 \in 0 .. BLOCK_SIZE - 1
      BY <1>1, <2>1, BlockNumberType, Geometry DEF FlatBlocks
    <2>3. BLOCK_SIZE * BlockNumber(c) + o = BLOCK_SIZE * i + 0
      BY <2>1 DEF n
    <2>. QED
      BY <2>1, <2>2, <2>3, Geometry, QuotientUnique DEF Pages
  <1>. HIDE DEF c
  <1>5. \A e \in Blocks : PhysicalAddress(e) = i * BLOCK_SIZE <=> BlockNumber(e) = i
    <2>1. SUFFICES ASSUME NEW e \in Blocks
                   PROVE  PhysicalAddress(e) = i * BLOCK_SIZE <=> BlockNumber(e) = i
      OBVIOUS
    <2>2. PhysicalAddress(e) = BLOCK_SIZE * BlockNumber(e)
      BY PhysicalNumber
    <2>3. BlockNumber(e) \in Nat /\ i \in Nat /\ 0 \in 0 .. BLOCK_SIZE - 1
      BY <1>1, BlockNumberType, Geometry DEF FlatBlocks
    <2>4. ASSUME BLOCK_SIZE * BlockNumber(e) = i * BLOCK_SIZE PROVE BlockNumber(e) = i
      <3>1. BLOCK_SIZE * BlockNumber(e) + 0 = BLOCK_SIZE * i + 0
        BY <2>3, <2>4, Geometry
      <3>. QED
        BY <2>3, <3>1, Geometry, QuotientUnique
    <2>. QED
      BY <2>2, <2>3, <2>4, Geometry
  <1>6. PhysicalAddress(c) = i * BLOCK_SIZE
    BY <1>4, <1>5
  <1>7. BlockAt[i] = CHOOSE b \in Blocks : PhysicalAddress(b) = i * BLOCK_SIZE
    BY DEF BlockAt
  <1>8. BlockAt[i] \in Blocks /\ PhysicalAddress(BlockAt[i]) = i * BLOCK_SIZE
    BY <1>4, <1>6, <1>7
  <1>. QED
    BY <1>5, <1>8

LEMMA BlockAtInverse ==
  ASSUME NEW b \in Blocks
  PROVE  BlockAt[BlockNumber(b)] = b
  BY BlockNumberType, BlockAtNumber, BlockNumberInjective

---------------------------------------------------------------------------
(* The state of the hardware, as far as the flat flash shows it.           *)

DevShape(s) ==
  s = [page |-> s.page, page_data |-> s.page_data, block |-> s.block,
       free_blocks |-> s.free_blocks, wear |-> s.wear]

States == {"EMPTY", "VALID", "INVALID"}
BlockRecords ==
  [pages_valid : Nat, pages_invalid : Nat, erases_remaining : 0 .. BLOCK_ERASES,
   state : BlockStates]

DevPart(s) ==
  /\ DevShape(s)
  /\ s.page \in [Blocks -> [Pages -> States]]
  /\ s.page_data \in [Linear -> Payloads \cup {NoData}]
  /\ s.block \in [Blocks -> BlockRecords]

IInv == DevPart(dev)

\* FlatView, of any state of the hardware.
FlatOf(s) ==
  [page             |-> [p \in FlatBlocks \X Pages |-> s.page[BlockAt[p[1]]][p[2]]],
   data             |-> [p \in FlatBlocks \X Pages |-> s.page_data[p[1] * BLOCK_SIZE + p[2]]],
   pages_valid      |-> [i \in FlatBlocks |-> s.block[BlockAt[i]].pages_valid],
   pages_invalid    |-> [i \in FlatBlocks |-> s.block[BlockAt[i]].pages_invalid],
   erases_remaining |-> [i \in FlatBlocks |-> s.block[BlockAt[i]].erases_remaining]]

LEMMA FlatBlocksSame ==
  /\ Flat!Blocks = FlatBlocks
  /\ Flat!Offsets = Pages
  /\ Flat!Ppns = FlatBlocks \X Pages
  BY DEF Flat!Blocks, Flat!Offsets, Flat!Ppns, FlatBlocks, Pages

LEMMA FlatNumber ==
  ASSUME NEW i \in FlatBlocks, NEW o \in Pages
  PROVE  i * BLOCK_SIZE + o \in Linear
  <1>1. BLOCK_SIZE * BlockNumber(BlockAt[i]) + o \in Linear
    BY BlockAtNumber, AddressUnique
  <1>2. BLOCK_SIZE * i + o \in Linear
    BY <1>1, BlockAtNumber
  <1>. QED
    BY <1>2, Geometry DEF FlatBlocks, Pages

LEMMA FlatOfType ==
  ASSUME NEW s, DevPart(s)
  PROVE  FlatOf(s) \in Flat!FlashType
  <1>1. \A i \in FlatBlocks : s.block[BlockAt[i]] \in BlockRecords
    BY BlockAtNumber DEF DevPart
  <1>2. \A i \in FlatBlocks : /\ s.block[BlockAt[i]].pages_valid \in Nat
                              /\ s.block[BlockAt[i]].pages_invalid \in Nat
                              /\ s.block[BlockAt[i]].erases_remaining \in Nat
    BY <1>1, DeviceAssumption DEF BlockRecords
  <1>3. \A i \in FlatBlocks, o \in Pages : s.page[BlockAt[i]][o] \in Flat!PageStates
    BY BlockAtNumber DEF DevPart, States, Flat!PageStates
  <1>4. \A i \in FlatBlocks, o \in Pages : s.page_data[i * BLOCK_SIZE + o] \in Flat!Contents
    BY FlatNumber DEF DevPart, Flat!Contents
  <1>5. [p \in FlatBlocks \X Pages |-> s.page[BlockAt[p[1]]][p[2]]]
          \in [FlatBlocks \X Pages -> Flat!PageStates]
    BY <1>3
  <1>6. [p \in FlatBlocks \X Pages |-> s.page_data[p[1] * BLOCK_SIZE + p[2]]]
          \in [FlatBlocks \X Pages -> Flat!Contents]
    BY <1>4
  <1>. QED
    BY <1>2, <1>5, <1>6, FlatBlocksSame DEF FlatOf, Flat!FlashType

\* Two flat flashes that agree everywhere are the same.
LEMMA FlatEqual ==
  ASSUME NEW f \in Flat!FlashType, NEW g \in Flat!FlashType,
         \A p \in Flat!Ppns : f.page[p] = g.page[p] /\ f.data[p] = g.data[p],
         \A i \in Flat!Blocks : /\ f.pages_valid[i] = g.pages_valid[i]
                                /\ f.pages_invalid[i] = g.pages_invalid[i]
                                /\ f.erases_remaining[i] = g.erases_remaining[i]
  PROVE  f = g
  <1>1. f.page = g.page /\ f.data = g.data
    BY DEF Flat!FlashType
  <1>2. /\ f.pages_valid = g.pages_valid /\ f.pages_invalid = g.pages_invalid
        /\ f.erases_remaining = g.erases_remaining
    BY DEF Flat!FlashType
  <1>. QED
    BY <1>1, <1>2 DEF Flat!FlashType

---------------------------------------------------------------------------
(* What each hardware operation does to the flat flash.                    *)

PageAddress(a) ==
  /\ a.block \in Blocks
  /\ a.page \in Pages
  /\ a.real_address = BLOCK_SIZE * BlockNumber(a.block) + a.page

FlatPage(a) == <<BlockNumber(a.block), a.page>>

\* Counting a page in the record of a block, and setting its state.
LEMMA CountedRecord ==
  ASSUME NEW r \in BlockRecords
  PROVE  /\ LET c == [r EXCEPT !.pages_valid = r.pages_valid + 1]
            IN  /\ c \in BlockRecords
                /\ c.pages_valid = r.pages_valid + 1
                /\ c.pages_invalid = r.pages_invalid
                /\ c.erases_remaining = r.erases_remaining
         /\ LET c == [r EXCEPT !.pages_invalid = r.pages_invalid + 1]
            IN  /\ c \in BlockRecords
                /\ c.pages_invalid = r.pages_invalid + 1
                /\ c.pages_valid = r.pages_valid
                /\ c.erases_remaining = r.erases_remaining
  BY DEF BlockRecords

LEMMA ActiveRecord ==
  ASSUME NEW r \in BlockRecords, NEW st \in BlockStates
  PROVE  LET c == [r EXCEPT !.state = st]
         IN  /\ c \in BlockRecords
             /\ c.pages_valid = r.pages_valid
             /\ c.pages_invalid = r.pages_invalid
             /\ c.erases_remaining = r.erases_remaining
  BY DEF BlockRecords

LEMMA WriteEffect ==
  ASSUME NEW s, DevPart(s), NEW a, PageAddress(a), NEW d \in Payloads,
         NEW t, t = PlaneWrite(s, a, d)
  PROVE  /\ DevPart(t)
         /\ \A b \in Blocks, o \in Pages :
              t.page[b][o] = IF b = a.block /\ o = a.page THEN "VALID" ELSE s.page[b][o]
         /\ \A n \in Linear :
              t.page_data[n] = IF n = a.real_address THEN d ELSE s.page_data[n]
         /\ \A b \in Blocks :
              /\ t.block[b].pages_valid =
                   IF b = a.block THEN s.block[b].pages_valid + 1 ELSE s.block[b].pages_valid
              /\ t.block[b].pages_invalid = s.block[b].pages_invalid
              /\ t.block[b].erases_remaining = s.block[b].erases_remaining
  <1>. DEFINE w == BlockWrite(s, a, d)
              i == [s.block[a.block] EXCEPT !.pages_valid = @ + 1]
              c == [i EXCEPT !.state = "ACTIVE"]
  <1>1. /\ s.page \in [Blocks -> [Pages -> States]]
        /\ s.page_data \in [Linear -> Payloads \cup {NoData}]
        /\ s.block \in [Blocks -> BlockRecords]
        /\ DevShape(s)
    BY DEF DevPart
  <1>2. DevShape(w)
    <2>. DEFINE np == [s.page EXCEPT ![a.block][a.page] = "VALID"]
                u == [s EXCEPT !.page = np]
                v == [u EXCEPT !.page_data[a.real_address] = d]
                x == [v EXCEPT !.block[a.block].pages_valid = s.block[a.block].pages_valid + 1]
    <2>1. DevShape(u) /\ u.block = s.block
      <3>. HIDE DEF np
      <3>. QED
        BY <1>1 DEF DevShape
    <2>2. w = [[[u EXCEPT !.page_data[a.real_address] = d]
                   EXCEPT !.block[a.block].pages_valid = s.block[a.block].pages_valid + 1]
                   EXCEPT !.block[a.block].state = "ACTIVE"]
      BY <1>1 DEF BlockWrite
    <2>. HIDE DEF u, w
    <2>3. DevShape(v) /\ v.block = s.block
      BY <2>1 DEF DevShape
    <2>. HIDE DEF v
    <2>4. DevShape(x)
      BY <2>3 DEF DevShape
    <2>. HIDE DEF x
    <2>5. w = [x EXCEPT !.block[a.block].state = "ACTIVE"]
      BY <2>2 DEF v, x
    <2>. QED
      BY <2>4, <2>5 DEF DevShape
  <1>3. w.page = [s.page EXCEPT ![a.block] = [s.page[a.block] EXCEPT ![a.page] = "VALID"]]
    BY <1>1 DEF BlockWrite, DevShape
  <1>4. w.page_data = [s.page_data EXCEPT ![a.real_address] = d]
    BY <1>1 DEF BlockWrite, DevShape
  <1>5. w.block = [s.block EXCEPT ![a.block] = c]
    BY <1>1 DEF BlockWrite, DevShape, PageAddress
  <1>6. DevShape(t) /\ t.page = w.page /\ t.page_data = w.page_data /\ t.block = w.block
    <2>. HIDE DEF w
    <2>. DEFINE v == [w EXCEPT !.free_blocks[PlaneOf(a.block)] = @ - 1]
    <2>1. DevShape(v) /\ v.page = w.page /\ v.page_data = w.page_data /\ v.block = w.block
      BY <1>2 DEF DevShape
    <2>2. t = v \/ t = w
      BY DEF PlaneWrite, w
    <2>. QED
      BY <1>2, <2>1, <2>2
  <1>. HIDE DEF w
  <1>7. /\ a.block \in Blocks /\ a.page \in Pages
        /\ s.block[a.block] \in BlockRecords
    BY <1>1 DEF PageAddress
  <1>8. /\ c \in BlockRecords
        /\ c.pages_valid = s.block[a.block].pages_valid + 1
        /\ c.pages_invalid = s.block[a.block].pages_invalid
        /\ c.erases_remaining = s.block[a.block].erases_remaining
    <2>1. /\ i \in BlockRecords
          /\ i.pages_valid = s.block[a.block].pages_valid + 1
          /\ i.pages_invalid = s.block[a.block].pages_invalid
          /\ i.erases_remaining = s.block[a.block].erases_remaining
      BY <1>7, CountedRecord
    <2>2. "ACTIVE" \in BlockStates
      BY DEF BlockStates
    <2>. HIDE DEF i
    <2>. QED
      BY <2>1, <2>2, ActiveRecord
  <1>. HIDE DEF c
  <1>9. /\ t.page \in [Blocks -> [Pages -> States]]
        /\ \A b \in Blocks, o \in Pages :
             t.page[b][o] = IF b = a.block /\ o = a.page THEN "VALID" ELSE s.page[b][o]
    <2>1. t.page = [s.page EXCEPT ![a.block] = [s.page[a.block] EXCEPT ![a.page] = "VALID"]]
      BY <1>3, <1>6
    <2>2. s.page \in [Blocks -> [Pages -> States]] /\ "VALID" \in States
      BY <1>1 DEF States
    <2>. QED
      BY <1>7, <2>1, <2>2
  <1>10. /\ t.page_data \in [Linear -> Payloads \cup {NoData}]
         /\ \A n \in Linear :
              t.page_data[n] = IF n = a.real_address THEN d ELSE s.page_data[n]
    <2>1. t.page_data = [s.page_data EXCEPT ![a.real_address] = d]
      BY <1>4, <1>6
    <2>2. s.page_data \in [Linear -> Payloads \cup {NoData}]
      BY <1>1
    <2>. QED
      BY <2>1, <2>2
  <1>11. /\ t.block \in [Blocks -> BlockRecords]
         /\ \A b \in Blocks : t.block[b] = IF b = a.block THEN c ELSE s.block[b]
    <2>1. t.block = [s.block EXCEPT ![a.block] = c]
      BY <1>5, <1>6
    <2>2. s.block \in [Blocks -> BlockRecords] /\ c \in BlockRecords
      BY <1>1, <1>8
    <2>. QED
      BY <2>1, <2>2
  <1>. QED
    BY <1>6, <1>8, <1>9, <1>10, <1>11 DEF DevPart

LEMMA InvalidateEffect ==
  ASSUME NEW s, DevPart(s), NEW b \in Blocks, NEW o \in Pages,
         NEW t, t = invalidate_page(s, b, o)
  PROVE  /\ DevPart(t)
         /\ t.page_data = s.page_data
         /\ \A c \in Blocks, k \in Pages :
              t.page[c][k] = IF c = b /\ k = o THEN "INVALID" ELSE s.page[c][k]
         /\ \A c \in Blocks :
              /\ t.block[c].pages_valid = s.block[c].pages_valid
              /\ t.block[c].pages_invalid =
                   IF c = b /\ s.page[b][o] # "INVALID"
                     THEN s.block[c].pages_invalid + 1
                     ELSE s.block[c].pages_invalid
              /\ t.block[c].erases_remaining = s.block[c].erases_remaining
  <1>1. CASE s.page[b][o] = "INVALID"
    <2>1. t = s
      BY <1>1 DEF invalidate_page
    <2>. QED
      BY <1>1, <2>1
  <1>2. CASE s.page[b][o] # "INVALID"
    <2>. DEFINE n == s.block[b].pages_invalid + 1
                i == [s.block[b] EXCEPT !.pages_invalid = n]
                st == IF n >= BLOCK_SIZE THEN "INACTIVE" ELSE "ACTIVE"
                e == [i EXCEPT !.state = st]
    <2>1. /\ s.page \in [Blocks -> [Pages -> States]]
          /\ s.page_data \in [Linear -> Payloads \cup {NoData}]
          /\ s.block \in [Blocks -> BlockRecords]
          /\ DevShape(s)
      BY DEF DevPart
    <2>2. DevShape(t) /\ t.page_data = s.page_data
      BY <1>2, <2>1 DEF invalidate_page, DevShape
    <2>3. t.page = [s.page EXCEPT ![b] = [s.page[b] EXCEPT ![o] = "INVALID"]]
      BY <1>2, <2>1 DEF invalidate_page, DevShape
    <2>4. t.block = [s.block EXCEPT ![b] = e]
      BY <1>2, <2>1 DEF invalidate_page, DevShape
    <2>5. s.block[b] \in BlockRecords
      BY <2>1
    <2>6. /\ e \in BlockRecords
          /\ e.pages_valid = s.block[b].pages_valid
          /\ e.pages_invalid = s.block[b].pages_invalid + 1
          /\ e.erases_remaining = s.block[b].erases_remaining
      <3>1. st \in BlockStates
        BY DEF BlockStates
      <3>2. /\ i \in BlockRecords
            /\ i.pages_valid = s.block[b].pages_valid
            /\ i.pages_invalid = s.block[b].pages_invalid + 1
            /\ i.erases_remaining = s.block[b].erases_remaining
        BY <2>5, CountedRecord
      <3>. HIDE DEF i, st
      <3>. QED
        BY <3>1, <3>2, ActiveRecord
    <2>. HIDE DEF e
    <2>7. /\ t.page \in [Blocks -> [Pages -> States]]
          /\ \A c \in Blocks, k \in Pages :
               t.page[c][k] = IF c = b /\ k = o THEN "INVALID" ELSE s.page[c][k]
      BY <2>1, <2>3 DEF States
    <2>8. /\ t.block \in [Blocks -> BlockRecords]
          /\ \A c \in Blocks : t.block[c] = IF c = b THEN e ELSE s.block[c]
      BY <2>1, <2>4, <2>6
    <2>. QED
      BY <1>2, <2>1, <2>2, <2>6, <2>7, <2>8 DEF DevPart
  <1>. QED
    BY <1>1, <1>2

LEMMA EraseEffect ==
  ASSUME NEW s, DevPart(s), NEW b \in Blocks, s.block[b].erases_remaining >= 1,
         NEW t, t = UnitErase(s, b)
  PROVE  /\ DevPart(t)
         /\ t.page_data = s.page_data
         /\ \A c \in Blocks, k \in Pages :
              t.page[c][k] = IF c = b THEN "EMPTY" ELSE s.page[c][k]
         /\ \A c \in Blocks :
              /\ t.block[c].pages_valid = IF c = b THEN 0 ELSE s.block[c].pages_valid
              /\ t.block[c].pages_invalid = IF c = b THEN 0 ELSE s.block[c].pages_invalid
              /\ t.block[c].erases_remaining =
                   IF c = b THEN s.block[c].erases_remaining - 1
                            ELSE s.block[c].erases_remaining
  <1>. DEFINE w == BlockErase(s, b)
              row == [o \in Pages |-> "EMPTY"]
              e == [pages_valid |-> 0, pages_invalid |-> 0, state |-> "FREE",
                    erases_remaining |-> s.block[b].erases_remaining - 1]
  <1>1. /\ s.page \in [Blocks -> [Pages -> States]]
        /\ s.page_data \in [Linear -> Payloads \cup {NoData}]
        /\ s.block \in [Blocks -> BlockRecords]
        /\ DevShape(s)
    BY DEF DevPart
  <1>2. /\ DevShape(w) /\ w.page_data = s.page_data
        /\ w.page = [s.page EXCEPT ![b] = row]
        /\ w.block = [s.block EXCEPT ![b] = e]
    <2>. HIDE DEF row, e
    <2>1. w = [s EXCEPT !.page[b] = row, !.block[b] = e]
      BY DEF BlockErase, row, e
    <2>. HIDE DEF w
    <2>. QED
      BY <1>1, <2>1 DEF DevShape
  <1>3. DevShape(t) /\ t.page = w.page /\ t.page_data = w.page_data /\ t.block = w.block
    <2>. HIDE DEF w
    <2>1. t = [w EXCEPT !.free_blocks[PlaneOf(b)] = @ + 1,
                        !.wear = [u \in Units |-> IF u \in UnitsOf(b)
                                                    THEN update_wear_stats(w, u, b)
                                                    ELSE @[u]]]
      BY DEF UnitErase, w
    <2>. QED
      BY <1>2, <2>1 DEF DevShape
  <1>. HIDE DEF w
  <1>4. s.block[b] \in BlockRecords /\ s.block[b].erases_remaining \in 0 .. BLOCK_ERASES
    BY <1>1 DEF BlockRecords
  <1>5. e \in BlockRecords
    BY <1>4, DeviceAssumption DEF BlockRecords, BlockStates
  <1>6. row \in [Pages -> States]
    BY DEF States
  <1>. HIDE DEF row
  <1>7. /\ t.page \in [Blocks -> [Pages -> States]]
        /\ \A c \in Blocks : t.page[c] = IF c = b THEN row ELSE s.page[c]
    BY <1>1, <1>2, <1>3, <1>6
  <1>8. \A c \in Blocks, k \in Pages :
          t.page[c][k] = IF c = b THEN "EMPTY" ELSE s.page[c][k]
    BY <1>7 DEF row
  <1>. HIDE DEF e
  <1>9. /\ t.block \in [Blocks -> BlockRecords]
        /\ \A c \in Blocks : t.block[c] = IF c = b THEN e ELSE s.block[c]
    BY <1>1, <1>2, <1>3, <1>5
  <1>. QED
    BY <1>1, <1>2, <1>3, <1>7, <1>8, <1>9 DEF DevPart, e

---------------------------------------------------------------------------
(* The same operations on the flat flash.                                  *)

LEMMA FlatFields ==
  ASSUME NEW s
  PROVE  /\ \A i \in FlatBlocks, o \in Pages :
              /\ FlatOf(s).page[<<i, o>>] = s.page[BlockAt[i]][o]
              /\ FlatOf(s).data[<<i, o>>] = s.page_data[i * BLOCK_SIZE + o]
         /\ \A i \in FlatBlocks :
              /\ FlatOf(s).pages_valid[i] = s.block[BlockAt[i]].pages_valid
              /\ FlatOf(s).pages_invalid[i] = s.block[BlockAt[i]].pages_invalid
              /\ FlatOf(s).erases_remaining[i] = s.block[BlockAt[i]].erases_remaining
  BY DEF FlatOf

\* A flat block, or a flat page, is b, or page o of b, exactly by its number.
LEMMA SameBlock ==
  ASSUME NEW b \in Blocks, NEW i \in FlatBlocks
  PROVE  BlockAt[i] = b <=> i = BlockNumber(b)
  BY BlockAtNumber, BlockAtInverse

LEMMA SameNumber ==
  ASSUME NEW b \in Blocks, NEW o \in Pages, NEW i \in FlatBlocks, NEW k \in Pages
  PROVE  i * BLOCK_SIZE + k = BLOCK_SIZE * BlockNumber(b) + o
           <=> i = BlockNumber(b) /\ k = o
  <1>1. BlockNumber(b) \in Nat /\ i \in Nat /\ o \in 0 .. BLOCK_SIZE - 1 /\ k \in 0 .. BLOCK_SIZE - 1
    BY BlockNumberType DEF FlatBlocks, Pages
  <1>2. i * BLOCK_SIZE + k = BLOCK_SIZE * i + k
    BY <1>1, Geometry
  <1>3. ASSUME BLOCK_SIZE * i + k = BLOCK_SIZE * BlockNumber(b) + o
        PROVE  i = BlockNumber(b) /\ k = o
    BY <1>1, <1>3, Geometry, QuotientUnique
  <1>. QED
    BY <1>2, <1>3

\* What Flat!Program, Flat!Invalidate and Flat!Erase are, place by place.
LEMMA FlatProgram ==
  ASSUME NEW f \in Flat!FlashType, NEW p \in Flat!Ppns, NEW d \in Payloads
  PROVE  LET g == Flat!Program(f, p, d)
         IN  /\ g \in Flat!FlashType
             /\ \A q \in Flat!Ppns : /\ g.page[q] = IF q = p THEN "VALID" ELSE f.page[q]
                                     /\ g.data[q] = IF q = p THEN d ELSE f.data[q]
             /\ \A i \in Flat!Blocks :
                  /\ g.pages_valid[i] = IF i = p[1] THEN f.pages_valid[i] + 1 ELSE f.pages_valid[i]
                  /\ g.pages_invalid[i] = f.pages_invalid[i]
                  /\ g.erases_remaining[i] = f.erases_remaining[i]
  <1>. DEFINE g == Flat!Program(f, p, d)
  <1>1. /\ f.page \in [Flat!Ppns -> Flat!PageStates]
        /\ f.data \in [Flat!Ppns -> Flat!Contents]
        /\ f.pages_valid \in [Flat!Blocks -> Nat]
        /\ f.pages_invalid \in [Flat!Blocks -> Nat]
        /\ f.erases_remaining \in [Flat!Blocks -> Nat]
        /\ f = [page |-> f.page, data |-> f.data, pages_valid |-> f.pages_valid,
                pages_invalid |-> f.pages_invalid, erases_remaining |-> f.erases_remaining]
    BY DEF Flat!FlashType
  <1>2. g = [page |-> [f.page EXCEPT ![p] = "VALID"],
             data |-> [f.data EXCEPT ![p] = d],
             pages_valid |-> [f.pages_valid EXCEPT ![p[1]] = f.pages_valid[p[1]] + 1],
             pages_invalid |-> f.pages_invalid,
             erases_remaining |-> f.erases_remaining]
    <2>. DEFINE np == [f.page EXCEPT ![p] = "VALID"]
                nd == [f.data EXCEPT ![p] = d]
                nv == [f.pages_valid EXCEPT ![p[1]] = f.pages_valid[p[1]] + 1]
    <2>1. g = [f EXCEPT !.page = np, !.data = nd, !.pages_valid = nv]
      BY <1>1 DEF Flat!Program
    <2>. HIDE DEF np, nd, nv, g
    <2>2. g = [page |-> np, data |-> nd, pages_valid |-> nv,
               pages_invalid |-> f.pages_invalid, erases_remaining |-> f.erases_remaining]
      BY <1>1, <2>1
    <2>. QED
      BY <2>2 DEF np, nd, nv
  <1>3. p[1] \in Flat!Blocks
    BY DEF Flat!Ppns
  <1>. HIDE DEF g
  <1>4. /\ g.page \in [Flat!Ppns -> Flat!PageStates]
        /\ \A q \in Flat!Ppns : g.page[q] = IF q = p THEN "VALID" ELSE f.page[q]
    BY <1>1, <1>2 DEF Flat!PageStates
  <1>5. /\ g.data \in [Flat!Ppns -> Flat!Contents]
        /\ \A q \in Flat!Ppns : g.data[q] = IF q = p THEN d ELSE f.data[q]
    BY <1>1, <1>2 DEF Flat!Contents
  <1>6. /\ g.pages_valid \in [Flat!Blocks -> Nat]
        /\ \A i \in Flat!Blocks :
             g.pages_valid[i] = IF i = p[1] THEN f.pages_valid[i] + 1 ELSE f.pages_valid[i]
    BY <1>1, <1>2, <1>3
  <1>7. g.pages_invalid = f.pages_invalid /\ g.erases_remaining = f.erases_remaining
    BY <1>2
  <1>8. g \in Flat!FlashType
    BY <1>1, <1>2, <1>4, <1>5, <1>6, <1>7 DEF Flat!FlashType
  <1>. QED
    BY <1>4, <1>5, <1>6, <1>7, <1>8 DEF g

LEMMA FlatInvalidate ==
  ASSUME NEW f \in Flat!FlashType, NEW p \in Flat!Ppns
  PROVE  LET g == Flat!Invalidate(f, p)
         IN  /\ g \in Flat!FlashType
             /\ \A q \in Flat!Ppns : /\ g.page[q] = IF q = p THEN "INVALID" ELSE f.page[q]
                                     /\ g.data[q] = f.data[q]
             /\ \A i \in Flat!Blocks :
                  /\ g.pages_valid[i] = f.pages_valid[i]
                  /\ g.pages_invalid[i] =
                       IF i = p[1] /\ f.page[p] # "INVALID"
                         THEN f.pages_invalid[i] + 1
                         ELSE f.pages_invalid[i]
                  /\ g.erases_remaining[i] = f.erases_remaining[i]
  <1>. DEFINE g == Flat!Invalidate(f, p)
  <1>1. /\ f.page \in [Flat!Ppns -> Flat!PageStates]
        /\ f.data \in [Flat!Ppns -> Flat!Contents]
        /\ f.pages_valid \in [Flat!Blocks -> Nat]
        /\ f.pages_invalid \in [Flat!Blocks -> Nat]
        /\ f.erases_remaining \in [Flat!Blocks -> Nat]
        /\ f = [page |-> f.page, data |-> f.data, pages_valid |-> f.pages_valid,
                pages_invalid |-> f.pages_invalid, erases_remaining |-> f.erases_remaining]
    BY DEF Flat!FlashType
  <1>a. CASE f.page[p] = "INVALID"
    <2>1. g = f
      BY <1>a DEF Flat!Invalidate
    <2>. QED
      BY <1>a, <2>1
  <1>b. CASE f.page[p] # "INVALID"
    <2>2. g = [page |-> [f.page EXCEPT ![p] = "INVALID"],
               data |-> f.data,
               pages_valid |-> f.pages_valid,
               pages_invalid |-> [f.pages_invalid EXCEPT ![p[1]] = f.pages_invalid[p[1]] + 1],
               erases_remaining |-> f.erases_remaining]
      BY <1>1, <1>b DEF Flat!Invalidate
    <2>3. p[1] \in Flat!Blocks
      BY DEF Flat!Ppns
    <2>. HIDE DEF g
    <2>4. /\ g.page \in [Flat!Ppns -> Flat!PageStates]
          /\ \A q \in Flat!Ppns : g.page[q] = IF q = p THEN "INVALID" ELSE f.page[q]
      BY <1>1, <2>2 DEF Flat!PageStates
    <2>5. /\ g.pages_invalid \in [Flat!Blocks -> Nat]
          /\ \A i \in Flat!Blocks : g.pages_invalid[i] =
               IF i = p[1] THEN f.pages_invalid[i] + 1 ELSE f.pages_invalid[i]
      BY <1>1, <2>2, <2>3
    <2>6. /\ g.data = f.data /\ g.pages_valid = f.pages_valid
          /\ g.erases_remaining = f.erases_remaining
      BY <2>2
    <2>7. g \in Flat!FlashType
      BY <1>1, <2>2, <2>4, <2>5, <2>6 DEF Flat!FlashType
    <2>. QED
      BY <1>b, <2>4, <2>5, <2>6, <2>7 DEF g
  <1>. QED
    BY <1>a, <1>b

LEMMA FlatErase ==
  ASSUME NEW f \in Flat!FlashType, NEW b \in Flat!Blocks, f.erases_remaining[b] >= 1
  PROVE  LET g == Flat!Erase(f, {b})
         IN  /\ g \in Flat!FlashType
             /\ \A q \in Flat!Ppns : /\ g.page[q] = IF q[1] = b THEN "EMPTY" ELSE f.page[q]
                                     /\ g.data[q] = f.data[q]
             /\ \A i \in Flat!Blocks :
                  /\ g.pages_valid[i] = IF i = b THEN 0 ELSE f.pages_valid[i]
                  /\ g.pages_invalid[i] = IF i = b THEN 0 ELSE f.pages_invalid[i]
                  /\ g.erases_remaining[i] =
                       IF i = b THEN f.erases_remaining[i] - 1 ELSE f.erases_remaining[i]
  <1>. DEFINE g == Flat!Erase(f, {b})
  <1>1. /\ f.page \in [Flat!Ppns -> Flat!PageStates]
        /\ f.data \in [Flat!Ppns -> Flat!Contents]
        /\ f.pages_valid \in [Flat!Blocks -> Nat]
        /\ f.pages_invalid \in [Flat!Blocks -> Nat]
        /\ f.erases_remaining \in [Flat!Blocks -> Nat]
        /\ f = [page |-> f.page, data |-> f.data, pages_valid |-> f.pages_valid,
                pages_invalid |-> f.pages_invalid, erases_remaining |-> f.erases_remaining]
    BY DEF Flat!FlashType
  <1>2. g = [page |-> [q \in Flat!Ppns |-> IF q[1] \in {b} THEN "EMPTY" ELSE f.page[q]],
             data |-> f.data,
             pages_valid |-> [i \in Flat!Blocks |-> IF i \in {b} THEN 0 ELSE f.pages_valid[i]],
             pages_invalid |-> [i \in Flat!Blocks |-> IF i \in {b} THEN 0 ELSE f.pages_invalid[i]],
             erases_remaining |-> [i \in Flat!Blocks |-> IF i \in {b} THEN f.erases_remaining[i] - 1
                                                         ELSE f.erases_remaining[i]]]
    <2>. DEFINE np == [q \in Flat!Ppns |-> IF q[1] \in {b} THEN "EMPTY" ELSE f.page[q]]
                nv == [i \in Flat!Blocks |-> IF i \in {b} THEN 0 ELSE f.pages_valid[i]]
                ni == [i \in Flat!Blocks |-> IF i \in {b} THEN 0 ELSE f.pages_invalid[i]]
                ne == [i \in Flat!Blocks |-> IF i \in {b} THEN f.erases_remaining[i] - 1
                                                         ELSE f.erases_remaining[i]]
    <2>1. g = [f EXCEPT !.page = np, !.pages_valid = nv, !.pages_invalid = ni,
                        !.erases_remaining = ne]
      BY DEF Flat!Erase
    <2>. HIDE DEF np, nv, ni, ne, g
    <2>2. g = [page |-> np, data |-> f.data, pages_valid |-> nv,
               pages_invalid |-> ni, erases_remaining |-> ne]
      BY <1>1, <2>1
    <2>. QED
      BY <2>2 DEF np, nv, ni, ne
  <1>. HIDE DEF g
  <1>3. /\ g.page \in [Flat!Ppns -> Flat!PageStates]
        /\ \A q \in Flat!Ppns : g.page[q] = IF q[1] = b THEN "EMPTY" ELSE f.page[q]
    BY <1>1, <1>2 DEF Flat!PageStates
  <1>4. /\ g.pages_valid \in [Flat!Blocks -> Nat]
        /\ \A i \in Flat!Blocks : g.pages_valid[i] = IF i = b THEN 0 ELSE f.pages_valid[i]
    BY <1>1, <1>2
  <1>5. /\ g.pages_invalid \in [Flat!Blocks -> Nat]
        /\ \A i \in Flat!Blocks : g.pages_invalid[i] = IF i = b THEN 0 ELSE f.pages_invalid[i]
    BY <1>1, <1>2
  <1>6. /\ g.erases_remaining \in [Flat!Blocks -> Nat]
        /\ \A i \in Flat!Blocks : g.erases_remaining[i] =
             IF i = b THEN f.erases_remaining[i] - 1 ELSE f.erases_remaining[i]
    BY <1>1, <1>2
  <1>7. g.data = f.data
    BY <1>2
  <1>8. g \in Flat!FlashType
    BY <1>1, <1>2, <1>3, <1>4, <1>5, <1>6, <1>7 DEF Flat!FlashType
  <1>. QED
    BY <1>3, <1>4, <1>5, <1>6, <1>7, <1>8 DEF g

---------------------------------------------------------------------------
(* An operation of the hierarchy is the operation of the flat flash.       *)

LEMMA FlatPageOf ==
  ASSUME NEW a, PageAddress(a)
  PROVE  /\ FlatPage(a) \in Flat!Ppns /\ FlatPage(a)[1] = BlockNumber(a.block)
         /\ FlatPage(a)[2] = a.page /\ FlatPage(a) # Flat!NoPpn
         /\ BlockNumber(a.block) \in FlatBlocks
         /\ BlockAt[BlockNumber(a.block)] = a.block
  <1>1. BlockNumber(a.block) \in FlatBlocks /\ a.page \in Pages
    BY BlockNumberType DEF PageAddress
  <1>2. BlockNumber(a.block) # -1
    BY <1>1 DEF FlatBlocks
  <1>. QED
    BY <1>1, <1>2, FlatBlocksSame, BlockAtInverse DEF FlatPage, Flat!NoPpn, PageAddress

LEMMA MapWrite ==
  ASSUME NEW s, DevPart(s), NEW a, PageAddress(a), NEW d \in Payloads
  PROVE  FlatOf(PlaneWrite(s, a, d)) = Flat!Program(FlatOf(s), FlatPage(a), d)
  <1>. DEFINE t == PlaneWrite(s, a, d)
              f == FlatOf(s)
              h == FlatOf(t)
              p == FlatPage(a)
              g == Flat!Program(f, p, d)
  <1>1. /\ DevPart(t)
        /\ \A b \in Blocks, o \in Pages :
             t.page[b][o] = IF b = a.block /\ o = a.page THEN "VALID" ELSE s.page[b][o]
        /\ \A n \in Linear :
             t.page_data[n] = IF n = a.real_address THEN d ELSE s.page_data[n]
        /\ \A b \in Blocks :
             /\ t.block[b].pages_valid =
                  IF b = a.block THEN s.block[b].pages_valid + 1 ELSE s.block[b].pages_valid
             /\ t.block[b].pages_invalid = s.block[b].pages_invalid
             /\ t.block[b].erases_remaining = s.block[b].erases_remaining
    BY WriteEffect
  <1>2. f \in Flat!FlashType /\ p \in Flat!Ppns
    BY FlatOfType, FlatPageOf
  <1>. HIDE DEF t, f, p
  <1>3. /\ g \in Flat!FlashType
        /\ \A q \in Flat!Ppns : /\ g.page[q] = IF q = p THEN "VALID" ELSE f.page[q]
                                /\ g.data[q] = IF q = p THEN d ELSE f.data[q]
        /\ \A i \in Flat!Blocks :
             /\ g.pages_valid[i] = IF i = p[1] THEN f.pages_valid[i] + 1 ELSE f.pages_valid[i]
             /\ g.pages_invalid[i] = f.pages_invalid[i]
             /\ g.erases_remaining[i] = f.erases_remaining[i]
    BY <1>2, FlatProgram
  <1>4. h \in Flat!FlashType
    BY <1>1, FlatOfType
  <1>. HIDE DEF g, h
  <1>5. \A i \in FlatBlocks, o \in Pages :
          /\ h.page[<<i, o>>] = t.page[BlockAt[i]][o] /\ f.page[<<i, o>>] = s.page[BlockAt[i]][o]
          /\ h.data[<<i, o>>] = t.page_data[i * BLOCK_SIZE + o]
          /\ f.data[<<i, o>>] = s.page_data[i * BLOCK_SIZE + o]
          /\ BlockAt[i] \in Blocks /\ i * BLOCK_SIZE + o \in Linear
    <2>1. \A i \in FlatBlocks, o \in Pages :
            /\ h.page[<<i, o>>] = t.page[BlockAt[i]][o]
            /\ h.data[<<i, o>>] = t.page_data[i * BLOCK_SIZE + o]
      BY FlatFields, ZenonT(30) DEF h
    <2>2. \A i \in FlatBlocks, o \in Pages :
            /\ f.page[<<i, o>>] = s.page[BlockAt[i]][o]
            /\ f.data[<<i, o>>] = s.page_data[i * BLOCK_SIZE + o]
      BY FlatFields, ZenonT(30) DEF f
    <2>. QED
      BY <2>1, <2>2, FlatNumber, BlockAtNumber
  <1>6. \A i \in FlatBlocks :
          /\ h.pages_valid[i] = t.block[BlockAt[i]].pages_valid
          /\ f.pages_valid[i] = s.block[BlockAt[i]].pages_valid
          /\ h.pages_invalid[i] = t.block[BlockAt[i]].pages_invalid
          /\ f.pages_invalid[i] = s.block[BlockAt[i]].pages_invalid
          /\ h.erases_remaining[i] = t.block[BlockAt[i]].erases_remaining
          /\ f.erases_remaining[i] = s.block[BlockAt[i]].erases_remaining
          /\ BlockAt[i] \in Blocks
    BY FlatFields, BlockAtNumber DEF h, f
  <1>7. \A i \in FlatBlocks : BlockAt[i] = a.block <=> i = p[1]
    BY SameBlock, FlatPageOf DEF PageAddress, p
  <1>8. \A i \in FlatBlocks, o \in Pages : i * BLOCK_SIZE + o = a.real_address <=> <<i, o>> = p
    BY SameNumber DEF PageAddress, p, FlatPage
  <1>9. \A i \in FlatBlocks, o \in Pages : BlockAt[i] = a.block /\ o = a.page <=> <<i, o>> = p
    BY SameBlock DEF PageAddress, p, FlatPage
  <1>10. \A i \in FlatBlocks, o \in Pages :
           h.page[<<i, o>>] = g.page[<<i, o>>] /\ h.data[<<i, o>>] = g.data[<<i, o>>]
    <2>. SUFFICES ASSUME NEW i \in FlatBlocks, NEW o \in Pages
                  PROVE  h.page[<<i, o>>] = g.page[<<i, o>>] /\ h.data[<<i, o>>] = g.data[<<i, o>>]
      OBVIOUS
    <2>0. <<i, o>> \in Flat!Ppns
      BY FlatBlocksSame
    <2>1. h.page[<<i, o>>] = IF <<i, o>> = p THEN "VALID" ELSE f.page[<<i, o>>]
      BY <1>1, <1>5, <1>9
    <2>2. h.data[<<i, o>>] = IF <<i, o>> = p THEN d ELSE f.data[<<i, o>>]
      BY <1>1, <1>5, <1>8
    <2>. QED
      BY <1>3, <2>0, <2>1, <2>2
  <1>11. \A i \in FlatBlocks : /\ h.pages_valid[i] = g.pages_valid[i]
                               /\ h.pages_invalid[i] = g.pages_invalid[i]
                               /\ h.erases_remaining[i] = g.erases_remaining[i]
    BY <1>1, <1>3, <1>6, <1>7, FlatBlocksSame
  <1>12. h = g
    <2>1. \A q \in Flat!Ppns : h.page[q] = g.page[q] /\ h.data[q] = g.data[q]
      BY <1>10, FlatBlocksSame
    <2>. QED
      BY <1>3, <1>4, <1>11, <2>1, FlatBlocksSame, FlatEqual
  <1>. QED
    BY <1>12 DEF h, g, t, f, p

LEMMA MapInvalidate ==
  ASSUME NEW s, DevPart(s), NEW a, PageAddress(a)
  PROVE  FlatOf(invalidate_page(s, a.block, a.page)) = Flat!Invalidate(FlatOf(s), FlatPage(a))
  <1>. DEFINE t == invalidate_page(s, a.block, a.page)
              f == FlatOf(s)
              h == FlatOf(t)
              p == FlatPage(a)
              g == Flat!Invalidate(f, p)
  <1>0. a.block \in Blocks /\ a.page \in Pages
    BY DEF PageAddress
  <1>1. /\ DevPart(t)
        /\ t.page_data = s.page_data
        /\ \A c \in Blocks, k \in Pages :
             t.page[c][k] = IF c = a.block /\ k = a.page THEN "INVALID" ELSE s.page[c][k]
        /\ \A c \in Blocks :
             /\ t.block[c].pages_valid = s.block[c].pages_valid
             /\ t.block[c].pages_invalid =
                  IF c = a.block /\ s.page[a.block][a.page] # "INVALID"
                    THEN s.block[c].pages_invalid + 1
                    ELSE s.block[c].pages_invalid
             /\ t.block[c].erases_remaining = s.block[c].erases_remaining
    BY <1>0, InvalidateEffect, SMTT(30)
  <1>2. f \in Flat!FlashType /\ p \in Flat!Ppns
    BY FlatOfType, FlatPageOf
  <1>. HIDE DEF t, f, p
  <1>3. /\ g \in Flat!FlashType
        /\ \A q \in Flat!Ppns : /\ g.page[q] = IF q = p THEN "INVALID" ELSE f.page[q]
                                /\ g.data[q] = f.data[q]
        /\ \A i \in Flat!Blocks :
             /\ g.pages_valid[i] = f.pages_valid[i]
             /\ g.pages_invalid[i] =
                  IF i = p[1] /\ f.page[p] # "INVALID"
                    THEN f.pages_invalid[i] + 1
                    ELSE f.pages_invalid[i]
             /\ g.erases_remaining[i] = f.erases_remaining[i]
    BY <1>2, FlatInvalidate
  <1>4. h \in Flat!FlashType
    BY <1>1, FlatOfType
  <1>. HIDE DEF g, h
  <1>5. \A i \in FlatBlocks, o \in Pages :
          /\ h.page[<<i, o>>] = t.page[BlockAt[i]][o] /\ f.page[<<i, o>>] = s.page[BlockAt[i]][o]
          /\ h.data[<<i, o>>] = t.page_data[i * BLOCK_SIZE + o]
          /\ f.data[<<i, o>>] = s.page_data[i * BLOCK_SIZE + o]
          /\ BlockAt[i] \in Blocks
    <2>1. \A i \in FlatBlocks, o \in Pages :
            /\ h.page[<<i, o>>] = t.page[BlockAt[i]][o]
            /\ h.data[<<i, o>>] = t.page_data[i * BLOCK_SIZE + o]
      BY FlatFields, ZenonT(30) DEF h
    <2>2. \A i \in FlatBlocks, o \in Pages :
            /\ f.page[<<i, o>>] = s.page[BlockAt[i]][o]
            /\ f.data[<<i, o>>] = s.page_data[i * BLOCK_SIZE + o]
      BY FlatFields, ZenonT(30) DEF f
    <2>. QED
      BY <2>1, <2>2, BlockAtNumber
  <1>6. \A i \in FlatBlocks :
          /\ h.pages_valid[i] = t.block[BlockAt[i]].pages_valid
          /\ f.pages_valid[i] = s.block[BlockAt[i]].pages_valid
          /\ h.pages_invalid[i] = t.block[BlockAt[i]].pages_invalid
          /\ f.pages_invalid[i] = s.block[BlockAt[i]].pages_invalid
          /\ h.erases_remaining[i] = t.block[BlockAt[i]].erases_remaining
          /\ f.erases_remaining[i] = s.block[BlockAt[i]].erases_remaining
          /\ BlockAt[i] \in Blocks
    BY FlatFields, BlockAtNumber DEF h, f
  <1>7. \A i \in FlatBlocks : BlockAt[i] = a.block <=> i = p[1]
    BY SameBlock, FlatPageOf DEF PageAddress, p
  <1>8. f.page[p] = s.page[a.block][a.page]
    BY <1>0, <1>5, FlatPageOf DEF p, FlatPage
  <1>9. \A i \in FlatBlocks, o \in Pages : BlockAt[i] = a.block /\ o = a.page <=> <<i, o>> = p
    BY SameBlock DEF PageAddress, p, FlatPage
  <1>10. \A i \in FlatBlocks, o \in Pages :
           h.page[<<i, o>>] = g.page[<<i, o>>] /\ h.data[<<i, o>>] = g.data[<<i, o>>]
    <2>. SUFFICES ASSUME NEW i \in FlatBlocks, NEW o \in Pages
                  PROVE  h.page[<<i, o>>] = g.page[<<i, o>>] /\ h.data[<<i, o>>] = g.data[<<i, o>>]
      OBVIOUS
    <2>0. <<i, o>> \in Flat!Ppns
      BY FlatBlocksSame
    <2>1. h.page[<<i, o>>] = IF <<i, o>> = p THEN "INVALID" ELSE f.page[<<i, o>>]
      BY <1>1, <1>5, <1>9
    <2>2. h.data[<<i, o>>] = f.data[<<i, o>>]
      BY <1>1, <1>5
    <2>. QED
      BY <1>3, <2>0, <2>1, <2>2
  <1>11. \A i \in FlatBlocks : /\ h.pages_valid[i] = g.pages_valid[i]
                               /\ h.pages_invalid[i] = g.pages_invalid[i]
                               /\ h.erases_remaining[i] = g.erases_remaining[i]
    BY <1>1, <1>3, <1>6, <1>7, <1>8, FlatBlocksSame
  <1>12. h = g
    <2>1. \A q \in Flat!Ppns : h.page[q] = g.page[q] /\ h.data[q] = g.data[q]
      BY <1>10, FlatBlocksSame
    <2>. QED
      BY <1>3, <1>4, <1>11, <2>1, FlatBlocksSame, FlatEqual
  <1>. QED
    BY <1>12 DEF h, g, t, f, p

LEMMA MapErase ==
  ASSUME NEW s, DevPart(s), NEW b \in Blocks, s.block[b].erases_remaining >= 1
  PROVE  FlatOf(UnitErase(s, b)) = Flat!Erase(FlatOf(s), {BlockNumber(b)})
  <1>. DEFINE t == UnitErase(s, b)
              f == FlatOf(s)
              h == FlatOf(t)
              n == BlockNumber(b)
              g == Flat!Erase(f, {n})
  <1>1. /\ DevPart(t)
        /\ t.page_data = s.page_data
        /\ \A c \in Blocks, k \in Pages :
             t.page[c][k] = IF c = b THEN "EMPTY" ELSE s.page[c][k]
        /\ \A c \in Blocks :
             /\ t.block[c].pages_valid = IF c = b THEN 0 ELSE s.block[c].pages_valid
             /\ t.block[c].pages_invalid = IF c = b THEN 0 ELSE s.block[c].pages_invalid
             /\ t.block[c].erases_remaining =
                  IF c = b THEN s.block[c].erases_remaining - 1
                           ELSE s.block[c].erases_remaining
    BY EraseEffect
  <1>2. f \in Flat!FlashType /\ n \in Flat!Blocks /\ n \in FlatBlocks /\ BlockAt[n] = b
    BY FlatOfType, BlockNumberType, BlockAtInverse, FlatBlocksSame
  <1>. HIDE DEF t, n
  <1>3. f.erases_remaining[n] >= 1
    BY <1>2, FlatFields
  <1>. HIDE DEF f
  <1>4. /\ g \in Flat!FlashType
        /\ \A q \in Flat!Ppns : /\ g.page[q] = IF q[1] = n THEN "EMPTY" ELSE f.page[q]
                                /\ g.data[q] = f.data[q]
        /\ \A i \in Flat!Blocks :
             /\ g.pages_valid[i] = IF i = n THEN 0 ELSE f.pages_valid[i]
             /\ g.pages_invalid[i] = IF i = n THEN 0 ELSE f.pages_invalid[i]
             /\ g.erases_remaining[i] =
                  IF i = n THEN f.erases_remaining[i] - 1 ELSE f.erases_remaining[i]
    BY <1>2, <1>3, FlatErase
  <1>5. h \in Flat!FlashType
    BY <1>1, FlatOfType
  <1>. HIDE DEF g, h
  <1>6. \A i \in FlatBlocks, o \in Pages :
          /\ h.page[<<i, o>>] = t.page[BlockAt[i]][o] /\ f.page[<<i, o>>] = s.page[BlockAt[i]][o]
          /\ h.data[<<i, o>>] = t.page_data[i * BLOCK_SIZE + o]
          /\ f.data[<<i, o>>] = s.page_data[i * BLOCK_SIZE + o]
          /\ BlockAt[i] \in Blocks
    <2>1. \A i \in FlatBlocks, o \in Pages :
            /\ h.page[<<i, o>>] = t.page[BlockAt[i]][o]
            /\ h.data[<<i, o>>] = t.page_data[i * BLOCK_SIZE + o]
      BY FlatFields, ZenonT(30) DEF h
    <2>2. \A i \in FlatBlocks, o \in Pages :
            /\ f.page[<<i, o>>] = s.page[BlockAt[i]][o]
            /\ f.data[<<i, o>>] = s.page_data[i * BLOCK_SIZE + o]
      BY FlatFields, ZenonT(30) DEF f
    <2>. QED
      BY <2>1, <2>2, BlockAtNumber
  <1>7. \A i \in FlatBlocks :
          /\ h.pages_valid[i] = t.block[BlockAt[i]].pages_valid
          /\ f.pages_valid[i] = s.block[BlockAt[i]].pages_valid
          /\ h.pages_invalid[i] = t.block[BlockAt[i]].pages_invalid
          /\ f.pages_invalid[i] = s.block[BlockAt[i]].pages_invalid
          /\ h.erases_remaining[i] = t.block[BlockAt[i]].erases_remaining
          /\ f.erases_remaining[i] = s.block[BlockAt[i]].erases_remaining
          /\ BlockAt[i] \in Blocks
    BY FlatFields, BlockAtNumber DEF h, f
  <1>8. \A i \in FlatBlocks : BlockAt[i] = b <=> i = n
    BY SameBlock DEF n
  <1>9. \A i \in FlatBlocks, o \in Pages :
          h.page[<<i, o>>] = g.page[<<i, o>>] /\ h.data[<<i, o>>] = g.data[<<i, o>>]
    <2>. SUFFICES ASSUME NEW i \in FlatBlocks, NEW o \in Pages
                  PROVE  h.page[<<i, o>>] = g.page[<<i, o>>] /\ h.data[<<i, o>>] = g.data[<<i, o>>]
      OBVIOUS
    <2>0. <<i, o>> \in Flat!Ppns
      BY FlatBlocksSame
    <2>1. h.page[<<i, o>>] = IF i = n THEN "EMPTY" ELSE f.page[<<i, o>>]
      BY <1>1, <1>6, <1>8
    <2>2. h.data[<<i, o>>] = f.data[<<i, o>>]
      BY <1>1, <1>6
    <2>3. g.page[<<i, o>>] = IF i = n THEN "EMPTY" ELSE f.page[<<i, o>>]
      BY <1>4, <2>0
    <2>. QED
      BY <1>4, <2>0, <2>1, <2>2, <2>3
  <1>10. \A i \in FlatBlocks : /\ h.pages_valid[i] = g.pages_valid[i]
                               /\ h.pages_invalid[i] = g.pages_invalid[i]
                               /\ h.erases_remaining[i] = g.erases_remaining[i]
    BY <1>1, <1>4, <1>7, <1>8, FlatBlocksSame
  <1>11. h = g
    <2>1. \A q \in Flat!Ppns : h.page[q] = g.page[q] /\ h.data[q] = g.data[q]
      BY <1>9, FlatBlocksSame
    <2>. QED
      BY <1>4, <1>5, <1>10, <2>1, FlatBlocksSame, FlatEqual
  <1>. QED
    BY <1>11 DEF h, g, t, f, n

---------------------------------------------------------------------------
(* Every step keeps the invariant and maps to a step of FlatFlash.         *)

LEMMA TouchedAddress ==
  ASSUME NEW n \in Linear, NEW valid
  PROVE  PageAddress(Address(n, valid))
  BY AddressFields DEF PageAddress

LEMMA FlatViewIsFlatOf ==
  FlatView = FlatOf(dev) /\ FlatView' = FlatOf(dev')
  BY DEF FlatView, FlatOf

LEMMA InitIInv == Init => IInv
  <1>. SUFFICES ASSUME Init PROVE IInv
    OBVIOUS
  <1>1. /\ dev.page = [b \in Blocks |-> [o \in Pages |-> "EMPTY"]]
        /\ dev.page_data = [n \in Linear |-> NoData]
        /\ dev.block = [b \in Blocks |-> NewBlock]
        /\ DevShape(dev)
    BY DEF Init, DeviceInit, DevShape
  <1>2. NewBlock \in BlockRecords
    BY DeviceAssumption DEF NewBlock, BlockRecords, BlockStates
  <1>. QED
    BY <1>1, <1>2 DEF IInv, DevPart, States

LEMMA InitMaps == Init => Flat!Init
  <1>. SUFFICES ASSUME Init PROVE FlatOf(dev) = Flat!FlashInit
    BY FlatViewIsFlatOf DEF Flat!Init
  <1>1. /\ dev.page = [b \in Blocks |-> [o \in Pages |-> "EMPTY"]]
        /\ dev.page_data = [n \in Linear |-> NoData]
        /\ dev.block = [b \in Blocks |-> NewBlock]
    BY DEF Init, DeviceInit
  <1>2. FlatOf(dev) \in Flat!FlashType
    BY InitIInv, FlatOfType DEF IInv
  <1>3. Flat!FlashInit \in Flat!FlashType
    BY DeviceAssumption DEF Flat!FlashInit, Flat!FlashType, Flat!PageStates, Flat!Contents
  <1>4. \A i \in FlatBlocks, o \in Pages :
          /\ FlatOf(dev).page[<<i, o>>] = "EMPTY"
          /\ FlatOf(dev).data[<<i, o>>] = NoData
    <2>. SUFFICES ASSUME NEW i \in FlatBlocks, NEW o \in Pages
                  PROVE  /\ FlatOf(dev).page[<<i, o>>] = "EMPTY"
                         /\ FlatOf(dev).data[<<i, o>>] = NoData
      OBVIOUS
    <2>. DEFINE n == i * BLOCK_SIZE + o
                b == BlockAt[i]
    <2>1. FlatOf(dev).page[<<i, o>>] = dev.page[b][o] /\ FlatOf(dev).data[<<i, o>>] = dev.page_data[n]
      BY FlatFields
    <2>2. b \in Blocks /\ n \in Linear
      BY BlockAtNumber, FlatNumber
    <2>. HIDE DEF n, b
    <2>3. dev.page[b][o] = "EMPTY" /\ dev.page_data[n] = NoData
      BY <1>1, <2>2
    <2>. QED
      BY <2>1, <2>3
  <1>5. \A i \in FlatBlocks :
          /\ FlatOf(dev).pages_valid[i] = 0
          /\ FlatOf(dev).pages_invalid[i] = 0
          /\ FlatOf(dev).erases_remaining[i] = BLOCK_ERASES
    <2>. SUFFICES ASSUME NEW i \in FlatBlocks
                  PROVE  /\ FlatOf(dev).pages_valid[i] = 0
                         /\ FlatOf(dev).pages_invalid[i] = 0
                         /\ FlatOf(dev).erases_remaining[i] = BLOCK_ERASES
      OBVIOUS
    <2>1. dev.block[BlockAt[i]] = NewBlock
      BY <1>1, BlockAtNumber
    <2>2. /\ FlatOf(dev).pages_valid[i] = NewBlock.pages_valid
          /\ FlatOf(dev).pages_invalid[i] = NewBlock.pages_invalid
          /\ FlatOf(dev).erases_remaining[i] = NewBlock.erases_remaining
      BY <2>1, FlatFields
    <2>. QED
      BY <2>2 DEF NewBlock
  <1>6. \A q \in Flat!Ppns : /\ FlatOf(dev).page[q] = Flat!FlashInit.page[q]
                             /\ FlatOf(dev).data[q] = Flat!FlashInit.data[q]
    BY <1>4, FlatBlocksSame DEF Flat!FlashInit
  <1>7. \A i \in Flat!Blocks :
          /\ FlatOf(dev).pages_valid[i] = Flat!FlashInit.pages_valid[i]
          /\ FlatOf(dev).pages_invalid[i] = Flat!FlashInit.pages_invalid[i]
          /\ FlatOf(dev).erases_remaining[i] = Flat!FlashInit.erases_remaining[i]
    BY <1>5, FlatBlocksSame DEF Flat!FlashInit
  <1>. QED
    BY <1>2, <1>3, <1>6, <1>7, FlatEqual

\* The write of one event, with or without a page it replaces.
LEMMA IssueMaps ==
  ASSUME IInv, NEW a, PageAddress(a), NEW old, NEW d \in Payloads, Issue(a, old, d),
         old.valid = "PAGE" => PageAddress(old)
  PROVE  IInv' /\ Flat!Write(FlatOf(dev), FlatOf(dev'))
  <1>. DEFINE f == FlatOf(dev)
              t == PlaneWrite(dev, a, d)
              p == FlatPage(a)
              h == FlatOf(t)
              g == FlatOf(dev')
  <1>1. /\ DevPart(dev) /\ dev' = replace(t, old)
        /\ dev.page[a.block][a.page] = "EMPTY"
        /\ a.block \in Blocks /\ a.page \in Pages
    BY DEF IInv, Issue, PageAddress
  <1>2. /\ p \in Flat!Ppns
        /\ p = <<BlockNumber(a.block), a.page>>
        /\ BlockNumber(a.block) \in FlatBlocks
        /\ BlockAt[BlockNumber(a.block)] = a.block
    BY FlatPageOf DEF FlatPage
  <1>3. h = Flat!Program(f, p, d)
    BY <1>1, MapWrite
  <1>4. DevPart(t) /\ t.page[a.block][a.page] = "VALID"
    BY <1>1, WriteEffect
  <1>5. f.page[p] = dev.page[a.block][a.page]
    <2>. DEFINE i == BlockNumber(a.block)
    <2>1. f.page[<<i, a.page>>] = dev.page[BlockAt[i]][a.page]
      BY <1>1, <1>2, FlatFields, ZenonT(30)
    <2>. HIDE DEF f, p, i
    <2>. QED
      BY <1>2, <2>1 DEF i
  <1>6. Flat!CanProgram(f, p)
    BY <1>1, <1>5 DEF Flat!CanProgram
  <1>7. h.page[p] = "VALID"
    <2>. DEFINE i == BlockNumber(a.block)
    <2>1. h.page[<<i, a.page>>] = t.page[BlockAt[i]][a.page]
      BY <1>1, <1>2, FlatFields, ZenonT(30)
    <2>. HIDE DEF h, t, p, i
    <2>. QED
      BY <1>2, <1>4, <2>1 DEF i
  <1>. HIDE DEF f, t, p, h, g
  <1>8. CASE old.valid # "PAGE"
    <2>1. dev' = t
      BY <1>1, <1>8 DEF replace
    <2>2. g = Flat!Replace(Flat!Program(f, p, d), Flat!NoPpn)
      BY <1>3, <2>1 DEF Flat!Replace, g, h
    <2>3. p \in {q \in Flat!Ppns : g.page[q] # "EMPTY"}
      BY <1>2, <1>7, <2>1 DEF g, h
    <2>4. Flat!Write(f, g)
      BY <1>6, <2>2, <2>3 DEF Flat!Write
    <2>5. DevPart(dev')
      BY <1>4, <2>1
    <2>. QED
      BY <2>4, <2>5 DEF IInv, DevPart, DevShape, f, g
  <1>9. CASE old.valid = "PAGE"
    <2>. DEFINE o == FlatPage(old)
    <2>1. dev' = invalidate_page(t, old.block, old.page)
      BY <1>1, <1>9 DEF replace
    <2>2. PageAddress(old) /\ old.block \in Blocks /\ old.page \in Pages
      BY <1>9 DEF PageAddress
    <2>3. o \in Flat!Ppns /\ o # Flat!NoPpn
      BY <2>2, FlatPageOf
    <2>4. FlatOf(invalidate_page(t, old.block, old.page)) = Flat!Invalidate(h, o)
      BY <1>4, <2>2, MapInvalidate DEF h
    <2>5. g = Flat!Invalidate(h, o)
      BY <2>1, <2>4 DEF g
    <2>6. DevPart(dev')
      BY <1>4, <2>1, <2>2, InvalidateEffect
    <2>7. h \in Flat!FlashType
      BY <1>4, FlatOfType DEF h
    <2>. HIDE DEF o
    <2>8. \A q \in Flat!Ppns : g.page[q] = IF q = o THEN "INVALID" ELSE h.page[q]
      BY <2>3, <2>5, <2>7, FlatInvalidate
    <2>9. p \in {q \in Flat!Ppns : g.page[q] # "EMPTY"}
      BY <1>2, <1>7, <2>8
    <2>10. o \in {q \in Flat!Ppns : g.page[q] = "INVALID"}
      BY <2>3, <2>8
    <2>11. g = Flat!Replace(Flat!Program(f, p, d), o)
      BY <1>3, <2>3, <2>5 DEF Flat!Replace
    <2>12. Flat!Write(f, g)
      BY <1>6, <2>9, <2>10, <2>11 DEF Flat!Write
    <2>. QED
      BY <2>6, <2>12 DEF IInv, DevPart, DevShape, f, g
  <1>. QED
    BY <1>8, <1>9

\* The free page of a block is a page of that block.
LEMMA FreePageAddress ==
  ASSUME IInv, NEW n \in Linear, HasFreePage(Address(n, "BLOCK"))
  PROVE  PageAddress(get_free_page(Address(n, "BLOCK")))
  <1>. DEFINE a == Address(n, "BLOCK")
              v == dev.block[a.block].pages_valid
  <1>1. /\ a.block \in Blocks /\ a.page \in Pages /\ a.real_address = n
        /\ n = BLOCK_SIZE * BlockNumber(a.block) + a.page
        /\ a.page = n % BLOCK_SIZE
    BY AddressFields DEF Address
  <1>2. v \in Pages
    <2>1. dev.block[a.block] \in BlockRecords
      BY <1>1 DEF IInv, DevPart
    <2>2. v \in Nat
      BY <2>1 DEF BlockRecords
    <2>. QED
      BY <2>2, Geometry DEF HasFreePage, Pages
  <1>3. get_free_page(a) = Address(n - (n % BLOCK_SIZE) + v, "PAGE")
    BY <1>1 DEF get_free_page
  <1>. HIDE DEF v, a
  <1>4. BlockNumber(a.block) \in Nat
    BY <1>1, BlockNumberType DEF FlatBlocks
  <1>5. n - (n % BLOCK_SIZE) + v = BLOCK_SIZE * BlockNumber(a.block) + v
    <2>. DEFINE m == BLOCK_SIZE * BlockNumber(a.block)
    <2>1. m \in Nat
      BY <1>4, Geometry
    <2>2. a.page \in Int /\ v \in Int
      BY <1>1, <1>2, Geometry DEF Pages
    <2>3. n = m + a.page
      BY <1>1
    <2>. HIDE DEF m
    <2>4. n - a.page + v = m + v
      BY <2>1, <2>2, <2>3
    <2>. QED
      BY <1>1, <2>4 DEF m
  <1>6. BLOCK_SIZE * BlockNumber(a.block) + v \in Linear
    BY <1>1, <1>2, AddressUnique
  <1>. QED
    BY <1>3, <1>5, <1>6, TouchedAddress DEF a

LEMMA NextMaps ==
  ASSUME IInv, [Next]_vars
  PROVE  IInv' /\ [Flat!Next]_FlatView
  <1>0. Touched \subseteq Linear
    BY DeviceAssumption
  <1>t. ASSUME IInv',
               \/ Flat!InvalidatePage(FlatOf(dev), FlatOf(dev'))
               \/ Flat!EraseBlock(FlatOf(dev), FlatOf(dev'))
               \/ Flat!Write(FlatOf(dev), FlatOf(dev'))
        PROVE  Flat!Next
    <2>1. FlatOf(dev) \in Flat!FlashType /\ FlatOf(dev') \in Flat!FlashType
      <3>1. DevPart(dev) /\ DevPart(dev')
        BY <1>t DEF IInv, DevPart, DevShape
      <3>. QED
        BY <3>1, FlatOfType
    <2>. QED
      BY <1>t, <2>1, FlatViewIsFlatOf DEF Flat!Next
  <1>s. ASSUME dev' = dev PROVE IInv' /\ FlatView' = FlatView
    <2>1. FlatOf(dev') = FlatOf(dev)
      BY <1>s
    <2>. QED
      BY <1>s, <2>1, FlatViewIsFlatOf DEF IInv, DevPart, DevShape
  <1>1. CASE Write
    <2>1. PICK a \in PageAddresses, old \in ReplaceAddresses, d \in Payloads : Issue(a, old, d)
      BY <1>1 DEF Write
    <2>2. PageAddress(a)
      BY <1>0, <2>1, TouchedAddress DEF PageAddresses
    <2>3. old.valid = "PAGE" => PageAddress(old)
      BY <1>0, <2>1, TouchedAddress DEF PageAddresses, ReplaceAddresses, NoAddress, Address
    <2>4. IInv' /\ Flat!Write(FlatOf(dev), FlatOf(dev'))
      BY <2>1, <2>2, <2>3, IssueMaps
    <2>. QED
      BY <1>t, <2>4
  <1>2. CASE WriteFreePage
    <2>1. PICK a \in BlockAddresses, d \in Payloads :
            HasFreePage(a) /\ Issue(get_free_page(a), NoAddress, d)
      BY <1>2 DEF WriteFreePage
    <2>2. PICK n \in Touched : a = Address(n, "BLOCK")
      BY <2>1 DEF BlockAddresses
    <2>3. PageAddress(get_free_page(a))
      BY <1>0, <2>1, <2>2, FreePageAddress
    <2>4. NoAddress.valid # "PAGE"
      BY DEF NoAddress, Address
    <2>5. IInv' /\ Flat!Write(FlatOf(dev), FlatOf(dev'))
      BY <2>1, <2>3, <2>4, IssueMaps
    <2>. QED
      BY <1>t, <2>5
  <1>3. CASE FailedAssert
    BY <1>3, <1>s DEF FailedAssert
  <1>4. CASE EraseBlock
    <2>1. PICK a \in BlockAddresses :
            dev' = IF dev.block[a.block].erases_remaining < 1 THEN dev ELSE UnitErase(dev, a.block)
      BY <1>4 DEF EraseBlock
    <2>2. PageAddress(a) /\ a.block \in Blocks
      BY <1>0, <2>1, TouchedAddress DEF BlockAddresses, PageAddress
    <2>3. CASE dev.block[a.block].erases_remaining < 1
      BY <1>s, <2>1, <2>3
    <2>4. CASE ~(dev.block[a.block].erases_remaining < 1)
      <3>. DEFINE f == FlatOf(dev)
                  g == FlatOf(dev')
                  b == BlockNumber(a.block)
                  r == dev.block[a.block].erases_remaining
      <3>1. DevPart(dev) /\ dev' = UnitErase(dev, a.block)
        BY <2>1, <2>4 DEF IInv
      <3>2. r \in 0 .. BLOCK_ERASES
        <4>1. dev.block[a.block] \in BlockRecords
          BY <2>2 DEF IInv, DevPart
        <4>. QED
          BY <4>1 DEF BlockRecords
      <3>3. r >= 1
        BY <2>4, <3>2, DeviceAssumption
      <3>4. FlatOf(UnitErase(dev, a.block)) = Flat!Erase(f, {b})
        BY <2>2, <3>1, <3>3, MapErase
      <3>5. g = Flat!Erase(f, {b})
        BY <3>1, <3>4
      <3>6. DevPart(dev')
        BY <2>2, <3>1, <3>3, EraseEffect
      <3>7. b \in FlatBlocks /\ b \in Flat!Blocks /\ BlockAt[b] = a.block
        BY <2>2, FlatPageOf, FlatBlocksSame
      <3>8. f \in Flat!FlashType
        BY <3>1, FlatOfType
      <3>9. f.erases_remaining[b] = r
        BY <3>7, FlatFields, SMTT(30)
      <3>. HIDE DEF f, g, b, r
      <3>10. f.erases_remaining[b] >= 1 /\ f.erases_remaining[b] \in Nat
        BY <3>2, <3>3, <3>9, DeviceAssumption
      <3>11. g.erases_remaining[b] = f.erases_remaining[b] - 1
        BY <3>5, <3>7, <3>8, <3>10, FlatErase
      <3>12. b \in {c \in Flat!Blocks : g.erases_remaining[c] # f.erases_remaining[c]}
        BY <3>7, <3>10, <3>11
      <3>13. Flat!EraseBlock(f, g)
        BY <3>5, <3>10, <3>12 DEF Flat!EraseBlock, Flat!CanErase
      <3>14. IInv'
        BY <3>6 DEF IInv, DevPart, DevShape
      <3>. QED
        BY <1>t, <3>13, <3>14 DEF f, g
    <2>. QED
      BY <2>3, <2>4
  <1>5. CASE InvalidatePage
    <2>. DEFINE f == FlatOf(dev)
                g == FlatOf(dev')
    <2>1. PICK a \in PageAddresses : dev' = invalidate_page(dev, a.block, a.page)
      BY <1>5 DEF InvalidatePage
    <2>2. PageAddress(a) /\ a.block \in Blocks /\ a.page \in Pages
      BY <1>0, <2>1, TouchedAddress DEF PageAddresses, PageAddress
    <2>3. DevPart(dev) /\ DevPart(dev')
      BY <2>1, <2>2, InvalidateEffect DEF IInv
    <2>4. FlatOf(invalidate_page(dev, a.block, a.page)) = Flat!Invalidate(f, FlatPage(a))
      BY <2>2, <2>3, MapInvalidate
    <2>5. g = Flat!Invalidate(f, FlatPage(a))
      BY <2>1, <2>4
    <2>6. f \in Flat!FlashType /\ FlatPage(a) \in Flat!Ppns
      BY <2>2, <2>3, FlatOfType, FlatPageOf
    <2>. HIDE DEF f, g
    <2>7. g.page[FlatPage(a)] = "INVALID"
      BY <2>5, <2>6, FlatInvalidate
    <2>8. Flat!InvalidatePage(f, g)
      BY <2>5, <2>6, <2>7 DEF Flat!InvalidatePage
    <2>9. IInv'
      BY <2>3 DEF IInv, DevPart, DevShape
    <2>. QED
      BY <1>t, <2>8, <2>9 DEF f, g
  <1>6. CASE UNCHANGED vars
    BY <1>6, <1>s DEF vars
  <1>. QED
    BY <1>1, <1>2, <1>3, <1>4, <1>5, <1>6 DEF Next

\* The linear number of an address and its fields (set_linear_address, and the
\* constructors that number the blocks) are inverse of each other: no two
\* pages of the hierarchy share a place in page_data, and no number is lost.
THEOREM AddressRoundTrip ==
  /\ \A n \in Linear : LET a == Address(n, "PAGE")
                       IN  n = PhysicalAddress(a.block) + a.page
  /\ \A b \in Blocks, o \in Pages : LET a == Address(PhysicalAddress(b) + o, "PAGE")
                                    IN  a.block = b /\ a.page = o
  <1>1. \A n \in Linear : LET a == Address(n, "PAGE")
                          IN  n = PhysicalAddress(a.block) + a.page
    BY AddressFields, PhysicalNumber
  <1>2. ASSUME NEW b \in Blocks, NEW o \in Pages
        PROVE  LET a == Address(PhysicalAddress(b) + o, "PAGE")
               IN  a.block = b /\ a.page = o
    BY AddressUnique, PhysicalNumber
  <1>. QED
    BY <1>1, <1>2

\* What the hierarchy holds keeps its shape and types: in particular an erase
\* never takes the erases of a block below zero.
THEOREM Invariance == Spec => []IInv
  <1>1. Init => IInv
    BY InitIInv
  <1>2. IInv /\ [Next]_vars => IInv'
    BY NextMaps
  <1>. QED
    BY <1>1, <1>2, PTL DEF Spec

\* Routing an event by the fields of its address, copying its payload by the
\* linear number and naming blocks by physical_address agree for every
\* geometry: the hierarchy is the flat flash every FTL module works on.
THEOREM Refinement == Spec => ImplementsFlatFlash
  <1>1. Init => Flat!Init
    BY InitMaps
  <1>2. IInv /\ [Next]_vars => [Flat!Next]_FlatView
    BY NextMaps
  <1>3. Spec => []IInv
    BY Invariance
  <1>. QED
    BY <1>1, <1>2, <1>3, PTL DEF Spec, ImplementsFlatFlash, Flat!Spec

---------------------------------------------------------------------------
(* Paths cut and extended, as get_least_worn and the levels do it.         *)

LEMMA Paths ==
  ASSUME NEW p \in Int, NEW d \in Int, NEW l \in Int, NEW b \in Int
  PROVE  /\ << >> \in Seq(Int) /\ <<p>> \in Seq(Int) /\ <<p, d>> \in Seq(Int)
         /\ <<p, d, l>> \in Seq(Int) /\ <<p, d, l, b>> \in Seq(Int)
  OBVIOUS

\* Paths cut and extended.
LEMMA CutSeq ==
  ASSUME NEW x, NEW k \in 1 .. 3, \A i \in 1 .. k : x[i] \in Int,
         NEW y \in Seq(Int), Len(y) = k, \A i \in 1 .. k : y[i] = x[i]
  PROVE  SubSeq(x, 1, k) = y
  <1>1. /\ SubSeq(x, 1, k) \in Seq(Int)
        /\ Len(SubSeq(x, 1, k)) = IF 1 <= k THEN k - 1 + 1 ELSE 0
        /\ \A i \in 1 .. k - 1 + 1 : SubSeq(x, 1, k)[i] = x[1 + i - 1]
    BY SubSeqProperties
  <1>. QED
    BY <1>1, SeqEqual

LEMMA CutPath ==
  ASSUME NEW b \in Blocks
  PROVE  /\ SubSeq(b, 1, 0) = << >>
         /\ SubSeq(b, 1, 1) = <<b[1]>>
         /\ SubSeq(b, 1, 2) = <<b[1], b[2]>>
         /\ SubSeq(b, 1, 3) = <<b[1], b[2], b[3]>>
  <1>1. b[1] \in Int /\ b[2] \in Int /\ b[3] \in Int
    BY DEF Blocks, PackageNumbers, DieNumbers, PlaneNumbers, BlockNumbers
  <1>2. SubSeq(b, 1, 0) = << >>
    BY SubSeqEmpty
  <1>3. SubSeq(b, 1, 1) = <<b[1]>>
    <2>. DEFINE y == <<b[1]>>
    <2>1. y \in Seq(Int) /\ Len(y) = 1
      BY <1>1
    <2>2. \A i \in 1 .. 1 : b[i] \in Int /\ y[i] = b[i]
      BY <1>1
    <2>. HIDE DEF y
    <2>3. SubSeq(b, 1, 1) = y
      BY <2>1, <2>2, CutSeq
    <2>. QED
      BY <2>3 DEF y
  <1>4. SubSeq(b, 1, 2) = <<b[1], b[2]>>
    <2>. DEFINE y == <<b[1], b[2]>>
    <2>1. y \in Seq(Int) /\ Len(y) = 2
      BY <1>1
    <2>2. \A i \in 1 .. 2 : b[i] \in Int /\ y[i] = b[i]
      BY <1>1
    <2>. HIDE DEF y
    <2>3. SubSeq(b, 1, 2) = y
      BY <2>1, <2>2, CutSeq
    <2>. QED
      BY <2>3 DEF y
  <1>5. SubSeq(b, 1, 3) = <<b[1], b[2], b[3]>>
    <2>. DEFINE y == <<b[1], b[2], b[3]>>
    <2>1. y \in Seq(Int) /\ Len(y) = 3
      BY <1>1
    <2>2. \A i \in 1 .. 3 : b[i] \in Int /\ y[i] = b[i]
      BY <1>1
    <2>. HIDE DEF y
    <2>3. SubSeq(b, 1, 3) = y
      BY <2>1, <2>2, CutSeq
    <2>. QED
      BY <2>3 DEF y
  <1>. QED
    BY <1>2, <1>3, <1>4, <1>5

\* A path written out, from its parent and a number.
LEMMA ExtendTo ==
  ASSUME NEW x \in Seq(Int), NEW e \in Int, NEW y \in Seq(Int), Len(y) = Len(x) + 1,
         \A i \in 1 .. Len(y) : y[i] = IF i <= Len(x) THEN x[i] ELSE e
  PROVE  Append(x, e) = y
  <1>1. /\ Append(x, e) \in Seq(Int)
        /\ Len(Append(x, e)) = Len(x) + 1
        /\ \A i \in 1 .. Len(x) : Append(x, e)[i] = x[i]
        /\ Append(x, e)[Len(x) + 1] = e
    OBVIOUS
  <1>2. \A i \in 1 .. Len(x) + 1 : Append(x, e)[i] = y[i]
    BY <1>1
  <1>. QED
    BY <1>1, <1>2, SeqEqual

LEMMA ExtendPackage == \A p, d \in Int : Append(<<p>>, d) = <<p, d>>
  <1>. SUFFICES ASSUME NEW p \in Int, NEW d \in Int
                PROVE  Append(<<p>>, d) = <<p, d>>
    OBVIOUS
  <1>1. /\ <<p>> \in Seq(Int) /\ Len(<<p>>) = 1
        /\ <<p, d>> \in Seq(Int) /\ Len(<<p, d>>) = 1 + 1
    BY Paths
  <1>2. \A i \in 1 .. 1 + 1 : <<p, d>>[i] = IF i <= 1 THEN <<p>>[i] ELSE d
    OBVIOUS
  <1>. QED
    BY <1>1, <1>2, ExtendTo

LEMMA ExtendDie == \A p, d, l \in Int : Append(<<p, d>>, l) = <<p, d, l>>
  <1>. SUFFICES ASSUME NEW p \in Int, NEW d \in Int, NEW l \in Int
                PROVE  Append(<<p, d>>, l) = <<p, d, l>>
    OBVIOUS
  <1>1. /\ <<p, d>> \in Seq(Int) /\ Len(<<p, d>>) = 2
        /\ <<p, d, l>> \in Seq(Int) /\ Len(<<p, d, l>>) = 2 + 1
    BY Paths
  <1>2. \A i \in 1 .. 2 + 1 : <<p, d, l>>[i] = IF i <= 2 THEN <<p, d>>[i] ELSE l
    OBVIOUS
  <1>. QED
    BY <1>1, <1>2, ExtendTo

LEMMA ExtendPlane == \A p, d, l, b \in Int : Append(<<p, d, l>>, b) = <<p, d, l, b>>
  <1>. SUFFICES ASSUME NEW p \in Int, NEW d \in Int, NEW l \in Int, NEW b \in Int
                PROVE  Append(<<p, d, l>>, b) = <<p, d, l, b>>
    OBVIOUS
  <1>1. /\ <<p, d, l>> \in Seq(Int) /\ Len(<<p, d, l>>) = 3
        /\ <<p, d, l, b>> \in Seq(Int) /\ Len(<<p, d, l, b>>) = 3 + 1
    BY Paths
  <1>2. \A i \in 1 .. 3 + 1 : <<p, d, l, b>>[i] = IF i <= 3 THEN <<p, d, l>>[i] ELSE b
    OBVIOUS
  <1>. QED
    BY <1>1, <1>2, ExtendTo, ZenonT(30)

---------------------------------------------------------------------------
(* What the operations do to the states of blocks, to the counters of the  *)
(* planes and to the wear statistics.                                      *)

WearRecords == [least_worn : Nat, erases_remaining : 0 .. BLOCK_ERASES]

\* The count of free blocks of plane u drops by n.
Drops(s, t, u, n) ==
  /\ s.free_blocks \in [Planes -> Int]
  /\ t.free_blocks \in [Planes -> Int]
  /\ \A v \in Planes : t.free_blocks[v] = IF v = u THEN s.free_blocks[v] - n ELSE s.free_blocks[v]

LEMMA PlaneOfBlock ==
  ASSUME NEW b \in Blocks
  PROVE  PlaneOf(b) \in Planes
  BY DEF PlaneOf, Planes, Blocks

LEMMA WriteMarks ==
  ASSUME NEW s, DevPart(s), s.free_blocks \in [Planes -> Int], NEW a, PageAddress(a),
         NEW d \in Payloads, NEW t, t = PlaneWrite(s, a, d)
  PROVE  /\ \A b \in Blocks :
              t.block[b].state = IF b = a.block THEN "ACTIVE" ELSE s.block[b].state
         /\ t.wear = s.wear
         /\ Drops(s, t, PlaneOf(a.block), IF s.block[a.block].state = "FREE" THEN 1 ELSE 0)
  <1>. DEFINE w == BlockWrite(s, a, d)
              u == PlaneOf(a.block)
              r == [s.block[a.block] EXCEPT !.pages_valid = @ + 1]
              c == [r EXCEPT !.state = "ACTIVE"]
              v == [w EXCEPT !.free_blocks[u] = @ - 1]
  <1>1. /\ DevShape(s) /\ s.block \in [Blocks -> BlockRecords]
        /\ a.block \in Blocks /\ s.block[a.block] \in BlockRecords
        /\ u \in Planes
    BY PlaneOfBlock DEF DevPart, PageAddress
  <1>2. /\ w.free_blocks = s.free_blocks /\ w.wear = s.wear
        /\ w.block = [s.block EXCEPT ![a.block] = c]
    BY <1>1 DEF BlockWrite, DevShape
  <1>3. c.state = "ACTIVE"
    BY <1>1 DEF BlockRecords
  <1>4. DOMAIN w = {"page", "page_data", "block", "free_blocks", "wear"}
    BY <1>1 DEF BlockWrite, DevShape
  <1>. HIDE DEF w, c, u
  <1>5. \A b \in Blocks : w.block[b] = IF b = a.block THEN c ELSE s.block[b]
    BY <1>1, <1>2
  <1>6. t = IF s.block[a.block].state = "FREE" THEN v ELSE w
    BY <1>1, <1>3, <1>5 DEF PlaneWrite, w, u
  <1>7. /\ v.block = w.block /\ v.wear = w.wear
        /\ v.free_blocks = [s.free_blocks EXCEPT ![u] = s.free_blocks[u] - 1]
    BY <1>2, <1>4
  <1>. HIDE DEF v
  <1>8. t.block = w.block /\ t.wear = s.wear
    BY <1>2, <1>6, <1>7
  <1>9. Drops(s, t, u, IF s.block[a.block].state = "FREE" THEN 1 ELSE 0)
    <2>1. CASE s.block[a.block].state = "FREE"
      <3>1. t.free_blocks = [s.free_blocks EXCEPT ![u] = s.free_blocks[u] - 1]
        BY <1>6, <1>7, <2>1
      <3>2. Drops(s, t, u, 1)
        BY <1>1, <3>1 DEF Drops
      <3>. QED
        BY <2>1, <3>2
    <2>2. CASE s.block[a.block].state # "FREE"
      <3>1. Drops(s, t, u, 0)
        BY <1>1, <1>2, <1>6, <2>2 DEF Drops
      <3>. QED
        BY <2>2, <3>1
    <2>. QED
      BY <2>1, <2>2
  <1>. QED
    BY <1>3, <1>5, <1>8, <1>9 DEF u

LEMMA InvalidateMarks ==
  ASSUME NEW s, DevPart(s), NEW b \in Blocks, NEW o \in Pages, s.page[b][o] # "INVALID",
         NEW t, t = invalidate_page(s, b, o)
  PROVE  /\ \A c \in Blocks :
              t.block[c].state = IF c # b THEN s.block[c].state
                                 ELSE IF s.block[b].pages_invalid + 1 >= BLOCK_SIZE
                                   THEN "INACTIVE" ELSE "ACTIVE"
         /\ t.wear = s.wear /\ t.free_blocks = s.free_blocks
  <1>. DEFINE n == s.block[b].pages_invalid + 1
              st == IF n >= BLOCK_SIZE THEN "INACTIVE" ELSE "ACTIVE"
              r == [s.block[b] EXCEPT !.pages_invalid = n]
              e == [r EXCEPT !.state = st]
  <1>1. /\ DevShape(s) /\ s.block \in [Blocks -> BlockRecords] /\ s.block[b] \in BlockRecords
    BY DEF DevPart
  <1>2. t.wear = s.wear /\ t.free_blocks = s.free_blocks /\ t.block = [s.block EXCEPT ![b] = e]
    BY <1>1 DEF invalidate_page, DevShape
  <1>3. e.state = st
    <2>1. DOMAIN r = DOMAIN s.block[b] /\ "state" \in DOMAIN s.block[b]
      BY <1>1 DEF BlockRecords
    <2>. HIDE DEF r, st
    <2>. QED
      BY <2>1
  <1>. HIDE DEF e
  <1>4. \A c \in Blocks : t.block[c] = IF c = b THEN e ELSE s.block[c]
    BY <1>1, <1>2
  <1>. QED
    BY <1>2, <1>3, <1>4

WearTable(s) == s.wear = [u \in Units |-> s.wear[u]]

LEMMA EraseMarks ==
  ASSUME NEW s, DevPart(s), s.free_blocks \in [Planes -> Int], NEW b \in Blocks,
         s.wear \in [Units -> WearRecords],
         NEW t, t = UnitErase(s, b)
  PROVE  /\ \A c \in Blocks : t.block[c].state = IF c = b THEN "FREE" ELSE s.block[c].state
         /\ Drops(t, s, PlaneOf(b), 1)
         /\ DOMAIN t.wear = Units
         /\ WearTable(t)
         /\ \A u \in Units : t.wear[u] = IF u \in UnitsOf(b) THEN update_wear_stats(t, u, b)
                                         ELSE s.wear[u]
  <1>. DEFINE w == BlockErase(s, b)
              p == PlaneOf(b)
              e == [pages_valid |-> 0, pages_invalid |-> 0, state |-> "FREE",
                    erases_remaining |-> s.block[b].erases_remaining - 1]
              row == [o \in Pages |-> "EMPTY"]
              wear == [u \in Units |-> IF u \in UnitsOf(b) THEN update_wear_stats(w, u, b)
                                                           ELSE s.wear[u]]
              v == [w EXCEPT !.free_blocks[p] = @ + 1]
  <1>1. DevShape(s) /\ s.block \in [Blocks -> BlockRecords] /\ p \in Planes
    BY PlaneOfBlock DEF DevPart
  <1>2. /\ w.free_blocks = s.free_blocks /\ w.wear = s.wear
        /\ w.block = [s.block EXCEPT ![b] = e]
        /\ DOMAIN w = {"page", "page_data", "block", "free_blocks", "wear"}
    <2>. HIDE DEF e, row
    <2>1. w = [s EXCEPT !.page[b] = row, !.block[b] = e]
      BY DEF BlockErase, e, row
    <2>. HIDE DEF w
    <2>. QED
      BY <1>1, <2>1 DEF DevShape
  <1>3. e.state = "FREE"
    OBVIOUS
  <1>. HIDE DEF w, e, p
  <1>4. t = [v EXCEPT !.wear = wear]
    BY <1>2 DEF UnitErase, w, p
  <1>5. v.block = w.block /\ v.free_blocks = [s.free_blocks EXCEPT ![p] = s.free_blocks[p] + 1]
        /\ DOMAIN v = DOMAIN w
    BY <1>2
  <1>. HIDE DEF v, wear
  <1>6. t.block = w.block /\ t.free_blocks = v.free_blocks /\ t.wear = wear
    BY <1>2, <1>4, <1>5
  <1>7. \A c \in Blocks : t.block[c] = IF c = b THEN e ELSE s.block[c]
    BY <1>1, <1>2, <1>6
  <1>8. \A u \in Units : update_wear_stats(t, u, b) = update_wear_stats(w, u, b)
    BY <1>6 DEF update_wear_stats
  <1>9. Drops(t, s, p, 1)
    BY <1>1, <1>5, <1>6 DEF Drops
  <1>10. /\ DOMAIN t.wear = Units
         /\ WearTable(t)
         /\ \A u \in Units : t.wear[u] = IF u \in UnitsOf(b) THEN update_wear_stats(t, u, b)
                                         ELSE s.wear[u]
    BY <1>6, <1>8 DEF wear, WearTable
  <1>. QED
    BY <1>3, <1>7, <1>9, <1>10 DEF p

---------------------------------------------------------------------------
(* Wear statistics.                                                        *)

\* update_wear_stats takes the last of the better children.
LEMMA MaxExists ==
  ASSUME NEW n \in Nat, NEW S \in SUBSET (0 .. n - 1), S # {}
  PROVE  Max(S) \in S
  <1>. DEFINE T == {n - x : x \in S}
  <1>0. \A x \in S : x \in Int /\ n - x \in Nat
    OBVIOUS
  <1>1. T \in SUBSET Nat /\ T # {}
    BY <1>0
  <1>. HIDE DEF T
  <1>2. IsWellFoundedOn(OpToRel(<, Nat), Nat)
    BY NatLessThanWellFounded, Zenon
  <1>3. PICK m \in T : \A k \in T : ~(<<k, m>> \in OpToRel(<, Nat))
    BY <1>1, <1>2, WFMin
  <1>4. \A k \in T : ~(k < m)
    BY <1>1, <1>3 DEF OpToRel
  <1>5. PICK x \in S : m = n - x
    BY DEF T
  <1>6. \A y \in S : n - y \in T
    BY DEF T
  <1>7. \A y \in S : x >= y
    BY <1>4, <1>5, <1>6
  <1>. QED
    BY <1>7 DEF Max

LEMMA BlockSteps ==
  ASSUME NEW b \in Blocks
  PROVE  /\ b[1] \in 0 .. SSD_SIZE - 1 /\ b[2] \in 0 .. PACKAGE_SIZE - 1
         /\ b[3] \in 0 .. DIE_SIZE - 1 /\ b[4] \in 0 .. PLANE_SIZE - 1
  BY DEF Blocks, PackageNumbers, DieNumbers, PlaneNumbers, BlockNumbers

\* The units over a block are the ways to it.
LEMMA UnitsOverBlock ==
  ASSUME NEW b \in Blocks
  PROVE  UnitsOf(b) = {<< >>, <<b[1]>>, <<b[1], b[2]>>, <<b[1], b[2], b[3]>>}
  <1>1. UnitsOf(b) = {SubSeq(b, 1, 0), SubSeq(b, 1, 1), SubSeq(b, 1, 2), SubSeq(b, 1, 3)}
    <2>1. 0 .. 3 = {0, 1, 2, 3}
      OBVIOUS
    <2>. QED
      BY <2>1 DEF UnitsOf
  <1>. QED
    BY <1>1, CutPath

\* How many children the unit k steps down has, and the unit itself.
LEMMA LevelSizes ==
  ASSUME NEW b \in Blocks
  PROVE  /\ Children(<< >>) = 0 .. SSD_SIZE - 1
         /\ Children(<<b[1]>>) = 0 .. PACKAGE_SIZE - 1
         /\ Children(<<b[1], b[2]>>) = 0 .. DIE_SIZE - 1
         /\ Children(<<b[1], b[2], b[3]>>) = 0 .. PLANE_SIZE - 1
  <1>1. /\ Sizes[1] = SSD_SIZE /\ Sizes[2] = PACKAGE_SIZE
        /\ Sizes[3] = DIE_SIZE /\ Sizes[4] = PLANE_SIZE
    BY DEF Sizes
  <1>2. /\ Len(<< >>) + 1 = 1 /\ Len(<<b[1]>>) + 1 = 2 /\ Len(<<b[1], b[2]>>) + 1 = 3
        /\ Len(<<b[1], b[2], b[3]>>) + 1 = 4
    OBVIOUS
  <1>. QED
    BY <1>1, <1>2 DEF Children

\* The block a child of a unit over b answers for: b with one step changed.
Turned(b, k, i) == [b EXCEPT ![k] = i]

LEMMA TurnedBlock ==
  ASSUME NEW b \in Blocks, NEW i
  PROVE  /\ i \in 0 .. SSD_SIZE - 1 => Turned(b, 1, i) = <<i, b[2], b[3], b[4]>>
         /\ i \in 0 .. PACKAGE_SIZE - 1 => Turned(b, 2, i) = <<b[1], i, b[3], b[4]>>
         /\ i \in 0 .. DIE_SIZE - 1 => Turned(b, 3, i) = <<b[1], b[2], i, b[4]>>
         /\ i \in 0 .. PLANE_SIZE - 1 => Turned(b, 4, i) = <<b[1], b[2], b[3], i>>
  <1>1. PICK x, y, z, w : b = <<x, y, z, w>>
    BY BlockIsPath
  <1>. QED
    BY <1>1 DEF Turned

LEMMA TurnedFacts ==
  ASSUME NEW b \in Blocks, NEW u \in UnitsOf(b), NEW i \in Children(u)
  PROVE  /\ Turned(b, Len(u) + 1, i) \in Blocks
         /\ u \in UnitsOf(Turned(b, Len(u) + 1, i))
         /\ Len(u) = 3 => Turned(b, Len(u) + 1, i) = Append(u, i)
  <1>. DEFINE c == Turned(b, Len(u) + 1, i)
  <1>1. /\ b[1] \in 0 .. SSD_SIZE - 1 /\ b[2] \in 0 .. PACKAGE_SIZE - 1
        /\ b[3] \in 0 .. DIE_SIZE - 1 /\ b[4] \in 0 .. PLANE_SIZE - 1
    BY BlockSteps
  <1>2. CASE u = << >>
    <2>1. i \in 0 .. SSD_SIZE - 1 /\ Len(u) = 0
      BY <1>2, LevelSizes
    <2>2. c = <<i, b[2], b[3], b[4]>>
      BY <2>1, TurnedBlock
    <2>. HIDE DEF c
    <2>3. c \in Blocks
      BY <1>1, <2>1, <2>2, BlockPaths
    <2>4. u \in UnitsOf(c)
      BY <1>2, <2>3, UnitsOverBlock
    <2>. QED
      BY <2>1, <2>3, <2>4 DEF c
  <1>3. CASE u = <<b[1]>>
    <2>1. i \in 0 .. PACKAGE_SIZE - 1 /\ Len(u) = 1
      BY <1>3, LevelSizes
    <2>2. c = <<b[1], i, b[3], b[4]>>
      BY <2>1, TurnedBlock
    <2>. HIDE DEF c
    <2>3. c \in Blocks
      BY <1>1, <2>1, <2>2, BlockPaths
    <2>4. u \in UnitsOf(c)
      BY <1>3, <2>2, <2>3, UnitsOverBlock
    <2>. QED
      BY <2>1, <2>3, <2>4 DEF c
  <1>4. CASE u = <<b[1], b[2]>>
    <2>1. i \in 0 .. DIE_SIZE - 1 /\ Len(u) = 2
      BY <1>4, LevelSizes
    <2>2. c = <<b[1], b[2], i, b[4]>>
      BY <2>1, TurnedBlock
    <2>. HIDE DEF c
    <2>3. c \in Blocks
      BY <1>1, <2>1, <2>2, BlockPaths
    <2>4. u \in UnitsOf(c)
      BY <1>4, <2>2, <2>3, UnitsOverBlock
    <2>. QED
      BY <2>1, <2>3, <2>4 DEF c
  <1>5. CASE u = <<b[1], b[2], b[3]>>
    <2>1. i \in 0 .. PLANE_SIZE - 1 /\ Len(u) = 3
      BY <1>5, LevelSizes
    <2>2. c = <<b[1], b[2], b[3], i>>
      BY <2>1, TurnedBlock
    <2>3. Append(u, i) = <<b[1], b[2], b[3], i>>
      <3>1. b[1] \in Int /\ b[2] \in Int /\ b[3] \in Int /\ i \in Int
        BY <1>1, <2>1
      <3>2. Append(<<b[1], b[2], b[3]>>, i) = <<b[1], b[2], b[3], i>>
        BY <3>1, ExtendPlane, Zenon
      <3>. QED
        BY <1>5, <3>2
    <2>. HIDE DEF c
    <2>4. c \in Blocks
      BY <1>1, <2>1, <2>2, BlockPaths
    <2>5. u \in UnitsOf(c)
      BY <1>5, <2>2, <2>4, UnitsOverBlock
    <2>. QED
      BY <2>2, <2>3, <2>4, <2>5 DEF c
  <1>. QED
    BY <1>2, <1>3, <1>4, <1>5, UnitsOverBlock

\* Every unit has a block, child 0 exists, and a child's number is a number.
LEMMA ChildrenFacts ==
  ASSUME NEW u \in Units
  PROVE  /\ \E n \in Nat \ {0} : Children(u) = 0 .. n - 1
         /\ \E b \in Blocks : u \in UnitsOf(b)
  <1>1. 0 \in 0 .. SSD_SIZE - 1 /\ 0 \in 0 .. PACKAGE_SIZE - 1
        /\ 0 \in 0 .. DIE_SIZE - 1 /\ 0 \in 0 .. PLANE_SIZE - 1
    BY Geometry
  <1>2. \E b \in Blocks : u = << >> \/ u = <<b[1]>> \/ u = <<b[1], b[2]>> \/ u = <<b[1], b[2], b[3]>>
    <2>1. CASE u = << >>
      <3>1. <<0, 0, 0, 0>> \in Blocks
        BY <1>1, BlockPaths
      <3>. QED
        BY <2>1, <3>1
    <2>2. CASE u \in Packages
      <3>1. PICK p \in 0 .. SSD_SIZE - 1 : u = <<p>>
        BY <2>2 DEF Packages, PackageNumbers
      <3>2. <<p, 0, 0, 0>> \in Blocks /\ u = <<(<<p, 0, 0, 0>>)[1]>>
        BY <1>1, <3>1, BlockPaths
      <3>. QED
        BY <3>2
    <2>3. CASE u \in Dies
      <3>1. PICK p \in 0 .. SSD_SIZE - 1, d \in 0 .. PACKAGE_SIZE - 1 : u = <<p, d>>
        BY <2>3 DEF Dies, PackageNumbers, DieNumbers
      <3>2. <<p, d, 0, 0>> \in Blocks /\ u = <<(<<p, d, 0, 0>>)[1], (<<p, d, 0, 0>>)[2]>>
        BY <1>1, <3>1, BlockPaths
      <3>. QED
        BY <3>2
    <2>4. CASE u \in Planes
      <3>1. PICK p \in 0 .. SSD_SIZE - 1, d \in 0 .. PACKAGE_SIZE - 1, l \in 0 .. DIE_SIZE - 1 :
              u = <<p, d, l>>
        BY <2>4 DEF Planes, PackageNumbers, DieNumbers, PlaneNumbers
      <3>. DEFINE b == <<p, d, l, 0>>
      <3>2. b \in Blocks /\ u = <<b[1], b[2], b[3]>>
        BY <1>1, <3>1, BlockPaths
      <3>. QED
        BY <3>2
    <2>. QED
      BY <2>1, <2>2, <2>3, <2>4 DEF Units
  <1>. QED
    BY <1>2, UnitsOverBlock, LevelSizes, Geometry

\* A unit is over the blocks it is a way to; a plane is over its own blocks.
LEMMA PlaneBlocks ==
  ASSUME NEW u \in Planes, NEW j \in Children(u)
  PROVE  u \in Units /\ Len(u) = 3 /\ Append(u, j) \in Blocks /\ u \in UnitsOf(Append(u, j))
  <1>1. u \in Units
    BY DEF Units
  <1>2. Len(u) = 3
    BY DEF Planes
  <1>3. PICK b \in Blocks : u \in UnitsOf(b)
    BY <1>1, ChildrenFacts
  <1>. QED
    BY <1>1, <1>2, <1>3, TurnedFacts

WearKept(s) ==
  /\ s.wear \in [Units -> WearRecords]
  /\ \A u \in Units :
       /\ s.wear[u].least_worn \in Children(u)
       /\ \E b \in Blocks : /\ u \in UnitsOf(b)
                            /\ s.wear[u].erases_remaining = s.block[b].erases_remaining
  /\ \A u \in Planes : s.block[Append(u, s.wear[u].least_worn)].erases_remaining
                         >= s.block[Append(u, 0)].erases_remaining

\* What update_wear_stats finds is true of the blocks it looks at.
LEMMA WearOfUnit ==
  ASSUME NEW s, DevPart(s), NEW b \in Blocks, NEW u \in Units, u \in UnitsOf(b),
         NEW w, w = update_wear_stats(s, u, b)
  PROVE  /\ w \in WearRecords
         /\ w.least_worn \in Children(u)
         /\ \E c \in Blocks : /\ u \in UnitsOf(c)
                              /\ w.erases_remaining = s.block[c].erases_remaining
         /\ u \in Planes => s.block[Append(u, w.least_worn)].erases_remaining
                              >= s.block[Append(u, 0)].erases_remaining
  <1>. DEFINE left(i) == s.block[Turned(b, Len(u) + 1, i)].erases_remaining
              better == {i \in Children(u) : left(i) > left(0)}
              lw == IF better = {} THEN 0 ELSE Max(better)
  <1>1. w = [least_worn |-> lw, erases_remaining |-> left(0)]
    BY DEF update_wear_stats, Turned
  <1>2. PICK n \in Nat \ {0} : Children(u) = 0 .. n - 1
    BY ChildrenFacts
  <1>3. 0 \in Children(u)
    BY <1>2
  <1>4. \A i \in Children(u) : left(i) \in 0 .. BLOCK_ERASES
    <2>. SUFFICES ASSUME NEW i \in Children(u) PROVE left(i) \in 0 .. BLOCK_ERASES
      OBVIOUS
    <2>1. Turned(b, Len(u) + 1, i) \in Blocks
      BY TurnedFacts
    <2>2. s.block[Turned(b, Len(u) + 1, i)] \in BlockRecords
      BY <2>1 DEF DevPart
    <2>. QED
      BY <2>2 DEF BlockRecords
  <1>5. lw \in Children(u) /\ left(lw) >= left(0)
    <2>1. CASE better = {}
      <3>1. lw = 0
        BY <2>1
      <3>2. left(0) \in 0 .. BLOCK_ERASES
        BY <1>3, <1>4
      <3>. HIDE DEF lw, left
      <3>. QED
        BY <1>3, <3>1, <3>2, DeviceAssumption
    <2>2. CASE better # {}
      <3>1. better \in SUBSET (0 .. n - 1)
        BY <1>2
      <3>2. Max(better) \in better /\ lw = Max(better)
        BY <2>2, <3>1, MaxExists
      <3>3. lw \in Children(u) /\ left(lw) > left(0)
        BY <3>2
      <3>4. left(lw) \in 0 .. BLOCK_ERASES /\ left(0) \in 0 .. BLOCK_ERASES
        BY <1>3, <1>4, <3>3
      <3>. HIDE DEF lw, left
      <3>. QED
        BY <3>3, <3>4, DeviceAssumption
    <2>. QED
      BY <2>1, <2>2
  <1>6. w \in WearRecords
    <2>1. lw \in Nat /\ left(0) \in 0 .. BLOCK_ERASES
      BY <1>2, <1>3, <1>4, <1>5, SMTT(30)
    <2>. QED
      BY <1>1, <2>1 DEF WearRecords
  <1>7. w.least_worn = lw /\ w.erases_remaining = left(0)
    BY <1>1
  <1>8. \E c \in Blocks : u \in UnitsOf(c) /\ w.erases_remaining = s.block[c].erases_remaining
    BY <1>3, <1>7, TurnedFacts
  <1>9. u \in Planes => s.block[Append(u, lw)].erases_remaining
                          >= s.block[Append(u, 0)].erases_remaining
    <2>. SUFFICES ASSUME u \in Planes
                  PROVE  s.block[Append(u, lw)].erases_remaining
                           >= s.block[Append(u, 0)].erases_remaining
      OBVIOUS
    <2>1. Len(u) = 3
      BY DEF Planes
    <2>. HIDE DEF lw
    <2>2. Turned(b, Len(u) + 1, lw) = Append(u, lw) /\ Turned(b, Len(u) + 1, 0) = Append(u, 0)
      BY <1>3, <1>5, <2>1, TurnedFacts
    <2>. QED
      BY <1>5, <2>2
  <1>. QED
    BY <1>5, <1>6, <1>7, <1>8, <1>9

\* The wear statistics follow every erase ...
LEMMA EraseKeepsWear ==
  ASSUME NEW s, DevPart(s), WearKept(s), s.free_blocks \in [Planes -> Int],
         NEW b \in Blocks, s.block[b].erases_remaining >= 1,
         NEW t, t = UnitErase(s, b)
  PROVE  WearKept(t)
  <1>1. /\ DevPart(t)
        /\ \A c \in Blocks : c # b => t.block[c].erases_remaining = s.block[c].erases_remaining
    BY EraseEffect
  <1>0. s.wear \in [Units -> WearRecords]
    BY DEF WearKept
  <1>2. /\ WearTable(t)
        /\ \A u \in Units : t.wear[u] = IF u \in UnitsOf(b) THEN update_wear_stats(t, u, b)
                                        ELSE s.wear[u]
    BY <1>0, EraseMarks
  <1>3. ASSUME NEW u \in Units
        PROVE  /\ t.wear[u] \in WearRecords
               /\ t.wear[u].least_worn \in Children(u)
               /\ \E c \in Blocks : /\ u \in UnitsOf(c)
                                    /\ t.wear[u].erases_remaining = t.block[c].erases_remaining
               /\ u \in Planes => t.block[Append(u, t.wear[u].least_worn)].erases_remaining
                                    >= t.block[Append(u, 0)].erases_remaining
    <2>1. CASE u \in UnitsOf(b)
      BY <1>1, <1>2, <2>1, WearOfUnit, SMTT(30)
    <2>2. CASE u \notin UnitsOf(b)
      <3>1. t.wear[u] = s.wear[u] /\ s.wear[u] \in WearRecords
        BY <1>0, <1>2, <2>2
      <3>2. s.wear[u].least_worn \in Children(u) /\ 0 \in Children(u)
        BY ChildrenFacts DEF WearKept
      <3>3. PICK c \in Blocks : /\ u \in UnitsOf(c)
                                /\ s.wear[u].erases_remaining = s.block[c].erases_remaining
        BY DEF WearKept
      <3>4. c # b
        BY <2>2, <3>3
      <3>5. ASSUME u \in Planes
            PROVE  t.block[Append(u, s.wear[u].least_worn)].erases_remaining
                     >= t.block[Append(u, 0)].erases_remaining
        <4>1. /\ Append(u, s.wear[u].least_worn) \in Blocks \ {b}
              /\ Append(u, 0) \in Blocks \ {b}
          BY <2>2, <3>2, <3>5, PlaneBlocks
        <4>. QED
          BY <1>1, <3>5, <4>1 DEF WearKept
      <3>. QED
        BY <1>1, <3>1, <3>2, <3>3, <3>4, <3>5
    <2>. QED
      BY <2>1, <2>2
  <1>4. t.wear \in [Units -> WearRecords]
    BY <1>2, <1>3 DEF WearTable
  <1>5. \A u \in Planes : u \in Units
    BY DEF Units
  <1>. QED
    BY <1>3, <1>4, <1>5 DEF WearKept

\* ... and nothing else changes what they are about.
LEMMA SameWear ==
  ASSUME NEW s, DevPart(s), WearKept(s), NEW t, t.wear = s.wear,
         \A b \in Blocks : t.block[b].erases_remaining = s.block[b].erases_remaining
  PROVE  WearKept(t)
  <1>1. \A u \in Planes : /\ Append(u, s.wear[u].least_worn) \in Blocks
                          /\ Append(u, 0) \in Blocks
    <2>. SUFFICES ASSUME NEW u \in Planes
                  PROVE  /\ Append(u, s.wear[u].least_worn) \in Blocks
                         /\ Append(u, 0) \in Blocks
      OBVIOUS
    <2>1. u \in Units
      BY DEF Units
    <2>2. s.wear[u].least_worn \in Children(u) /\ 0 \in Children(u)
      BY <2>1, ChildrenFacts DEF WearKept
    <2>. QED
      BY <2>2, PlaneBlocks
  <1>. QED
    BY <1>1 DEF WearKept

---------------------------------------------------------------------------
(* Block states and the counters of the planes.                            *)

FreeIn(s, u) == {b \in BlocksOf[u] : s.block[b].state = "FREE"}
DriftOf(s, u) == s.free_blocks[u] - Cardinality(FreeIn(s, u))
InvalidIn(s, b) == {o \in Pages : s.page[b][o] = "INVALID"}

\* The state of a block, and the counters it is computed from.
BlockSound(s, b) ==
  /\ s.block[b].state = "FREE" <=> \A o \in Pages : s.page[b][o] = "EMPTY"
  /\ s.block[b].state = "INACTIVE" <=> \A o \in Pages : s.page[b][o] = "INVALID"
  /\ s.block[b].state = "FREE" => s.block[b].pages_valid = 0
  /\ s.block[b].pages_invalid = Cardinality(InvalidIn(s, b))

StateSound(s) ==
  /\ DevPart(s)
  /\ WearKept(s)
  /\ \A b \in Blocks : BlockSound(s, b)
  /\ s.free_blocks \in [Planes -> Int]
  /\ \A u \in Planes : DriftOf(s, u) >= 0

LEMMA PagesFinite ==
  /\ IsFiniteSet(Pages) /\ Cardinality(Pages) = BLOCK_SIZE
  /\ 0 \in Pages
  <1>1. 0 \in Int /\ BLOCK_SIZE - 1 \in Int
    BY Geometry
  <1>. QED
    BY <1>1, FS_Interval, Geometry DEF Pages

LEMMA BlocksFinite == IsFiniteSet(Blocks)
  <1>1. IsFiniteSet(FlatBlocks)
    <2>1. SSD_SIZE * PACKAGE_SIZE * DIE_SIZE * PLANE_SIZE - 1 \in Int /\ 0 \in Int
      BY Geometry
    <2>. QED
      BY <2>1, FS_Interval DEF FlatBlocks
  <1>2. BlockAt \in Surjection(FlatBlocks, Blocks)
    <2>1. BlockAt = [i \in FlatBlocks |-> BlockAt[i]]
      BY DEF BlockAt
    <2>2. \A i \in FlatBlocks : BlockAt[i] \in Blocks
      BY BlockAtNumber
    <2>3. BlockAt \in [FlatBlocks -> Blocks]
      BY <2>1, <2>2
    <2>4. \A b \in Blocks : \E i \in FlatBlocks : BlockAt[i] = b
      BY BlockAtInverse, BlockNumberType
    <2>. QED
      BY <2>3, <2>4 DEF Surjection
  <1>. QED
    BY <1>1, <1>2, FS_Surjection

\* A block of a plane more or less is free.
LEMMA FreeChange ==
  ASSUME NEW s, NEW t, NEW b \in Blocks, NEW u \in Planes,
         \A c \in Blocks : c # b => t.block[c].state = s.block[c].state
  PROVE  /\ Cardinality(FreeIn(s, u)) \in Nat
         /\ Cardinality(FreeIn(t, u)) \in Nat
         /\ u # PlaneOf(b) => Cardinality(FreeIn(t, u)) = Cardinality(FreeIn(s, u))
         /\ u = PlaneOf(b) =>
              Cardinality(FreeIn(t, u)) + (IF s.block[b].state = "FREE" THEN 1 ELSE 0)
                = Cardinality(FreeIn(s, u)) + (IF t.block[b].state = "FREE" THEN 1 ELSE 0)
  <1>. DEFINE S == FreeIn(s, u)
              T == FreeIn(t, u)
  <1>1. \A r : FreeIn(r, u) = {c \in Blocks : PlaneOf(c) = u /\ r.block[c].state = "FREE"}
    BY DEF FreeIn, BlocksOf
  <1>2. /\ \A c \in Blocks : c \in S <=> PlaneOf(c) = u /\ s.block[c].state = "FREE"
        /\ \A c \in Blocks : c \in T <=> PlaneOf(c) = u /\ t.block[c].state = "FREE"
        /\ S \in SUBSET Blocks /\ T \in SUBSET Blocks
    BY <1>1
  <1>. HIDE DEF S, T
  <1>3. /\ IsFiniteSet(S) /\ Cardinality(S) \in Nat
        /\ IsFiniteSet(T) /\ Cardinality(T) \in Nat
    BY <1>2, BlocksFinite, FS_Subset, FS_CardinalityType
  <1>4. CASE u # PlaneOf(b)
    <2>1. S = T
      BY <1>2, <1>4
    <2>. QED
      BY <1>3, <1>4, <2>1 DEF S, T
  <1>5. CASE u = PlaneOf(b)
    <2>1. b \in S <=> s.block[b].state = "FREE"
      BY <1>2, <1>5
    <2>2. b \in T <=> t.block[b].state = "FREE"
      BY <1>2, <1>5
    <2>3. S \ {b} = T \ {b}
      BY <1>2
    <2>4. /\ Cardinality(S \ {b}) = IF b \in S THEN Cardinality(S) - 1 ELSE Cardinality(S)
          /\ Cardinality(T \ {b}) = IF b \in T THEN Cardinality(T) - 1 ELSE Cardinality(T)
      BY <1>3, FS_RemoveElement
    <2>5. Cardinality(T) + (IF s.block[b].state = "FREE" THEN 1 ELSE 0)
            = Cardinality(S) + (IF t.block[b].state = "FREE" THEN 1 ELSE 0)
      <3>1. Cardinality(S \ {b}) = Cardinality(T \ {b})
        BY <2>3
      <3>2. Cardinality(S \ {b}) + (IF b \in S THEN 1 ELSE 0) = Cardinality(S)
        BY <1>3, <2>4
      <3>3. Cardinality(T \ {b}) + (IF b \in T THEN 1 ELSE 0) = Cardinality(T)
        BY <1>3, <2>4
      <3>4. Cardinality(S \ {b}) \in Int
        BY <1>3, <2>4
      <3>. QED
        BY <2>1, <2>2, <3>1, <3>2, <3>3, <3>4
    <2>. QED
      BY <1>3, <1>5, <2>5 DEF S, T
  <1>. QED
    BY <1>4, <1>5

\* Another page of the block is INVALID.
LEMMA InvalidCounted ==
  ASSUME NEW s, NEW b \in Blocks, NEW o \in Pages, s.page[b][o] # "INVALID",
         NEW t, \A k \in Pages : t.page[b][k] = IF k = o THEN "INVALID" ELSE s.page[b][k]
  PROVE  /\ Cardinality(InvalidIn(t, b)) = Cardinality(InvalidIn(s, b)) + 1
         /\ Cardinality(InvalidIn(t, b)) \in Nat
         /\ Cardinality(InvalidIn(t, b)) >= BLOCK_SIZE
              <=> \A k \in Pages : t.page[b][k] = "INVALID"
  <1>1. InvalidIn(s, b) \in SUBSET Pages /\ o \notin InvalidIn(s, b)
    BY DEF InvalidIn
  <1>2. InvalidIn(t, b) = InvalidIn(s, b) \cup {o}
    BY DEF InvalidIn
  <1>3. IsFiniteSet(InvalidIn(s, b)) /\ Cardinality(InvalidIn(s, b)) \in Nat
    BY <1>1, PagesFinite, FS_Subset, FS_CardinalityType
  <1>4. Cardinality(InvalidIn(t, b)) = Cardinality(InvalidIn(s, b)) + 1
    BY <1>1, <1>2, <1>3, FS_AddElement
  <1>5. InvalidIn(t, b) \in SUBSET Pages
    BY DEF InvalidIn
  <1>6. /\ Cardinality(InvalidIn(t, b)) <= BLOCK_SIZE
        /\ Cardinality(InvalidIn(t, b)) = BLOCK_SIZE <=> InvalidIn(t, b) = Pages
    BY <1>5, PagesFinite, FS_Subset
  <1>7. InvalidIn(t, b) = Pages <=> \A k \in Pages : t.page[b][k] = "INVALID"
    BY DEF InvalidIn
  <1>. QED
    BY <1>3, <1>4, <1>6, <1>7, Geometry

LEMMA SameBlockSound ==
  ASSUME NEW s, NEW t, NEW b \in Blocks, BlockSound(s, b),
         t.block[b].state = s.block[b].state,
         t.block[b].pages_valid = s.block[b].pages_valid,
         t.block[b].pages_invalid = s.block[b].pages_invalid,
         \A o \in Pages : t.page[b][o] = s.page[b][o]
  PROVE  BlockSound(t, b)
  <1>1. InvalidIn(t, b) = InvalidIn(s, b)
    BY DEF InvalidIn
  <1>. QED
    BY <1>1 DEF BlockSound

LEMMA WriteKeepsState ==
  ASSUME NEW s, StateSound(s), NEW a, PageAddress(a), s.page[a.block][a.page] = "EMPTY",
         NEW d \in Payloads, NEW t, t = PlaneWrite(s, a, d)
  PROVE  /\ StateSound(t)
         /\ \A u \in Planes : DriftOf(t, u) = DriftOf(s, u)
         /\ \A c \in Blocks : c # a.block => t.block[c].state = s.block[c].state
         /\ t.block[a.block].state # "FREE"
  <1>1. /\ DevPart(s) /\ WearKept(s) /\ s.free_blocks \in [Planes -> Int]
        /\ \A b \in Blocks : BlockSound(s, b)
        /\ a.block \in Blocks /\ a.page \in Pages
        /\ PlaneOf(a.block) \in Planes
    BY PlaneOfBlock DEF StateSound, PageAddress
  <1>2. /\ DevPart(t)
        /\ \A b \in Blocks, o \in Pages :
             t.page[b][o] = IF b = a.block /\ o = a.page THEN "VALID" ELSE s.page[b][o]
        /\ \A b \in Blocks :
             /\ t.block[b].pages_valid =
                  IF b = a.block THEN s.block[b].pages_valid + 1 ELSE s.block[b].pages_valid
             /\ t.block[b].pages_invalid = s.block[b].pages_invalid
             /\ t.block[b].erases_remaining = s.block[b].erases_remaining
    BY <1>1, WriteEffect
  <1>3. /\ \A b \in Blocks :
             t.block[b].state = IF b = a.block THEN "ACTIVE" ELSE s.block[b].state
        /\ t.wear = s.wear
        /\ Drops(s, t, PlaneOf(a.block), IF s.block[a.block].state = "FREE" THEN 1 ELSE 0)
    BY <1>1, WriteMarks
  <1>4. WearKept(t)
    BY <1>1, <1>2, <1>3, SameWear
  <1>5. \A b \in Blocks : BlockSound(t, b)
    <2>. SUFFICES ASSUME NEW b \in Blocks PROVE BlockSound(t, b)
      OBVIOUS
    <2>1. CASE b # a.block
      BY <1>1, <1>2, <1>3, <2>1, SameBlockSound
    <2>2. CASE b = a.block
      <3>1. t.page[b][a.page] = "VALID" /\ t.block[b].state = "ACTIVE"
        BY <1>1, <1>2, <1>3, <2>2
      <3>2. InvalidIn(t, b) = InvalidIn(s, b)
        BY <1>2, <2>2 DEF InvalidIn
      <3>. QED
        BY <1>1, <1>2, <3>1, <3>2 DEF BlockSound
    <2>. QED
      BY <2>1, <2>2
  <1>6. \A u \in Planes : DriftOf(t, u) = DriftOf(s, u)
    <2>. SUFFICES ASSUME NEW u \in Planes PROVE DriftOf(t, u) = DriftOf(s, u)
      OBVIOUS
    <2>1. /\ Cardinality(FreeIn(s, u)) \in Nat
          /\ Cardinality(FreeIn(t, u)) \in Nat
          /\ u # PlaneOf(a.block) => Cardinality(FreeIn(t, u)) = Cardinality(FreeIn(s, u))
          /\ u = PlaneOf(a.block) =>
               Cardinality(FreeIn(t, u)) + (IF s.block[a.block].state = "FREE" THEN 1 ELSE 0)
                 = Cardinality(FreeIn(s, u))
                   + (IF t.block[a.block].state = "FREE" THEN 1 ELSE 0)
      BY <1>1, <1>3, FreeChange, ZenonT(60)
    <2>2. t.block[a.block].state # "FREE"
      BY <1>1, <1>3
    <2>3. s.free_blocks[u] \in Int
      BY <1>1
    <2>4. t.free_blocks[u] = IF u = PlaneOf(a.block)
                               THEN s.free_blocks[u]
                                      - (IF s.block[a.block].state = "FREE" THEN 1 ELSE 0)
                               ELSE s.free_blocks[u]
      BY <1>3 DEF Drops
    <2>. QED
      BY <2>1, <2>2, <2>3, <2>4 DEF DriftOf
  <1>7. t.free_blocks \in [Planes -> Int]
    BY <1>3 DEF Drops
  <1>. QED
    BY <1>1, <1>2, <1>3, <1>4, <1>5, <1>6, <1>7 DEF StateSound

LEMMA InvalidateKeepsState ==
  ASSUME NEW s, StateSound(s), NEW b \in Blocks, NEW o \in Pages,
         NEW t, t = invalidate_page(s, b, o)
  PROVE  /\ StateSound(t)
         /\ \A u \in Planes :
              DriftOf(t, u) = DriftOf(s, u)
                + IF u = PlaneOf(b) /\ s.block[b].state = "FREE" THEN 1 ELSE 0
         /\ \A c \in Blocks : c # b => t.block[c].state = s.block[c].state
         /\ t.block[b].state # "FREE"
  <1>1. /\ DevPart(s) /\ WearKept(s) /\ s.free_blocks \in [Planes -> Int]
        /\ \A c \in Blocks : BlockSound(s, c)
        /\ PlaneOf(b) \in Planes
    BY PlaneOfBlock DEF StateSound
  <1>2. \A u \in Planes : DriftOf(s, u) \in Int
    <2>1. \A u \in Planes : Cardinality(FreeIn(s, u)) \in Nat
      BY FreeChange
    <2>. QED
      BY <1>1, <2>1 DEF DriftOf
  <1>3. CASE s.page[b][o] = "INVALID"
    <2>1. t = s
      BY <1>3 DEF invalidate_page
    <2>2. s.block[b].state # "FREE"
      BY <1>1, <1>3 DEF BlockSound
    <2>. QED
      BY <1>2, <2>1, <2>2
  <1>4. CASE s.page[b][o] # "INVALID"
    <2>1. /\ DevPart(t)
          /\ \A c \in Blocks, k \in Pages :
               t.page[c][k] = IF c = b /\ k = o THEN "INVALID" ELSE s.page[c][k]
          /\ \A c \in Blocks :
               /\ t.block[c].pages_valid = s.block[c].pages_valid
               /\ t.block[c].pages_invalid =
                    IF c = b THEN s.block[c].pages_invalid + 1 ELSE s.block[c].pages_invalid
               /\ t.block[c].erases_remaining = s.block[c].erases_remaining
      BY <1>1, <1>4, InvalidateEffect, SMTT(60)
    <2>2. /\ \A c \in Blocks :
               t.block[c].state = IF c # b THEN s.block[c].state
                                  ELSE IF s.block[b].pages_invalid + 1 >= BLOCK_SIZE
                                    THEN "INACTIVE" ELSE "ACTIVE"
          /\ t.wear = s.wear /\ t.free_blocks = s.free_blocks
      BY <1>1, <1>4, InvalidateMarks
    <2>3. WearKept(t)
      BY <1>1, <2>1, <2>2, SameWear
    <2>4. \A c \in Blocks : BlockSound(t, c)
      <3>. SUFFICES ASSUME NEW c \in Blocks PROVE BlockSound(t, c)
        OBVIOUS
      <3>1. CASE c # b
        BY <1>1, <2>1, <2>2, <3>1, SameBlockSound
      <3>2. CASE c = b
        <4>1. \A k \in Pages : t.page[b][k] = IF k = o THEN "INVALID" ELSE s.page[b][k]
          BY <2>1
        <4>2. /\ Cardinality(InvalidIn(t, b)) = Cardinality(InvalidIn(s, b)) + 1
              /\ Cardinality(InvalidIn(t, b)) >= BLOCK_SIZE
                   <=> \A k \in Pages : t.page[b][k] = "INVALID"
          BY <1>4, <4>1, InvalidCounted
        <4>3. /\ s.block[b].pages_invalid = Cardinality(InvalidIn(s, b))
              /\ t.block[b].pages_invalid = s.block[b].pages_invalid + 1
          BY <1>1, <2>1 DEF BlockSound
        <4>4. t.block[b].state = IF Cardinality(InvalidIn(t, b)) >= BLOCK_SIZE
                                   THEN "INACTIVE" ELSE "ACTIVE"
          BY <2>2, <4>2, <4>3
        <4>5. t.page[b][o] = "INVALID"
          BY <4>1
        <4>. QED
          BY <3>2, <4>2, <4>3, <4>4, <4>5 DEF BlockSound
      <3>. QED
        BY <3>1, <3>2
    <2>5. t.block[b].state # "FREE"
      BY <2>2
    <2>6. \A u \in Planes :
            DriftOf(t, u) = DriftOf(s, u)
              + IF u = PlaneOf(b) /\ s.block[b].state = "FREE" THEN 1 ELSE 0
      <3>. SUFFICES ASSUME NEW u \in Planes
                    PROVE  DriftOf(t, u) = DriftOf(s, u)
                             + IF u = PlaneOf(b) /\ s.block[b].state = "FREE" THEN 1 ELSE 0
        OBVIOUS
      <3>1. /\ Cardinality(FreeIn(s, u)) \in Nat
            /\ Cardinality(FreeIn(t, u)) \in Nat
            /\ u # PlaneOf(b) => Cardinality(FreeIn(t, u)) = Cardinality(FreeIn(s, u))
            /\ u = PlaneOf(b) =>
                 Cardinality(FreeIn(t, u)) + (IF s.block[b].state = "FREE" THEN 1 ELSE 0)
                   = Cardinality(FreeIn(s, u)) + (IF t.block[b].state = "FREE" THEN 1 ELSE 0)
        BY <2>2, FreeChange
      <3>2. s.free_blocks[u] \in Int /\ t.free_blocks[u] = s.free_blocks[u]
        BY <1>1, <2>2
      <3>. QED
        BY <2>5, <3>1, <3>2 DEF DriftOf
    <2>7. \A u \in Planes : DriftOf(t, u) >= 0
      BY <1>2, <2>6 DEF StateSound
    <2>. QED
      BY <1>1, <2>1, <2>2, <2>3, <2>4, <2>5, <2>6, <2>7 DEF StateSound
  <1>. QED
    BY <1>3, <1>4

LEMMA EraseKeepsState ==
  ASSUME NEW s, StateSound(s), NEW b \in Blocks, s.block[b].erases_remaining >= 1,
         NEW t, t = UnitErase(s, b)
  PROVE  /\ StateSound(t)
         /\ \A u \in Planes :
              DriftOf(t, u) = DriftOf(s, u)
                + IF u = PlaneOf(b) /\ s.block[b].state = "FREE" THEN 1 ELSE 0
         /\ \A c \in Blocks :
              /\ c # b => t.block[c].state = s.block[c].state
              /\ c # b => t.block[c].erases_remaining = s.block[c].erases_remaining
         /\ t.block[b].state = "FREE"
         /\ t.block[b].erases_remaining = s.block[b].erases_remaining - 1
  <1>1. /\ DevPart(s) /\ WearKept(s) /\ s.free_blocks \in [Planes -> Int]
        /\ \A c \in Blocks : BlockSound(s, c)
        /\ s.wear \in [Units -> WearRecords]
        /\ PlaneOf(b) \in Planes
    BY PlaneOfBlock DEF StateSound, WearKept
  <1>2. /\ DevPart(t)
        /\ \A c \in Blocks, k \in Pages : t.page[c][k] = IF c = b THEN "EMPTY" ELSE s.page[c][k]
        /\ \A c \in Blocks :
             /\ t.block[c].pages_valid = IF c = b THEN 0 ELSE s.block[c].pages_valid
             /\ t.block[c].pages_invalid = IF c = b THEN 0 ELSE s.block[c].pages_invalid
             /\ t.block[c].erases_remaining =
                  IF c = b THEN s.block[c].erases_remaining - 1
                           ELSE s.block[c].erases_remaining
    BY <1>1, EraseEffect
  <1>3. /\ \A c \in Blocks : t.block[c].state = IF c = b THEN "FREE" ELSE s.block[c].state
        /\ Drops(t, s, PlaneOf(b), 1)
    BY <1>1, EraseMarks
  <1>4. WearKept(t)
    BY <1>1, EraseKeepsWear
  <1>5. \A c \in Blocks : BlockSound(t, c)
    <2>. SUFFICES ASSUME NEW c \in Blocks PROVE BlockSound(t, c)
      OBVIOUS
    <2>1. CASE c # b
      BY <1>1, <1>2, <1>3, <2>1, SameBlockSound
    <2>2. CASE c = b
      <3>1. /\ t.block[c].state = "FREE" /\ t.block[c].pages_valid = 0
            /\ t.block[c].pages_invalid = 0
            /\ \A o \in Pages : t.page[c][o] = "EMPTY"
        BY <1>2, <1>3, <2>2
      <3>2. InvalidIn(t, c) = {}
        BY <3>1 DEF InvalidIn
      <3>3. Cardinality(InvalidIn(t, c)) = 0
        BY <3>2, FS_EmptySet
      <3>. QED
        BY <3>1, <3>3, PagesFinite DEF BlockSound
    <2>. QED
      BY <2>1, <2>2
  <1>6. ASSUME NEW u \in Planes
        PROVE  /\ DriftOf(t, u) = DriftOf(s, u)
                    + IF u = PlaneOf(b) /\ s.block[b].state = "FREE" THEN 1 ELSE 0
               /\ DriftOf(s, u) \in Int
    <2>1. /\ Cardinality(FreeIn(s, u)) \in Nat
          /\ Cardinality(FreeIn(t, u)) \in Nat
          /\ u # PlaneOf(b) => Cardinality(FreeIn(t, u)) = Cardinality(FreeIn(s, u))
          /\ u = PlaneOf(b) =>
               Cardinality(FreeIn(t, u)) + (IF s.block[b].state = "FREE" THEN 1 ELSE 0)
                 = Cardinality(FreeIn(s, u)) + (IF t.block[b].state = "FREE" THEN 1 ELSE 0)
      BY <1>3, FreeChange
    <2>2. t.block[b].state = "FREE"
      BY <1>3
    <2>3. s.free_blocks[u] \in Int
      BY <1>1
    <2>4. t.free_blocks[u] = IF u = PlaneOf(b) THEN s.free_blocks[u] + 1
                                               ELSE s.free_blocks[u]
      BY <1>3, <2>3 DEF Drops
    <2>. QED
      BY <2>1, <2>2, <2>3, <2>4 DEF DriftOf
  <1>7. t.free_blocks \in [Planes -> Int] /\ \A u \in Planes : DriftOf(t, u) >= 0
    BY <1>3, <1>6 DEF Drops, StateSound
  <1>. QED
    BY <1>2, <1>3, <1>4, <1>5, <1>6, <1>7 DEF StateSound

---------------------------------------------------------------------------
(* Every step of the specification.                                        *)

LEMMA InitState == Init => StateSound(dev)
  <1>. SUFFICES ASSUME Init PROVE StateSound(dev)
    OBVIOUS
  <1>1. /\ dev.page = [b \in Blocks |-> [o \in Pages |-> "EMPTY"]]
        /\ dev.block = [b \in Blocks |-> NewBlock]
        /\ dev.free_blocks = [u \in Planes |-> PLANE_SIZE]
        /\ dev.wear = [u \in Units |-> NewWear]
    BY DEF Init, DeviceInit
  <1>2. DevPart(dev)
    BY InitIInv DEF IInv
  <1>3. \A b \in Blocks : /\ dev.block[b].state = "FREE" /\ dev.block[b].pages_valid = 0
                          /\ dev.block[b].pages_invalid = 0
                          /\ dev.block[b].erases_remaining = BLOCK_ERASES
                          /\ \A o \in Pages : dev.page[b][o] = "EMPTY"
    BY <1>1 DEF NewBlock
  <1>4. \A b \in Blocks : BlockSound(dev, b)
    <2>. SUFFICES ASSUME NEW b \in Blocks PROVE BlockSound(dev, b)
      OBVIOUS
    <2>1. InvalidIn(dev, b) = {}
      BY <1>3 DEF InvalidIn
    <2>2. Cardinality(InvalidIn(dev, b)) = 0
      BY <2>1, FS_EmptySet
    <2>. QED
      BY <1>3, <2>2, PagesFinite DEF BlockSound
  <1>5. WearKept(dev)
    <2>1. NewWear \in WearRecords /\ NewWear.least_worn = 0
          /\ NewWear.erases_remaining = BLOCK_ERASES
      BY DeviceAssumption DEF NewWear, WearRecords
    <2>2. \A u \in Units : dev.wear[u] = NewWear /\ 0 \in Children(u)
      BY <1>1, ChildrenFacts
    <2>3. \A u \in Units : \E b \in Blocks : /\ u \in UnitsOf(b)
                                             /\ dev.block[b].erases_remaining = BLOCK_ERASES
      BY <1>3, ChildrenFacts
    <2>4. ASSUME NEW u \in Planes
          PROVE  /\ u \in Units
                 /\ dev.block[Append(u, 0)].erases_remaining = BLOCK_ERASES
      <3>1. u \in Units
        BY <2>4 DEF Units
      <3>2. Append(u, 0) \in Blocks
        BY <2>2, <2>4, <3>1, PlaneBlocks
      <3>. QED
        BY <1>3, <3>1, <3>2
    <2>5. dev.wear \in [Units -> WearRecords]
      BY <1>1, <2>1
    <2>. QED
      BY <2>1, <2>2, <2>3, <2>4, <2>5, DeviceAssumption DEF WearKept
  <1>6. dev.free_blocks \in [Planes -> Int]
    BY <1>1, Geometry
  <1>7. ASSUME NEW u \in Planes
        PROVE  DriftOf(dev, u) >= 0
    <2>. DEFINE F == FreeIn(dev, u)
                h == [b \in F |-> b[4]]
    <2>1. F \in SUBSET Blocks /\ \A b \in F : PlaneOf(b) = u
      BY <1>7 DEF FreeIn, BlocksOf
    <2>2. \A b \in F : b[4] \in 0 .. PLANE_SIZE - 1
      BY <2>1, BlockSteps
    <2>3. \A b, c \in F : b[4] = c[4] => b = c
      <3>. SUFFICES ASSUME NEW b \in F, NEW c \in F, b[4] = c[4] PROVE b = c
        OBVIOUS
      <3>1. <<b[1], b[2], b[3]>> = <<c[1], c[2], c[3]>>
        BY <2>1 DEF PlaneOf
      <3>2. b[1] = c[1] /\ b[2] = c[2] /\ b[3] = c[3]
        BY <3>1
      <3>. QED
        BY <2>1, <3>2, BlockIsPath
    <2>. HIDE DEF F
    <2>4. h \in Injection(F, 0 .. PLANE_SIZE - 1)
      BY <2>2, <2>3 DEF Injection, IsInjective
    <2>. HIDE DEF h
    <2>5. 0 \in Int /\ PLANE_SIZE - 1 \in Int /\ PLANE_SIZE \in Nat \ {0}
      BY Geometry
    <2>6. /\ IsFiniteSet(0 .. PLANE_SIZE - 1)
          /\ Cardinality(0 .. PLANE_SIZE - 1) = PLANE_SIZE
      BY <2>5, FS_Interval
    <2>7. IsFiniteSet(F) /\ Cardinality(F) <= PLANE_SIZE
      BY <2>4, <2>6, FS_Injection
    <2>8. Cardinality(F) \in Nat
      BY <2>7, FS_CardinalityType
    <2>9. dev.free_blocks[u] = PLANE_SIZE
      BY <1>1, <1>7
    <2>. QED
      BY <2>5, <2>7, <2>8, <2>9 DEF DriftOf, F
  <1>. QED
    BY <1>2, <1>4, <1>5, <1>6, <1>7 DEF StateSound

\* Miscounted, of any two states.
Miscounts(s, t, b) ==
  /\ s.block[b].state = "FREE"
  /\ \/ t.block[b].erases_remaining < s.block[b].erases_remaining
     \/ t.block[b].state # "FREE" /\ t.block[b].pages_valid = 0

\* The count of every plane is off by the miscounted blocks and no more.
Follows(s, t) ==
  \A u \in Planes :
    DriftOf(t, u) = DriftOf(s, u) + Cardinality({b \in BlocksOf[u] : Miscounts(s, t, b)})

LEMMA OneMiscount ==
  ASSUME NEW s, NEW t, NEW b \in Blocks, \A c \in Blocks : c # b => ~Miscounts(s, t, c),
         NEW n \in {0, 1}, n = 1 <=> Miscounts(s, t, b),
         \A u \in Planes : DriftOf(t, u) = DriftOf(s, u) + IF u = PlaneOf(b) THEN n ELSE 0
  PROVE  Follows(s, t)
  <1>. SUFFICES ASSUME NEW u \in Planes
                PROVE  DriftOf(t, u) = DriftOf(s, u)
                         + Cardinality({c \in BlocksOf[u] : Miscounts(s, t, c)})
    BY DEF Follows
  <1>. DEFINE M == {c \in BlocksOf[u] : Miscounts(s, t, c)}
  <1>1. \A c : c \in M <=> c \in Blocks /\ PlaneOf(c) = u /\ Miscounts(s, t, c)
    BY DEF BlocksOf
  <1>. HIDE DEF M
  <1>2. M = IF u = PlaneOf(b) /\ n = 1 THEN {b} ELSE {}
    BY <1>1
  <1>3. Cardinality(M) = IF u = PlaneOf(b) /\ n = 1 THEN 1 ELSE 0
    BY <1>2, FS_Singleton, FS_EmptySet
  <1>. QED
    BY <1>3 DEF M

\* A step that leaves every block as it was, or as far as it goes.
LEMMA NothingMiscounted ==
  ASSUME NEW s, StateSound(s)
  PROVE  Follows(s, s)
  <1>1. PICK b \in Blocks : TRUE
    <2>1. << >> \in Units
      BY DEF Units
    <2>. QED
      BY <2>1, ChildrenFacts
  <1>2. \A c \in Blocks : ~Miscounts(s, s, c)
    <2>. SUFFICES ASSUME NEW c \in Blocks PROVE ~Miscounts(s, s, c)
      OBVIOUS
    <2>1. s.block[c] \in BlockRecords
      BY DEF StateSound, DevPart
    <2>2. s.block[c].erases_remaining \in 0 .. BLOCK_ERASES
      BY <2>1 DEF BlockRecords
    <2>. QED
      BY <2>2, DeviceAssumption DEF Miscounts
  <1>3. \A u \in Planes : DriftOf(s, u) = DriftOf(s, u) + 0
    <2>1. \A u \in Planes : Cardinality(FreeIn(s, u)) \in Nat /\ s.free_blocks[u] \in Int
      BY <1>1, FreeChange DEF StateSound
    <2>. QED
      BY <2>1 DEF DriftOf
  <1>. QED
    BY <1>2, <1>3, OneMiscount

LEMMA InvalidateFollows ==
  ASSUME NEW s, StateSound(s), NEW b \in Blocks, NEW o \in Pages,
         NEW t, t = invalidate_page(s, b, o)
  PROVE  StateSound(t) /\ Follows(s, t)
  <1>1. /\ StateSound(t)
        /\ \A u \in Planes :
             DriftOf(t, u) = DriftOf(s, u)
               + IF u = PlaneOf(b) /\ s.block[b].state = "FREE" THEN 1 ELSE 0
        /\ \A c \in Blocks : c # b => t.block[c].state = s.block[c].state
        /\ t.block[b].state # "FREE"
    BY InvalidateKeepsState
  <1>2. /\ DevPart(s) /\ BlockSound(s, b)
        /\ \A c \in Blocks : s.block[c] \in BlockRecords
    BY DEF StateSound, DevPart
  <1>3. \A c \in Blocks : /\ t.block[c].pages_valid = s.block[c].pages_valid
                          /\ t.block[c].erases_remaining = s.block[c].erases_remaining
                          /\ s.block[c].erases_remaining \in Int
    BY <1>2, InvalidateEffect DEF BlockRecords
  <1>4. \A c \in Blocks : c # b => ~Miscounts(s, t, c)
    BY <1>1, <1>3 DEF Miscounts
  <1>5. Miscounts(s, t, b) <=> s.block[b].state = "FREE"
    BY <1>1, <1>2, <1>3 DEF Miscounts, BlockSound
  <1>. DEFINE n == IF s.block[b].state = "FREE" THEN 1 ELSE 0
  <1>6. n \in {0, 1} /\ (n = 1 <=> Miscounts(s, t, b))
    BY <1>5
  <1>7. \A u \in Planes : DriftOf(t, u) = DriftOf(s, u) + IF u = PlaneOf(b) THEN n ELSE 0
    BY <1>1
  <1>. HIDE DEF n
  <1>. QED
    BY <1>1, <1>4, <1>6, <1>7, OneMiscount

LEMMA EraseFollows ==
  ASSUME NEW s, StateSound(s), NEW b \in Blocks, s.block[b].erases_remaining >= 1,
         NEW t, t = UnitErase(s, b)
  PROVE  StateSound(t) /\ Follows(s, t)
  <1>1. /\ StateSound(t)
        /\ \A u \in Planes :
             DriftOf(t, u) = DriftOf(s, u)
               + IF u = PlaneOf(b) /\ s.block[b].state = "FREE" THEN 1 ELSE 0
        /\ \A c \in Blocks :
             /\ c # b => t.block[c].state = s.block[c].state
             /\ c # b => t.block[c].erases_remaining = s.block[c].erases_remaining
        /\ t.block[b].state = "FREE"
        /\ t.block[b].erases_remaining = s.block[b].erases_remaining - 1
    BY EraseKeepsState
  <1>2. \A c \in Blocks : s.block[c].erases_remaining \in Int
    <2>1. \A c \in Blocks : s.block[c] \in BlockRecords
      BY DEF StateSound, DevPart
    <2>. QED
      BY <2>1 DEF BlockRecords
  <1>3. \A c \in Blocks : c # b => ~Miscounts(s, t, c)
    BY <1>1, <1>2 DEF Miscounts
  <1>4. Miscounts(s, t, b) <=> s.block[b].state = "FREE"
    BY <1>1, <1>2 DEF Miscounts
  <1>. DEFINE n == IF s.block[b].state = "FREE" THEN 1 ELSE 0
  <1>5. n \in {0, 1} /\ (n = 1 <=> Miscounts(s, t, b))
    BY <1>4
  <1>6. \A u \in Planes : DriftOf(t, u) = DriftOf(s, u) + IF u = PlaneOf(b) THEN n ELSE 0
    BY <1>1
  <1>. HIDE DEF n
  <1>. QED
    BY <1>1, <1>3, <1>5, <1>6, OneMiscount

\* One event that writes a page and may replace another.
LEMMA IssueFollows ==
  ASSUME StateSound(dev), NEW a, PageAddress(a), NEW old, NEW d \in Payloads,
         Issue(a, old, d), old.valid = "PAGE" => PageAddress(old)
  PROVE  StateSound(dev') /\ Follows(dev, dev')
  <1>. DEFINE t == PlaneWrite(dev, a, d)
  <1>1. /\ dev' = replace(t, old) /\ dev.page[a.block][a.page] = "EMPTY"
        /\ a.block \in Blocks /\ DevPart(dev)
    BY DEF Issue, PageAddress, StateSound
  <1>2. /\ StateSound(t)
        /\ \A u \in Planes : DriftOf(t, u) = DriftOf(dev, u)
        /\ \A c \in Blocks : c # a.block => t.block[c].state = dev.block[c].state
        /\ t.block[a.block].state # "FREE"
    BY <1>1, WriteKeepsState
  <1>3. \A c \in Blocks : /\ t.block[c].pages_valid =
                               IF c = a.block THEN dev.block[c].pages_valid + 1
                                              ELSE dev.block[c].pages_valid
                          /\ t.block[c].erases_remaining = dev.block[c].erases_remaining
    BY <1>1, WriteEffect
  <1>4. \A c \in Blocks : /\ dev.block[c].erases_remaining \in Int
                          /\ dev.block[c].pages_valid \in Nat
                          /\ BlockSound(dev, c)
    <2>1. \A c \in Blocks : dev.block[c] \in BlockRecords
      BY <1>1 DEF DevPart
    <2>. QED
      BY <2>1 DEF BlockRecords, StateSound
  <1>. HIDE DEF t
  <1>5. CASE old.valid # "PAGE"
    <2>1. dev' = t
      BY <1>1, <1>5 DEF replace
    <2>2. \A c \in Blocks : ~Miscounts(dev, t, c)
      BY <1>2, <1>3, <1>4 DEF Miscounts
    <2>3. \A u \in Planes : DriftOf(t, u) = DriftOf(dev, u) + 0
      <3>1. \A u \in Planes : Cardinality(FreeIn(dev, u)) \in Nat /\ dev.free_blocks[u] \in Int
        BY <1>1, FreeChange DEF StateSound
      <3>. QED
        BY <1>2, <3>1 DEF DriftOf
    <2>4. Follows(dev, t)
      BY <1>1, <2>2, <2>3, OneMiscount
    <2>. QED
      BY <1>2, <2>1, <2>4
  <1>6. CASE old.valid = "PAGE"
    <2>. DEFINE b == old.block
                r == invalidate_page(t, b, old.page)
                n == IF t.block[b].state = "FREE" THEN 1 ELSE 0
    <2>1. b \in Blocks /\ old.page \in Pages /\ dev' = r /\ DevPart(t)
      BY <1>1, <1>2, <1>6 DEF replace, PageAddress, StateSound
    <2>2. /\ StateSound(r)
          /\ \A u \in Planes :
               DriftOf(r, u) = DriftOf(t, u)
                 + IF u = PlaneOf(b) /\ t.block[b].state = "FREE" THEN 1 ELSE 0
          /\ \A c \in Blocks : c # b => r.block[c].state = t.block[c].state
          /\ r.block[b].state # "FREE"
      BY <1>2, <2>1, InvalidateKeepsState
    <2>3. \A c \in Blocks : /\ r.block[c].pages_valid = t.block[c].pages_valid
                            /\ r.block[c].erases_remaining = t.block[c].erases_remaining
      BY <2>1, InvalidateEffect
    <2>. HIDE DEF r, b
    <2>4. \A c \in Blocks : c # b => ~Miscounts(dev, r, c)
      BY <1>1, <1>2, <1>3, <1>4, <2>2, <2>3 DEF Miscounts
    <2>5. Miscounts(dev, r, b) <=> t.block[b].state = "FREE"
      <3>1. CASE b = a.block
        BY <1>2, <1>3, <1>4, <2>1, <2>3, <3>1 DEF Miscounts
      <3>2. CASE b # a.block
        BY <1>2, <1>3, <1>4, <2>1, <2>2, <2>3, <3>2 DEF Miscounts, BlockSound
      <3>. QED
        BY <3>1, <3>2
    <2>6. n \in {0, 1} /\ (n = 1 <=> Miscounts(dev, r, b))
      BY <2>5
    <2>7. \A u \in Planes : DriftOf(r, u) = DriftOf(dev, u) + IF u = PlaneOf(b) THEN n ELSE 0
      BY <1>2, <2>2
    <2>. HIDE DEF n
    <2>8. Follows(dev, r)
      BY <2>1, <2>4, <2>6, <2>7, OneMiscount
    <2>. QED
      BY <2>1, <2>2, <2>8
  <1>. QED
    BY <1>5, <1>6

LEMMA NextFollows ==
  ASSUME StateSound(dev), [Next]_vars
  PROVE  StateSound(dev') /\ Follows(dev, dev')
  <1>0. Touched \subseteq Linear
    BY DeviceAssumption
  <1>1. CASE Write
    <2>1. PICK a \in PageAddresses, old \in ReplaceAddresses, d \in Payloads : Issue(a, old, d)
      BY <1>1 DEF Write
    <2>2. PageAddress(a)
      BY <1>0, <2>1, TouchedAddress DEF PageAddresses
    <2>3. old.valid = "PAGE" => PageAddress(old)
      BY <1>0, <2>1, TouchedAddress DEF PageAddresses, ReplaceAddresses, NoAddress, Address
    <2>. QED
      BY <2>1, <2>2, <2>3, IssueFollows
  <1>2. CASE WriteFreePage
    <2>1. PICK a \in BlockAddresses, d \in Payloads :
            HasFreePage(a) /\ Issue(get_free_page(a), NoAddress, d)
      BY <1>2 DEF WriteFreePage
    <2>2. PICK n \in Touched : a = Address(n, "BLOCK")
      BY <2>1 DEF BlockAddresses
    <2>3. IInv
      BY DEF StateSound, IInv
    <2>4. PageAddress(get_free_page(a))
      BY <1>0, <2>1, <2>2, <2>3, FreePageAddress
    <2>5. NoAddress.valid # "PAGE"
      BY DEF NoAddress, Address
    <2>. QED
      BY <2>1, <2>4, <2>5, IssueFollows
  <1>3. CASE dev' = dev
    BY <1>3, NothingMiscounted
  <1>4. CASE EraseBlock
    <2>1. PICK a \in BlockAddresses :
            dev' = IF dev.block[a.block].erases_remaining < 1 THEN dev ELSE UnitErase(dev, a.block)
      BY <1>4 DEF EraseBlock
    <2>2. PageAddress(a) /\ a.block \in Blocks
      BY <1>0, <2>1, TouchedAddress DEF BlockAddresses, PageAddress
    <2>3. CASE dev.block[a.block].erases_remaining < 1
      BY <1>3, <2>1, <2>3
    <2>4. CASE ~(dev.block[a.block].erases_remaining < 1)
      <3>1. dev.block[a.block].erases_remaining \in 0 .. BLOCK_ERASES
        <4>1. dev.block[a.block] \in BlockRecords
          BY <2>2 DEF StateSound, DevPart
        <4>. QED
          BY <4>1 DEF BlockRecords
      <3>2. dev.block[a.block].erases_remaining >= 1
        BY <2>4, <3>1, DeviceAssumption
      <3>3. dev' = UnitErase(dev, a.block)
        BY <2>1, <2>4
      <3>. QED
        BY <2>2, <3>2, <3>3, EraseFollows
    <2>. QED
      BY <2>3, <2>4
  <1>5. CASE InvalidatePage
    <2>1. PICK a \in PageAddresses : dev' = invalidate_page(dev, a.block, a.page)
      BY <1>5 DEF InvalidatePage
    <2>2. PageAddress(a) /\ a.block \in Blocks /\ a.page \in Pages
      BY <1>0, <2>1, TouchedAddress DEF PageAddresses, PageAddress
    <2>. QED
      BY <2>1, <2>2, InvalidateFollows
  <1>. QED
    BY <1>1, <1>2, <1>3, <1>4, <1>5 DEF Next, vars, FailedAssert

---------------------------------------------------------------------------
(* What the invariant gives.                                               *)

\* The states of blocks, the counters of planes and the wear statistics agree
\* with the pages through every event.
THEOREM StateInvariance == Spec => []StateSound(dev)
  <1>1. Init => StateSound(dev)
    BY InitState
  <1>2. StateSound(dev) /\ [Next]_vars => StateSound(dev)'
    BY NextFollows
  <1>. QED
    BY <1>1, <1>2, PTL DEF Spec

\* The hardware keeps its types; in particular the count of free blocks a
\* plane keeps without looking at them never falls below zero.
THEOREM TypeCorrect == Spec => []TypeOK
  <1>1. ASSUME StateSound(dev) PROVE dev \in DeviceType
    <2>1. \A u \in Planes : dev.free_blocks[u] \in Nat
      <3>. SUFFICES ASSUME NEW u \in Planes PROVE dev.free_blocks[u] \in Nat
        OBVIOUS
      <3>1. PICK b \in Blocks : TRUE
        <4>1. << >> \in Units
          BY DEF Units
        <4>. QED
          BY <4>1, ChildrenFacts
      <3>2. Cardinality(FreeIn(dev, u)) \in Nat
        BY <3>1, FreeChange
      <3>3. dev.free_blocks[u] \in Int /\ DriftOf(dev, u) >= 0
        BY <1>1 DEF StateSound
      <3>. QED
        BY <3>2, <3>3 DEF DriftOf
    <2>2. dev.free_blocks \in [Planes -> Nat]
      BY <1>1, <2>1 DEF StateSound
    <2>. QED
      BY <1>1, <2>2 DEF StateSound, DevPart, DevShape, WearKept, WearRecords, DeviceType,
         States, BlockRecords
  <1>2. Init => aborted \in BOOLEAN
    BY DEF Init
  <1>3. aborted \in BOOLEAN /\ [Next]_vars => (aborted \in BOOLEAN)'
    BY DEF Next, vars, Write, WriteFreePage, FailedAssert, EraseBlock, InvalidatePage, Issue
  <1>4. Spec => [](aborted \in BOOLEAN)
    BY <1>2, <1>3, PTL DEF Spec
  <1>5. StateSound(dev) /\ aborted \in BOOLEAN => TypeOK
    BY <1>1 DEF TypeOK
  <1>. QED
    BY <1>4, <1>5, StateInvariance, PTL

\* What write, erase and invalidate_page each say of a block, from what they
\* know, is what its pages say.
THEOREM StatesMatch == Spec => []StateMatchesPages
  <1>1. StateSound(dev) => StateMatchesPages
    BY DEF StateSound, BlockSound, StateMatchesPages
  <1>. QED
    BY <1>1, StateInvariance, PTL

\* Package, die, plane and Ssd report erases that a block of theirs has left
\* now, and get_least_worn names a block of the device.
THEOREM WearStatisticsCurrent == Spec => []WearCurrent
  <1>1. ASSUME StateSound(dev) PROVE WearCurrent
    <2>1. WearKept(dev)
      BY <1>1 DEF StateSound
    <2>2. ASSUME NEW u \in Units, NEW b \in Blocks, u \in UnitsOf(b)
          PROVE  SubSeq(b, 1, Len(u)) = u
      <3>1. \/ u = << >> /\ Len(u) = 0
            \/ u = <<b[1]>> /\ Len(u) = 1
            \/ u = <<b[1], b[2]>> /\ Len(u) = 2
            \/ u = <<b[1], b[2], b[3]>> /\ Len(u) = 3
        BY <2>2, UnitsOverBlock
      <3>. QED
        BY <2>2, <3>1, CutPath
    <2>3. \A u \in Units : \E b \in Blocks :
            /\ SubSeq(b, 1, Len(u)) = u
            /\ dev.wear[u].erases_remaining = dev.block[b].erases_remaining
      BY <2>1, <2>2 DEF WearKept
    <2>4. get_least_worn \in Blocks
      <3>. DEFINE x == LeastWornIn(<< >>)
                  y == LeastWornIn(<<x>>)
                  z == LeastWornIn(<<x, y>>)
                  w == LeastWornIn(<<x, y, z>>)
      <3>0. \A u \in Units : LeastWornIn(u) \in Children(u)
        BY <2>1 DEF WearKept, LeastWornIn
      <3>1. x \in 0 .. SSD_SIZE - 1
        <4>1. << >> \in Units
          BY DEF Units
        <4>2. PICK b \in Blocks : TRUE
          BY <4>1, ChildrenFacts
        <4>. QED
          BY <3>0, <4>1, <4>2, LevelSizes
      <3>. HIDE DEF x
      <3>2. y \in 0 .. PACKAGE_SIZE - 1
        <4>1. <<x>> \in Units
          BY <3>1 DEF Units, Packages, PackageNumbers
        <4>2. <<x, 0, 0, 0>> \in Blocks
          BY <3>1, Geometry, BlockPaths
        <4>3. Children(<<(<<x, 0, 0, 0>>)[1]>>) = 0 .. PACKAGE_SIZE - 1
          BY <4>2, LevelSizes
        <4>. QED
          BY <3>0, <4>1, <4>3
      <3>. HIDE DEF y
      <3>3. z \in 0 .. DIE_SIZE - 1
        <4>1. <<x, y>> \in Units
          BY <3>1, <3>2 DEF Units, Dies, PackageNumbers, DieNumbers
        <4>2. <<x, y, 0, 0>> \in Blocks
          BY <3>1, <3>2, Geometry, BlockPaths
        <4>3. Children(<<(<<x, y, 0, 0>>)[1], (<<x, y, 0, 0>>)[2]>>) = 0 .. DIE_SIZE - 1
          BY <4>2, LevelSizes
        <4>. QED
          BY <3>0, <4>1, <4>3
      <3>. HIDE DEF z
      <3>4. w \in 0 .. PLANE_SIZE - 1
        <4>1. <<x, y, z>> \in Units
          BY <3>1, <3>2, <3>3 DEF Units, Planes, PackageNumbers, DieNumbers, PlaneNumbers
        <4>. DEFINE b == <<x, y, z, 0>>
        <4>2. b \in Blocks
          BY <3>1, <3>2, <3>3, Geometry, BlockPaths
        <4>3. Children(<<b[1], b[2], b[3]>>) = 0 .. PLANE_SIZE - 1
          BY <4>2, LevelSizes
        <4>. QED
          BY <3>0, <4>1, <4>3
      <3>5. get_least_worn = <<x, y, z, w>>
        <4>1. x \in Int /\ y \in Int /\ z \in Int /\ w \in Int
          BY <3>1, <3>2, <3>3, <3>4
        <4>. HIDE DEF w
        <4>2. Append(<<x>>, y) = <<x, y>>
          BY <4>1, ExtendPackage, Zenon
        <4>3. Append(<<x, y>>, z) = <<x, y, z>>
          BY <4>1, ExtendDie, Zenon
        <4>4. Append(<<x, y, z>>, w) = <<x, y, z, w>>
          BY <4>1, ExtendPlane, Zenon
        <4>. QED
          BY <4>2, <4>3, <4>4 DEF get_least_worn, x, y, z, w
      <3>. HIDE DEF w
      <3>. QED
        BY <3>1, <3>2, <3>3, <3>4, <3>5, BlockPaths
    <2>. QED
      BY <2>1, <2>3, <2>4 DEF WearCurrent, WearKept, LeastWornIn
  <1>. QED
    BY <1>1, StateInvariance, PTL

\* Apart from the two steps a plane miscounts, its count of free blocks follows
\* the states of its blocks, through every event of the specification.
THEOREM CountFollowsStates == Spec => FreeBlocksFollow
  <1>1. ASSUME StateSound(dev), [Next]_vars
        PROVE  \A u \in Planes :
                 Drift(u)' = Drift(u) + Cardinality({b \in BlocksOf[u] : Miscounted(b)})
    <2>1. Follows(dev, dev')
      BY <1>1, NextFollows
    <2>2. \A u : Drift(u) = DriftOf(dev, u) /\ Drift(u)' = DriftOf(dev', u)
      BY DEF Drift, DriftOf, FreeIn
    <2>3. \A b : Miscounted(b) <=> Miscounts(dev, dev', b)
      BY DEF Miscounted, Miscounts
    <2>4. \A u : {b \in BlocksOf[u] : Miscounted(b)} = {b \in BlocksOf[u] : Miscounts(dev, dev', b)}
      BY <2>3
    <2>. QED
      BY <2>1, <2>2, <2>4 DEF Follows
  <1>. QED
    BY <1>1, StateInvariance, PTL DEF Spec, FreeBlocksFollow
================================================================================
