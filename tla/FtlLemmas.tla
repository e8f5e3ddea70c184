------------------------------- MODULE FtlLemmas -------------------------------
(***************************************************************************)
(* What the proofs about the FTLs and the Block_manager share: numbers,    *)
(* lists, the flash operations and the operations of Block_manager on its  *)
(* lists, for every geometry.                                              *)
(***************************************************************************)
EXTENDS BlockLists, FiniteSetTheorems, WellFoundedInduction, TLAPS

---------------------------------------------------------------------------
(* Numbers.                                                                *)

\* Division with remainder, the one arithmetic fact everything rests on.
LEMMA DivMod ==
  ASSUME NEW a \in Nat, NEW n \in Nat \ {0}
  PROVE  /\ a \div n \in Nat
         /\ a % n \in 0 .. n - 1
         /\ a = n * (a \div n) + (a % n)
  OBVIOUS

\* A quotient is below k when the dividend is below n * k.
LEMMA DivBound ==
  ASSUME NEW a \in Nat, NEW n \in Nat \ {0}, NEW k \in Nat, a < n * k
  PROVE  a \div n < k
  <1>1. /\ a \div n \in Nat
        /\ a % n \in 0 .. n - 1
        /\ a = n * (a \div n) + (a % n)
    BY DivMod
  <1>2. SUFFICES ASSUME a \div n >= k PROVE FALSE
    BY <1>1
  <1>3. n * (a \div n) >= n * k
    BY <1>1, <1>2
  <1>. QED
    BY <1>1, <1>3

\* Induction in the form the provers can use: a set of numbers, such as that of
\* the counterexamples to a claim, has a least one if it has any.
LEMMA LeastNumber ==
  ASSUME NEW S \in SUBSET Nat, S # {}
  PROVE  \E m \in S : \A n \in S : m <= n
  <1>1. IsWellFoundedOn(OpToRel(<, Nat), Nat)
    BY NatLessThanWellFounded, Zenon
  <1>2. PICK m \in S : \A n \in S : ~(<<n, m>> \in OpToRel(<, Nat))
    BY <1>1, WFMin
  <1>3. \A n \in S : ~(n < m)
    BY <1>2 DEF OpToRel
  <1>. QED
    BY <1>3

LEMMA Reaches ==
  ASSUME NEW N \in Nat, NEW S, 0 \in S, \A n \in 0 .. N - 1 : n \in S => n + 1 \in S
  PROVE  \A n \in 0 .. N : n \in S
  <1>. DEFINE Bad == {n \in 0 .. N : n \notin S}
  <1>1. SUFFICES ASSUME Bad # {} PROVE FALSE
    OBVIOUS
  <1>2. Bad \in SUBSET Nat
    OBVIOUS
  <1>3. PICK m \in Bad : \A n \in Bad : m <= n
    <2>. HIDE DEF Bad
    <2>. QED
      BY <1>1, <1>2, LeastNumber
  <1>4. m # 0 /\ m \in 0 .. N
    BY <1>3
  <1>5. m - 1 \in 0 .. N - 1 /\ ~(m <= m - 1) /\ m - 1 \in 0 .. N /\ (m - 1) + 1 = m
    BY <1>4
  <1>6. m - 1 \in S
    BY <1>3, <1>5
  <1>. QED
    BY <1>3, <1>5, <1>6

\* A loop of N steps, step n of which maps a state of R to the next one, has a
\* run: what a recursive function on 0 .. N, which is a CHOOSE, needs to exist.
Turns(N, R) == [0 .. N - 1 -> [R -> R]]
IsRun(f, N, R, x, F) ==
  /\ f \in [0 .. N -> R]
  /\ \A n \in 0 .. N : f[n] = IF n = 0 THEN x ELSE F[n - 1][f[n - 1]]

LEMMA LoopExists ==
  ASSUME NEW N \in Nat, NEW R, NEW x \in R, NEW F \in Turns(N, R)
  PROVE  \E f : IsRun(f, N, R, x, F)
  <1>0. F \in [0 .. N - 1 -> [R -> R]]
    BY DEF Turns
  <1>. DEFINE Upto(k) == \E f \in [0 .. k -> R] :
                \A n \in 0 .. k : f[n] = IF n = 0 THEN x ELSE F[n - 1][f[n - 1]]
              Bad == {k \in Nat : k <= N /\ ~Upto(k)}
  <1>1. SUFFICES ASSUME Bad # {} PROVE FALSE
    <2>. HIDE DEF Upto
    <2>1. N \in Nat /\ N <= N
      OBVIOUS
    <2>2. Upto(N)
      BY <1>1, <2>1
    <2>3. PICK f \in [0 .. N -> R] :
             \A n \in 0 .. N : f[n] = IF n = 0 THEN x ELSE F[n - 1][f[n - 1]]
      BY <2>2 DEF Upto
    <2>. QED
      BY <2>3 DEF IsRun
  <1>2. PICK m \in Bad : \A n \in Bad : m <= n
    <2>. HIDE DEF Upto
    <2>. QED
      BY <1>1, LeastNumber
  <1>3. CASE m = 0
    <2>1. [n \in 0 .. 0 |-> x] \in [0 .. 0 -> R]
      OBVIOUS
    <2>2. Upto(0)
      <3>. WITNESS [n \in 0 .. 0 |-> x] \in [0 .. 0 -> R]
      <3>. QED OBVIOUS
    <2>. QED
      BY <1>2, <1>3, <2>2
  <1>4. CASE m # 0
    <2>1. m - 1 \in Nat /\ m - 1 <= N /\ Upto(m - 1)
      <3>. HIDE DEF Upto
      <3>1. m \in Nat /\ m - 1 \in Nat /\ m - 1 <= N /\ ~(m <= m - 1)
        BY <1>2, <1>4
      <3>2. m - 1 \notin Bad
        BY <1>2, <3>1
      <3>. QED
        BY <3>1, <3>2
    <2>2. PICK g \in [0 .. m - 1 -> R] :
             \A n \in 0 .. m - 1 : g[n] = IF n = 0 THEN x ELSE F[n - 1][g[n - 1]]
      BY <2>1
    <2>. DEFINE h == [n \in 0 .. m |-> IF n = m THEN F[m - 1][g[m - 1]] ELSE g[n]]
    <2>3. h \in [0 .. m -> R]
      BY <1>0, <1>2, <1>4, <2>1
    <2>4. \A n \in 0 .. m : h[n] = IF n = 0 THEN x ELSE F[n - 1][h[n - 1]]
      BY <1>0, <1>2, <1>4, <2>1, <2>2
    <2>5. Upto(m)
      BY <2>3, <2>4
    <2>. QED
      BY <1>2, <2>5
  <1>. QED
    BY <1>2, <1>3, <1>4

LEMMA BlocksFinite ==
  /\ IsFiniteSet(Blocks)
  /\ Cardinality(Blocks) = NUMBER_OF_ADDRESSABLE_BLOCKS
  <1>1. 0 \in Int /\ NUMBER_OF_ADDRESSABLE_BLOCKS - 1 \in Int
    BY GeometryAssumption
  <1>. QED
    BY <1>1, FS_Interval, GeometryAssumption DEF Blocks

LEMMA DisjointUnion ==
  ASSUME NEW S, NEW T, IsFiniteSet(S), IsFiniteSet(T), S \cap T = {}
  PROVE  /\ IsFiniteSet(S \cup T)
         /\ Cardinality(S \cup T) = Cardinality(S) + Cardinality(T)
  <1>1. Cardinality(S \cap T) = 0
    BY FS_EmptySet
  <1>2. /\ IsFiniteSet(S \cup T)
        /\ Cardinality(S \cup T) = Cardinality(S) + Cardinality(T) - Cardinality(S \cap T)
    BY FS_Union
  <1>3. Cardinality(S) \in Nat /\ Cardinality(T) \in Nat
    BY FS_CardinalityType
  <1>. QED
    BY <1>1, <1>2, <1>3

---------------------------------------------------------------------------
(* Lists of blocks.                                                        *)

\* insert_events takes the blocks to erase from the back of invalid_list.
LEMMA ErasedType ==
  ASSUME NEW m \in BlockManagerType
  PROVE  /\ NumErased(m) \in 0 .. Len(m.invalid_list)
         /\ ErasedBlocks(m) \in Seq(Blocks)
         /\ Len(ErasedBlocks(m)) = NumErased(m)
         /\ \A i \in 1 .. NumErased(m) :
              ErasedBlocks(m)[i] = m.invalid_list[Len(m.invalid_list) + 1 - i]
  <1>. DEFINE k == NumErased(m)
              l == m.invalid_list
  <1>1. l \in Seq(Blocks) /\ Len(l) \in Nat
    BY DEF BlockManagerType
  <1>2. k \in 0 .. Len(l)
    BY <1>1, BlockListsAssumption DEF NumErased
  <1>3. \A i \in 1 .. k : l[Len(l) + 1 - i] \in Blocks
    BY <1>1, <1>2
  <1>4. ErasedBlocks(m) \in Seq(Blocks) /\ Len(ErasedBlocks(m)) = k
    BY <1>2, <1>3 DEF ErasedBlocks
  <1>. QED
    BY <1>2, <1>4 DEF ErasedBlocks

LEMMA ErasedMembers ==
  ASSUME NEW m \in BlockManagerType
  PROVE  ErasedSet(m) = Members(ErasedBlocks(m))
  BY ErasedType DEF ErasedSet, Members

\* The members of a list, and of lists joined, cut, extended and beheaded.
LEMMA ListMembers ==
  ASSUME NEW s \in Seq(Blocks)
  PROVE  Members(s) \subseteq Blocks
  BY DEF Members

LEMMA JoinedList ==
  ASSUME NEW s \in Seq(Blocks), NEW t \in Seq(Blocks)
  PROVE  /\ s \o t \in Seq(Blocks)
         /\ Members(s \o t) = Members(s) \cup Members(t)
         /\ NoRepeat(s) /\ NoRepeat(t) /\ Members(s) \cap Members(t) = {}
              => NoRepeat(s \o t)
  <1>1. Len(s \o t) = Len(s) + Len(t) /\ Len(s) \in Nat /\ Len(t) \in Nat
    OBVIOUS
  <1>2. /\ \A i \in 1 .. Len(s) : (s \o t)[i] = s[i]
        /\ \A i \in 1 .. Len(t) : (s \o t)[Len(s) + i] = t[i]
    OBVIOUS
  <1>3. \A i \in 1 .. Len(s \o t) :
          \/ i \in 1 .. Len(s) /\ (s \o t)[i] = s[i]
          \/ /\ i - Len(s) \in 1 .. Len(t)
             /\ (s \o t)[i] = t[i - Len(s)]
    BY <1>1, <1>2
  <1>4. Members(s \o t) = Members(s) \cup Members(t)
    <2>1. Members(s \o t) \subseteq Members(s) \cup Members(t)
      BY <1>3 DEF Members
    <2>2. Members(s) \subseteq Members(s \o t)
      <3>1. \A i \in 1 .. Len(s) : i \in 1 .. Len(s \o t)
        BY <1>1
      <3>. QED
        BY <1>2, <3>1 DEF Members
    <2>3. Members(t) \subseteq Members(s \o t)
      <3>1. \A i \in 1 .. Len(t) : Len(s) + i \in 1 .. Len(s \o t)
        BY <1>1
      <3>. QED
        BY <1>2, <3>1 DEF Members
    <2>. QED
      BY <2>1, <2>2, <2>3
  <1>5. ASSUME NoRepeat(s), NoRepeat(t), Members(s) \cap Members(t) = {}
        PROVE  NoRepeat(s \o t)
    <2>. SUFFICES ASSUME NEW i \in 1 .. Len(s \o t), NEW j \in 1 .. Len(s \o t),
                         (s \o t)[i] = (s \o t)[j]
                  PROVE  i = j
      BY DEF NoRepeat
    <2>1. \A x \in 1 .. Len(s), y \in 1 .. Len(t) : s[x] # t[y]
      BY <1>5 DEF Members
    <2>2. CASE i \in 1 .. Len(s) /\ j \in 1 .. Len(s)
      BY <1>2, <1>5, <2>2 DEF NoRepeat
    <2>3. CASE i - Len(s) \in 1 .. Len(t) /\ j - Len(s) \in 1 .. Len(t)
      BY <1>1, <1>3, <1>5, <2>3 DEF NoRepeat
    <2>. QED
      BY <1>1, <1>3, <2>1, <2>2, <2>3
  <1>. QED
    BY <1>4, <1>5

LEMMA CutList ==
  ASSUME NEW s \in Seq(Blocks), NEW n \in 0 .. Len(s)
  PROVE  /\ SubSeq(s, 1, n) \in Seq(Blocks)
         /\ Members(SubSeq(s, 1, n)) = {s[i] : i \in 1 .. n}
         /\ NoRepeat(s) => NoRepeat(SubSeq(s, 1, n))
  <1>1. SubSeq(s, 1, n) \in Seq(Blocks) /\ Len(SubSeq(s, 1, n)) = n
    OBVIOUS
  <1>2. \A i \in 1 .. n : SubSeq(s, 1, n)[i] = s[i]
    OBVIOUS
  <1>. QED
    BY <1>1, <1>2 DEF Members, NoRepeat

LEMMA AppendedList ==
  ASSUME NEW s \in Seq(Blocks), NEW b \in Blocks
  PROVE  /\ Append(s, b) \in Seq(Blocks)
         /\ Members(Append(s, b)) = Members(s) \cup {b}
         /\ NoRepeat(s) /\ b \notin Members(s) => NoRepeat(Append(s, b))
  <1>1. /\ Append(s, b) \in Seq(Blocks)
        /\ Len(Append(s, b)) = Len(s) + 1
        /\ \A i \in 1 .. Len(s) : Append(s, b)[i] = s[i]
        /\ Append(s, b)[Len(s) + 1] = b
        /\ Len(s) \in Nat
    OBVIOUS
  <1>2. 1 .. Len(s) + 1 = 1 .. Len(s) \cup {Len(s) + 1}
    BY <1>1
  <1>3. Members(Append(s, b)) = Members(s) \cup {b}
    BY <1>1, <1>2 DEF Members
  <1>4. NoRepeat(s) /\ b \notin Members(s) => NoRepeat(Append(s, b))
    BY <1>1, <1>2 DEF Members, NoRepeat
  <1>. QED
    BY <1>1, <1>3, <1>4

LEMMA BeheadedList ==
  ASSUME NEW s \in Seq(Blocks), s # << >>
  PROVE  /\ Tail(s) \in Seq(Blocks)
         /\ Head(s) \in Members(s)
         /\ NoRepeat(s) => /\ Members(Tail(s)) = Members(s) \ {Head(s)}
                           /\ NoRepeat(Tail(s))
  <1>1. /\ Tail(s) \in Seq(Blocks)
        /\ Len(s) \in Nat /\ Len(s) >= 1
        /\ Len(Tail(s)) = Len(s) - 1
        /\ \A i \in 1 .. Len(Tail(s)) : Tail(s)[i] = s[i + 1]
        /\ Head(s) = s[1]
    OBVIOUS
  <1>2. Head(s) \in Members(s)
    BY <1>1 DEF Members
  <1>3. ASSUME NoRepeat(s)
        PROVE  Members(Tail(s)) = Members(s) \ {Head(s)}
    <2>1. \A i \in 1 .. Len(Tail(s)) : i + 1 \in 1 .. Len(s) /\ i + 1 # 1
      BY <1>1
    <2>2. \A i \in 1 .. Len(s) : i = 1 \/ i - 1 \in 1 .. Len(Tail(s))
      BY <1>1
    <2>3. \A i \in 1 .. Len(s) : i # 1 => Tail(s)[i - 1] = s[i] /\ s[i] # s[1]
      BY <1>1, <1>3, <2>2 DEF NoRepeat
    <2>4. Members(Tail(s)) \subseteq Members(s) \ {Head(s)}
      BY <1>1, <2>1, <2>3 DEF Members
    <2>5. Members(s) \ {Head(s)} \subseteq Members(Tail(s))
      BY <1>1, <2>2, <2>3 DEF Members
    <2>. QED
      BY <2>4, <2>5
  <1>4. NoRepeat(s) => NoRepeat(Tail(s))
    BY <1>1 DEF NoRepeat
  <1>. QED
    BY <1>1, <1>2, <1>3, <1>4

\* What a list without repetition holds, counted.
LEMMA CountedList ==
  ASSUME NEW s \in Seq(Blocks), NoRepeat(s)
  PROVE  IsFiniteSet(Members(s)) /\ Cardinality(Members(s)) = Len(s)
  <1>1. Len(s) \in Nat /\ s \in [1 .. Len(s) -> Members(s)]
    BY DEF Members
  <1>2. s \in Bijection(1 .. Len(s), Members(s))
    BY <1>1 DEF Bijection, Injection, Surjection, IsInjective, NoRepeat, Members
  <1>3. ExistsBijection(1 .. Len(s), Members(s))
    BY <1>2 DEF ExistsBijection
  <1>. QED
    BY <1>1, <1>3, FS_CountingElements, FS_NatBijection

---------------------------------------------------------------------------
(* The flash operations.                                                   *)

\* The -1 of the tables is not the number of any page.
LEMMA NoPpnNotPage == NoPpn \notin Ppns
  BY GeometryAssumption DEF NoPpn, Ppns, Blocks, Offsets

\* Program changes one page, its payload and the counter of its block.
LEMMA ProgramEffect ==
  ASSUME NEW f \in FlashType, NEW p \in Ppns, NEW d \in Contents
  PROVE  /\ Program(f, p, d) \in FlashType
         /\ Program(f, p, d).page = [f.page EXCEPT ![p] = "VALID"]
         /\ Program(f, p, d).data = [f.data EXCEPT ![p] = d]
         /\ Program(f, p, d).pages_valid
              = [f.pages_valid EXCEPT ![p[1]] = f.pages_valid[p[1]] + 1]
         /\ Program(f, p, d).pages_invalid = f.pages_invalid
         /\ Program(f, p, d).erases_remaining = f.erases_remaining
  <1>1. p[1] \in Blocks
    BY DEF Ppns
  <1>2. /\ Program(f, p, d).page = [f.page EXCEPT ![p] = "VALID"]
        /\ Program(f, p, d).data = [f.data EXCEPT ![p] = d]
        /\ Program(f, p, d).pages_valid
             = [f.pages_valid EXCEPT ![p[1]] = f.pages_valid[p[1]] + 1]
        /\ Program(f, p, d).pages_invalid = f.pages_invalid
        /\ Program(f, p, d).erases_remaining = f.erases_remaining
    BY DEF FlashType, Program
  <1>3. /\ [f.page EXCEPT ![p] = "VALID"] \in [Ppns -> PageStates]
        /\ [f.data EXCEPT ![p] = d] \in [Ppns -> Contents]
        /\ [f.pages_valid EXCEPT ![p[1]] = f.pages_valid[p[1]] + 1] \in [Blocks -> Nat]
    BY <1>1 DEF FlashType, PageStates, Contents
  <1>4. Program(f, p, d) \in FlashType
    BY <1>3 DEF FlashType, Program
  <1>. QED
    BY <1>2, <1>4

\* Replace changes the state of the page it names and nothing of the others.
LEMMA ReplaceEffect ==
  ASSUME NEW f \in FlashType, NEW p \in Ppns \cup {NoPpn}
  PROVE  /\ Replace(f, p) \in FlashType
         /\ Replace(f, p).data = f.data
         /\ Replace(f, p).pages_valid = f.pages_valid
         /\ Replace(f, p).erases_remaining = f.erases_remaining
         /\ p \in Ppns => Replace(f, p).page = [f.page EXCEPT ![p] = "INVALID"]
         /\ p = NoPpn => Replace(f, p) = f
  <1>1. CASE p = NoPpn
    BY <1>1, NoPpnNotPage DEF Replace
  <1>2. CASE p # NoPpn /\ f.page[p] = "INVALID"
    BY <1>2 DEF Replace, Invalidate, FlashType
  <1>3. CASE p # NoPpn /\ f.page[p] # "INVALID"
    <2>1. p \in Ppns /\ p[1] \in Blocks
      BY <1>3 DEF Ppns
    <2>2. Replace(f, p) = Invalidate(f, p)
      BY <1>3 DEF Replace
    <2>3. /\ Invalidate(f, p).page = [f.page EXCEPT ![p] = "INVALID"]
          /\ Invalidate(f, p).data = f.data
          /\ Invalidate(f, p).pages_valid = f.pages_valid
          /\ Invalidate(f, p).erases_remaining = f.erases_remaining
      BY <1>3 DEF Invalidate, FlashType
    <2>4. /\ [f.page EXCEPT ![p] = "INVALID"] \in [Ppns -> PageStates]
          /\ [f.pages_invalid EXCEPT ![p[1]] = f.pages_invalid[p[1]] + 1] \in [Blocks -> Nat]
      BY <2>1 DEF FlashType, PageStates
    <2>5. Invalidate(f, p) \in FlashType
      BY <1>3, <2>4 DEF Invalidate, FlashType
    <2>. QED
      BY <1>3, <2>1, <2>2, <2>3, <2>5
  <1>. QED
    BY <1>1, <1>2, <1>3

\* Erasing blocks that can be erased empties their pages and no others.
LEMMA EraseEffect ==
  ASSUME NEW f \in FlashType, NEW B \in SUBSET Blocks, \A b \in B : CanErase(f, b)
  PROVE  /\ Erase(f, B) \in FlashType
         /\ Erase(f, B).data = f.data
         /\ \A p \in Ppns :
              Erase(f, B).page[p] = IF p[1] \in B THEN "EMPTY" ELSE f.page[p]
         /\ \A b \in Blocks :
              /\ Erase(f, B).pages_valid[b] = IF b \in B THEN 0 ELSE f.pages_valid[b]
              /\ Erase(f, B).pages_invalid[b] = IF b \in B THEN 0 ELSE f.pages_invalid[b]
              /\ b \notin B => Erase(f, B).erases_remaining[b] = f.erases_remaining[b]
  <1>1. \A b \in Blocks : b \in B => f.erases_remaining[b] - 1 \in Nat
    BY DEF FlashType, CanErase
  <1>2. /\ [p \in Ppns |-> IF p[1] \in B THEN "EMPTY" ELSE f.page[p]] \in [Ppns -> PageStates]
        /\ [b \in Blocks |-> IF b \in B THEN 0 ELSE f.pages_valid[b]] \in [Blocks -> Nat]
        /\ [b \in Blocks |-> IF b \in B THEN 0 ELSE f.pages_invalid[b]] \in [Blocks -> Nat]
        /\ [b \in Blocks |-> IF b \in B THEN f.erases_remaining[b] - 1
                                         ELSE f.erases_remaining[b]] \in [Blocks -> Nat]
    BY <1>1 DEF FlashType, PageStates
  <1>. QED
    BY <1>2 DEF Erase, FlashType

---------------------------------------------------------------------------
(* The operations of Block_manager on its lists.                           *)

\* The lists name no block twice, and only blocks once handed out.
ListsSound(m) ==
  /\ m \in BlockManagerType
  /\ NoRepeat(m.free_list)
  /\ NoRepeat(m.invalid_list)
  /\ Members(m.free_list) \cap Members(m.invalid_list) = {}
  /\ \A b \in Members(m.free_list) \cup Members(m.invalid_list) : b < m.fresh
  /\ ~m.out_of_blocks

\* insert_events moves the erased blocks from invalid_list to free_list.
LEMMA InsertEventsEffect ==
  ASSUME NEW m, ListsSound(m)
  PROVE  /\ ListsSound(InsertEvents(m))
         /\ ErasedSet(m) \subseteq Members(m.invalid_list)
         /\ Members(InsertEvents(m).free_list) = Members(m.free_list) \cup ErasedSet(m)
         /\ Members(InsertEvents(m).invalid_list) = Members(m.invalid_list) \ ErasedSet(m)
         /\ InsertEvents(m).fresh = m.fresh
         /\ InsertEvents(m).data_active = m.data_active
         /\ InsertEvents(m).log_active = m.log_active
  <1>. DEFINE l == m.invalid_list
              k == NumErased(m)
              e == ErasedBlocks(m)
              j == InsertEvents(m)
  <1>1. /\ m \in BlockManagerType
        /\ m.free_list \in Seq(Blocks)
        /\ l \in Seq(Blocks) /\ Len(l) \in Nat
        /\ NoRepeat(m.free_list) /\ NoRepeat(l)
    BY DEF ListsSound, BlockManagerType
  <1>2. /\ k \in 0 .. Len(l)
        /\ e \in Seq(Blocks) /\ Len(e) = k
        /\ \A i \in 1 .. k : e[i] = l[Len(l) + 1 - i]
        /\ ErasedSet(m) = Members(e)
    BY <1>1, ErasedType, ErasedMembers
  <1>3. j = [m EXCEPT !.free_list = m.free_list \o e, !.invalid_list = SubSeq(l, 1, Len(l) - k)]
    BY DEF InsertEvents
  <1>4. Members(e) = {l[i] : i \in Len(l) + 1 - k .. Len(l)}
    <2>1. \A i \in Len(l) + 1 - k .. Len(l) :
            Len(l) + 1 - i \in 1 .. k /\ l[i] = e[Len(l) + 1 - i]
      BY <1>1, <1>2
    <2>2. \A i \in 1 .. k : Len(l) + 1 - i \in Len(l) + 1 - k .. Len(l)
      BY <1>1, <1>2
    <2>3. Members(e) \subseteq {l[i] : i \in Len(l) + 1 - k .. Len(l)}
      <3>1. \A i \in 1 .. k : e[i] = l[Len(l) + 1 - i]
        BY <1>2
      <3>2. Members(e) = {e[i] : i \in 1 .. k}
        BY <1>2 DEF Members
      <3>. QED
        BY <2>2, <3>1, <3>2
    <2>4. {l[i] : i \in Len(l) + 1 - k .. Len(l)} \subseteq Members(e)
      <3>1. Members(e) = {e[i] : i \in 1 .. k}
        BY <1>2 DEF Members
      <3>. QED
        BY <2>1, <3>1
    <2>. QED
      BY <2>3, <2>4
  <1>5. /\ SubSeq(l, 1, Len(l) - k) \in Seq(Blocks)
        /\ NoRepeat(SubSeq(l, 1, Len(l) - k))
        /\ Members(SubSeq(l, 1, Len(l) - k)) = {l[i] : i \in 1 .. Len(l) - k}
    <2>1. Len(l) - k \in 0 .. Len(l)
      BY <1>1, <1>2
    <2>. QED
      BY <1>1, <2>1, CutList
  <1>6. /\ Members(e) \subseteq Members(l)
        /\ {l[i] : i \in 1 .. Len(l) - k} = Members(l) \ Members(e)
    <2>1. \A i \in 1 .. Len(l) : i \in 1 .. Len(l) - k \/ i \in Len(l) + 1 - k .. Len(l)
      BY <1>1, <1>2
    <2>2. \A i \in 1 .. Len(l) - k, h \in Len(l) + 1 - k .. Len(l) :
            i \in 1 .. Len(l) /\ h \in 1 .. Len(l) /\ l[i] # l[h]
      BY <1>1, <1>2 DEF NoRepeat
    <2>3. \A h \in Len(l) + 1 - k .. Len(l) : h \in 1 .. Len(l)
      BY <1>1, <1>2
    <2>4. \A i \in 1 .. Len(l) - k : i \in 1 .. Len(l)
      BY <1>1, <1>2
    <2>. QED
      BY <1>4, <2>1, <2>2, <2>3, <2>4 DEF Members
  <1>7. NoRepeat(e)
    <2>. SUFFICES ASSUME NEW g \in 1 .. Len(e), NEW h \in 1 .. Len(e), e[g] = e[h]
                  PROVE  g = h
      BY DEF NoRepeat
    <2>1. /\ Len(l) + 1 - g \in 1 .. Len(l) /\ Len(l) + 1 - h \in 1 .. Len(l)
          /\ l[Len(l) + 1 - g] = l[Len(l) + 1 - h]
      BY <1>1, <1>2
    <2>2. Len(l) + 1 - g = Len(l) + 1 - h
      BY <1>1, <2>1 DEF NoRepeat
    <2>. QED
      BY <1>1, <1>2, <2>2
  <1>8. Members(m.free_list) \cap Members(e) = {}
    BY <1>6 DEF ListsSound
  <1>9. /\ m.free_list \o e \in Seq(Blocks)
        /\ NoRepeat(m.free_list \o e)
        /\ Members(m.free_list \o e) = Members(m.free_list) \cup Members(e)
    BY <1>1, <1>2, <1>7, <1>8, JoinedList
  <1>10. /\ j.free_list = m.free_list \o e
         /\ j.invalid_list = SubSeq(l, 1, Len(l) - k)
         /\ j.fresh = m.fresh
         /\ j.data_active = m.data_active
         /\ j.log_active = m.log_active
         /\ j.out_of_blocks = m.out_of_blocks
         /\ j \in BlockManagerType
    BY <1>1, <1>3, <1>5, <1>9 DEF BlockManagerType
  <1>11. ListsSound(j)
    BY <1>5, <1>6, <1>9, <1>10 DEF ListsSound
  <1>. QED
    BY <1>2, <1>5, <1>6, <1>9, <1>10, <1>11

\* The lists keep their type even when they name a block twice.
LEMMA InsertEventsType ==
  ASSUME NEW m \in BlockManagerType
  PROVE  InsertEvents(m) \in BlockManagerType /\ ErasedSet(m) \in SUBSET Blocks
  <1>. DEFINE l == m.invalid_list
              k == NumErased(m)
              e == ErasedBlocks(m)
  <1>1. m.free_list \in Seq(Blocks) /\ l \in Seq(Blocks) /\ Len(l) \in Nat
    BY DEF BlockManagerType
  <1>2. k \in 0 .. Len(l) /\ e \in Seq(Blocks)
    BY ErasedType
  <1>3. Len(l) - k \in 0 .. Len(l)
    BY <1>1, <1>2
  <1>4. SubSeq(l, 1, Len(l) - k) \in Seq(Blocks)
    BY <1>1, <1>3, CutList
  <1>5. m.free_list \o e \in Seq(Blocks)
    BY <1>1, <1>2
  <1>6. InsertEvents(m) \in BlockManagerType
    BY <1>4, <1>5 DEF InsertEvents, BlockManagerType
  <1>7. ErasedSet(m) \in SUBSET Blocks
    BY <1>2, ErasedMembers, ListMembers
  <1>. QED
    BY <1>6, <1>7

LEMMA InsertEventsFlashType ==
  ASSUME NEW m \in BlockManagerType, NEW f \in FlashType, ~InsertEventsFails(m, f)
  PROVE  InsertEventsFlash(m, f) \in FlashType
  <1>1. ErasedSet(m) \in SUBSET Blocks /\ \A b \in ErasedSet(m) : CanErase(f, b)
    BY InsertEventsType DEF InsertEventsFails
  <1>. QED
    BY <1>1, EraseEffect DEF InsertEventsFlash

LEMMA PageBlockType ==
  ASSUME NEW m \in BlockManagerType, ~OutOfBlocks(m)
  PROVE  GetPageBlock(m) \in BlockManagerType /\ NextBlock(m) \in Blocks
  <1>1. CASE FreshBlockLeft(m)
    <2>1. m.fresh \in Blocks /\ m.fresh + 1 \in 0 .. NUMBER_OF_ADDRESSABLE_BLOCKS
      BY <1>1, GeometryAssumption DEF FreshBlockLeft, Blocks, BlockManagerType
    <2>2. NextBlock(m) = m.fresh
      BY <1>1 DEF NextBlock
    <2>3. GetPageBlock(m) = [m EXCEPT !.fresh = m.fresh + 1, !.current_writing_block = m.fresh]
      BY <1>1 DEF GetPageBlock
    <2>. QED
      BY <2>1, <2>2, <2>3 DEF BlockManagerType
  <1>2. CASE ~FreshBlockLeft(m)
    <2>1. Serviced(m) \in BlockManagerType
      BY InsertEventsType DEF Serviced
    <2>2. Serviced(m).free_list \in Seq(Blocks) /\ Serviced(m).free_list # << >>
      BY <1>2, <2>1 DEF OutOfBlocks, BlockManagerType
    <2>3. /\ Head(Serviced(m).free_list) \in Blocks
          /\ Tail(Serviced(m).free_list) \in Seq(Blocks)
      BY <2>2
    <2>4. TakeFree(Serviced(m)) \in BlockManagerType
      BY <2>1, <2>3 DEF TakeFree, BlockManagerType
    <2>. QED
      BY <1>2, <2>3, <2>4 DEF GetPageBlock, NextBlock
  <1>. QED
    BY <1>1, <1>2

\* The blocks get_page_block erases before it takes one.
Reclaimed(m) == IF RunsLow(m) THEN ErasedSet(m) ELSE {}

LEMMA ServicedEffect ==
  ASSUME NEW m, ListsSound(m), NEW f \in FlashType, ~ServiceFails(m, f)
  PROVE  /\ ListsSound(Serviced(m))
         /\ Reclaimed(m) \subseteq Members(m.invalid_list)
         /\ Members(Serviced(m).free_list) = Members(m.free_list) \cup Reclaimed(m)
         /\ Members(Serviced(m).invalid_list) = Members(m.invalid_list) \ Reclaimed(m)
         /\ Serviced(m).fresh = m.fresh
         /\ Serviced(m).data_active = m.data_active
         /\ Serviced(m).log_active = m.log_active
         /\ ServicedFlash(m, f) \in FlashType
         /\ \A p \in Ppns : ServicedFlash(m, f).page[p]
                              = IF p[1] \in Reclaimed(m) THEN "EMPTY" ELSE f.page[p]
  <1>1. CASE ~RunsLow(m)
    BY <1>1 DEF Serviced, ServicedFlash, Reclaimed
  <1>2. CASE RunsLow(m)
    <2>1. \A b \in ErasedSet(m) : CanErase(f, b)
      BY <1>2 DEF ServiceFails, InsertEventsFails
    <2>2. ErasedSet(m) \in SUBSET Blocks
      BY InsertEventsEffect, ListMembers DEF ListsSound, BlockManagerType
    <2>. QED
      BY <1>2, <2>1, <2>2, InsertEventsEffect, EraseEffect
         DEF Serviced, ServicedFlash, InsertEventsFlash, Reclaimed
  <1>. QED
    BY <1>1, <1>2

\* get_page_block hands out a block no list names afterwards: one never handed
\* out before, or the first of the free ones.
LEMMA PageBlockEffect ==
  ASSUME NEW m, ListsSound(m), NEW f \in FlashType,
         ~ServiceFails(m, f), ~OutOfBlocks(m)
  PROVE  /\ ListsSound(GetPageBlock(m))
         /\ NextBlock(m) \in Blocks
         /\ Members(GetPageBlock(m).invalid_list) = Members(m.invalid_list) \ Reclaimed(m)
         /\ Members(GetPageBlock(m).free_list)
              = (Members(m.free_list) \cup Reclaimed(m)) \ {NextBlock(m)}
         /\ \/ /\ NextBlock(m) = m.fresh
               /\ GetPageBlock(m).fresh = m.fresh + 1
            \/ /\ NextBlock(m) \in Members(m.free_list) \cup Reclaimed(m)
               /\ GetPageBlock(m).fresh = m.fresh
         /\ GetPageBlock(m).data_active = m.data_active
         /\ GetPageBlock(m).log_active = m.log_active
  <1>. DEFINE g == GetPageBlock(m)
              n == NextBlock(m)
              s == Serviced(m)
  <1>0. m \in BlockManagerType /\ m.fresh \in 0 .. NUMBER_OF_ADDRESSABLE_BLOCKS
    BY DEF ListsSound, BlockManagerType
  <1>1. CASE FreshBlockLeft(m)
    <2>1. Reclaimed(m) = {} /\ n = m.fresh
      BY <1>1 DEF Reclaimed, RunsLow, NextBlock
    <2>2. n \in Blocks /\ m.fresh + 1 \in 0 .. NUMBER_OF_ADDRESSABLE_BLOCKS
      BY <1>0, <1>1, <2>1, GeometryAssumption DEF FreshBlockLeft, Blocks
    <2>3. g = [m EXCEPT !.fresh = m.fresh + 1, !.current_writing_block = m.fresh]
      BY <1>1 DEF GetPageBlock
    <2>4. /\ g \in BlockManagerType
          /\ g.fresh = m.fresh + 1
          /\ g.free_list = m.free_list
          /\ g.invalid_list = m.invalid_list
          /\ g.data_active = m.data_active
          /\ g.log_active = m.log_active
          /\ g.out_of_blocks = m.out_of_blocks
      BY <1>0, <2>1, <2>2, <2>3 DEF BlockManagerType
    <2>5. \A b \in Members(m.free_list) \cup Members(m.invalid_list) :
            b \in Int /\ b < m.fresh
      BY <1>0, ListMembers DEF ListsSound, BlockManagerType, Blocks
    <2>6. \A b \in Members(g.free_list) \cup Members(g.invalid_list) : b < g.fresh
      BY <1>0, <2>4, <2>5
    <2>7. ListsSound(g)
      BY <2>4, <2>6 DEF ListsSound
    <2>8. n \notin Members(m.free_list)
      BY <1>0, <2>1, <2>5
    <2>. QED
      BY <2>1, <2>2, <2>4, <2>7, <2>8
  <1>2. CASE ~FreshBlockLeft(m)
    <2>1. /\ ListsSound(s)
          /\ Members(s.free_list) = Members(m.free_list) \cup Reclaimed(m)
          /\ Members(s.invalid_list) = Members(m.invalid_list) \ Reclaimed(m)
          /\ s.fresh = m.fresh
          /\ s.data_active = m.data_active
          /\ s.log_active = m.log_active
      BY ServicedEffect
    <2>2. s \in BlockManagerType /\ s.free_list \in Seq(Blocks) /\ s.free_list # << >>
      BY <1>2, <2>1 DEF ListsSound, BlockManagerType, OutOfBlocks
    <2>3. /\ n = Head(s.free_list)
          /\ g = [s EXCEPT !.free_list = Tail(s.free_list),
                           !.current_writing_block = n,
                           !.out_of_blocks = FALSE]
      BY <1>2 DEF NextBlock, GetPageBlock, TakeFree
    <2>4. /\ Tail(s.free_list) \in Seq(Blocks)
          /\ n \in Members(s.free_list) /\ n \in Blocks
          /\ Members(Tail(s.free_list)) = Members(s.free_list) \ {n}
          /\ NoRepeat(Tail(s.free_list))
      BY <2>1, <2>2, <2>3, BeheadedList DEF ListsSound
    <2>5. /\ g \in BlockManagerType
          /\ g.fresh = s.fresh
          /\ g.free_list = Tail(s.free_list)
          /\ g.invalid_list = s.invalid_list
          /\ g.data_active = s.data_active
          /\ g.log_active = s.log_active
          /\ ~g.out_of_blocks
      BY <2>2, <2>3, <2>4 DEF BlockManagerType
    <2>6. ListsSound(g)
      BY <2>1, <2>4, <2>5 DEF ListsSound
    <2>. QED
      BY <2>1, <2>4, <2>5, <2>6
  <1>. QED
    BY <1>1, <1>2

\* Without blocks to erase insert_events does nothing.
LEMMA NoGarbage ==
  ASSUME NEW m \in BlockManagerType, m.invalid_list = << >>, NEW f \in FlashType
  PROVE  /\ Reclaimed(m) = {}
         /\ ServicedFlash(m, f) = f
         /\ ~ServiceFails(m, f)
  <1>1. NumErased(m) = 0
    <2>1. Len(m.invalid_list) = 0
      OBVIOUS
    <2>. QED
      BY <2>1, ErasedType
  <1>2. ErasedSet(m) = {}
    BY <1>1 DEF ErasedSet
  <1>3. Erase(f, {}) = f
    BY DEF Erase, FlashType
  <1>. QED
    BY <1>2, <1>3 DEF Reclaimed, ServicedFlash, InsertEventsFlash, ServiceFails, InsertEventsFails

\* The active counters are no part of the lists.
LEMMA CountActiveEffect ==
  ASSUME NEW m \in BlockManagerType, NEW type \in BlockTypes, NEW n \in Int
  PROVE  /\ CountActive(m, type, n) \in BlockManagerType
         /\ CountActive(m, type, n).fresh = m.fresh
         /\ CountActive(m, type, n).free_list = m.free_list
         /\ CountActive(m, type, n).invalid_list = m.invalid_list
         /\ CountActive(m, type, n).out_of_blocks = m.out_of_blocks
         /\ CountActive(m, type, n).data_active
              = m.data_active + IF type = "DATA" THEN n ELSE 0
         /\ CountActive(m, type, n).log_active
              = m.log_active + IF type = "LOG" THEN n ELSE 0
  <1>1. CASE type = "DATA"
    <2>1. CountActive(m, type, n) = [m EXCEPT !.data_active = m.data_active + n]
      BY <1>1 DEF CountActive
    <2>. QED
      BY <1>1, <2>1 DEF BlockManagerType
  <1>2. CASE type = "LOG"
    <2>1. CountActive(m, type, n) = [m EXCEPT !.log_active = m.log_active + n]
      BY <1>2 DEF CountActive
    <2>. QED
      BY <1>2, <2>1 DEF BlockManagerType
  <1>. QED
    BY <1>1, <1>2 DEF BlockTypes

---------------------------------------------------------------------------
(* A flash whose counters can be trusted.                                  *)

\* VALID pages were written by the host, and the counter of the invalid pages
\* of a block, on which its erase is decided, is exact.
InvalidPages(f, b) == {i \in Offsets : f.page[<<b, i>>] = "INVALID"}

FlashSound(f) ==
  /\ f \in FlashType
  /\ \A p \in Ppns : f.page[p] = "VALID" => f.data[p] \in Payloads
  /\ \A b \in Blocks : f.pages_invalid[b] = Cardinality(InvalidPages(f, b))

\* A block that can be programmed from its first page on.
Erased(f, b) == f.pages_valid[b] = 0 /\ \A i \in Offsets : f.page[<<b, i>>] = "EMPTY"

\* The two flashes agree on a block.
SameBlock(f, g, b) ==
  /\ g.pages_valid[b] = f.pages_valid[b]
  /\ \A i \in Offsets : /\ g.page[<<b, i>>] = f.page[<<b, i>>]
                        /\ g.data[<<b, i>>] = f.data[<<b, i>>]

LEMMA OffsetsFinite ==
  /\ IsFiniteSet(Offsets)
  /\ Cardinality(Offsets) = BLOCK_SIZE
  <1>1. 0 \in Int /\ BLOCK_SIZE - 1 \in Int
    BY GeometryAssumption
  <1>. QED
    BY <1>1, FS_Interval, GeometryAssumption DEF Offsets

\* A block is erased by its FTL only when its last page is INVALID.
LEMMA AllInvalid ==
  ASSUME NEW f, FlashSound(f), NEW b \in Blocks, f.pages_invalid[b] >= BLOCK_SIZE
  PROVE  \A i \in Offsets : f.page[<<b, i>>] = "INVALID"
  <1>1. InvalidPages(f, b) \in SUBSET Offsets
    BY DEF InvalidPages
  <1>2. /\ Cardinality(InvalidPages(f, b)) <= BLOCK_SIZE
        /\ BLOCK_SIZE = Cardinality(InvalidPages(f, b)) => Offsets = InvalidPages(f, b)
    BY <1>1, OffsetsFinite, FS_Subset
  <1>3. /\ Cardinality(InvalidPages(f, b)) >= BLOCK_SIZE
        /\ Cardinality(InvalidPages(f, b)) \in Nat
    BY DEF FlashSound, FlashType
  <1>4. Offsets = InvalidPages(f, b)
    BY <1>2, <1>3, GeometryAssumption
  <1>. QED
    BY <1>4 DEF InvalidPages

LEMMA ProgramSound ==
  ASSUME NEW f, FlashSound(f), NEW p \in Ppns, NEW d \in Payloads, f.page[p] = "EMPTY"
  PROVE  /\ FlashSound(Program(f, p, d))
         /\ \A b \in Blocks : b # p[1] => SameBlock(f, Program(f, p, d), b)
  <1>. DEFINE g == Program(f, p, d)
  <1>1. f \in FlashType
    BY DEF FlashSound
  <1>2. /\ g \in FlashType
        /\ g.page = [f.page EXCEPT ![p] = "VALID"]
        /\ g.data = [f.data EXCEPT ![p] = d]
        /\ g.pages_valid = [f.pages_valid EXCEPT ![p[1]] = f.pages_valid[p[1]] + 1]
        /\ g.pages_invalid = f.pages_invalid
    BY <1>1, ProgramEffect DEF Contents
  <1>. HIDE DEF g
  <1>3. /\ f.page \in [Ppns -> PageStates]
        /\ f.data \in [Ppns -> Contents]
        /\ f.pages_valid \in [Blocks -> Nat]
    BY <1>1 DEF FlashType
  <1>4. \A q \in Ppns : g.page[q] = "VALID" => g.data[q] \in Payloads
    BY <1>2, <1>3 DEF FlashSound
  <1>5. \A b \in Blocks : InvalidPages(g, b) = InvalidPages(f, b)
    <2>1. \A b \in Blocks, i \in Offsets : <<b, i>> \in Ppns
      BY DEF Ppns
    <2>2. \A b \in Blocks, i \in Offsets :
            g.page[<<b, i>>] = "INVALID" <=> f.page[<<b, i>>] = "INVALID"
      BY <1>2, <1>3, <2>1
    <2>. QED
      BY <2>2 DEF InvalidPages
  <1>6. \A b \in Blocks : b # p[1] => SameBlock(f, g, b)
    <2>1. \A b \in Blocks, i \in Offsets : <<b, i>> \in Ppns /\ <<b, i>>[1] = b
      BY DEF Ppns
    <2>. QED
      BY <1>2, <1>3, <2>1 DEF SameBlock
  <1>. QED
    BY <1>2, <1>4, <1>5, <1>6 DEF FlashSound, g

LEMMA ReplaceSound ==
  ASSUME NEW f, FlashSound(f), NEW p \in Ppns \cup {NoPpn}
  PROVE  /\ FlashSound(Replace(f, p))
         /\ \A b \in Blocks : b # p[1] => SameBlock(f, Replace(f, p), b)
  <1>. DEFINE g == Replace(f, p)
  <1>1. f \in FlashType
    BY DEF FlashSound
  <1>2. CASE p = NoPpn
    BY <1>1, <1>2, ReplaceEffect DEF SameBlock
  <1>3. CASE p \in Ppns
    <2>1. /\ g \in FlashType
          /\ g.page = [f.page EXCEPT ![p] = "INVALID"]
          /\ g.data = f.data
          /\ g.pages_valid = f.pages_valid
      BY <1>1, <1>3, ReplaceEffect
    <2>2. /\ f.page \in [Ppns -> PageStates]
          /\ f.pages_invalid \in [Blocks -> Nat]
          /\ p = <<p[1], p[2]>> /\ p[1] \in Blocks /\ p[2] \in Offsets
          /\ \A b \in Blocks, i \in Offsets : <<b, i>> \in Ppns
      BY <1>1, <1>3 DEF FlashType, Ppns
    <2>3. p # NoPpn
      BY <1>3, NoPpnNotPage
    <2>4. IF f.page[p] = "INVALID" THEN g = f
          ELSE g.pages_invalid = [f.pages_invalid EXCEPT ![p[1]] = f.pages_invalid[p[1]] + 1]
      BY <1>1, <2>3 DEF Replace, Invalidate, FlashType
    <2>. HIDE DEF g
    <2>5. \A q \in Ppns : g.page[q] = "VALID" => g.data[q] \in Payloads
      BY <2>1, <2>2 DEF FlashSound
    <2>6. \A b \in Blocks : b # p[1] => InvalidPages(g, b) = InvalidPages(f, b)
      <3>1. \A b \in Blocks, i \in Offsets : b # p[1] => g.page[<<b, i>>] = f.page[<<b, i>>]
        BY <2>1, <2>2
      <3>. QED
        BY <3>1 DEF InvalidPages
    <2>7. InvalidPages(g, p[1]) = InvalidPages(f, p[1]) \cup {p[2]}
      <3>1. \A i \in Offsets : g.page[<<p[1], i>>]
                = IF i = p[2] THEN "INVALID" ELSE f.page[<<p[1], i>>]
        BY <2>1, <2>2
      <3>. QED
        BY <2>2, <3>1 DEF InvalidPages
    <2>8. Cardinality(InvalidPages(f, p[1]) \cup {p[2]})
            = IF p[2] \in InvalidPages(f, p[1]) THEN Cardinality(InvalidPages(f, p[1]))
              ELSE Cardinality(InvalidPages(f, p[1])) + 1
      <3>1. IsFiniteSet(InvalidPages(f, p[1]))
        BY OffsetsFinite, FS_Subset DEF InvalidPages
      <3>. QED
        BY <3>1, FS_AddElement
    <2>9. f.page[p] = "INVALID" <=> p[2] \in InvalidPages(f, p[1])
      BY <2>2 DEF InvalidPages
    <2>10. \A b \in Blocks : g.pages_invalid[b] = Cardinality(InvalidPages(g, b))
      BY <2>2, <2>4, <2>6, <2>7, <2>8, <2>9 DEF FlashSound
    <2>11. \A b \in Blocks : b # p[1] => SameBlock(f, g, b)
      <3>1. \A b \in Blocks, i \in Offsets : b # p[1] => g.page[<<b, i>>] = f.page[<<b, i>>]
        BY <2>1, <2>2
      <3>. QED
        BY <2>1, <3>1 DEF SameBlock
    <2>. QED
      BY <2>1, <2>5, <2>10, <2>11 DEF FlashSound, g
  <1>. QED
    BY <1>2, <1>3

LEMMA EraseSound ==
  ASSUME NEW f, FlashSound(f), NEW b \in Blocks, CanErase(f, b)
  PROVE  /\ FlashSound(Erase(f, {b}))
         /\ Erased(Erase(f, {b}), b)
         /\ \A c \in Blocks : c # b =>
              /\ SameBlock(f, Erase(f, {b}), c)
              /\ Erase(f, {b}).erases_remaining[c] = f.erases_remaining[c]
  <1>. DEFINE g == Erase(f, {b})
  <1>1. f \in FlashType
    BY DEF FlashSound
  <1>2. \A x \in {b} : CanErase(f, x)
    OBVIOUS
  <1>3. /\ g \in FlashType
        /\ g.data = f.data
        /\ \A p \in Ppns : g.page[p] = IF p[1] = b THEN "EMPTY" ELSE f.page[p]
        /\ \A c \in Blocks :
             /\ g.pages_valid[c] = IF c = b THEN 0 ELSE f.pages_valid[c]
             /\ g.pages_invalid[c] = IF c = b THEN 0 ELSE f.pages_invalid[c]
             /\ c # b => g.erases_remaining[c] = f.erases_remaining[c]
    BY <1>1, <1>2, EraseEffect
  <1>. HIDE DEF g
  <1>4. \A c \in Blocks, i \in Offsets : <<c, i>> \in Ppns /\ <<c, i>>[1] = c
    BY DEF Ppns
  <1>5. \A c \in Blocks, i \in Offsets :
          g.page[<<c, i>>] = IF c = b THEN "EMPTY" ELSE f.page[<<c, i>>]
    BY <1>3, <1>4
  <1>6. \A p \in Ppns : g.page[p] = "VALID" => g.data[p] \in Payloads
    BY <1>3 DEF FlashSound
  <1>7. InvalidPages(g, b) = {} /\ Cardinality({}) = 0
    BY <1>5, FS_EmptySet DEF InvalidPages
  <1>8. \A c \in Blocks : c # b => InvalidPages(g, c) = InvalidPages(f, c)
    BY <1>5 DEF InvalidPages
  <1>9. \A c \in Blocks : g.pages_invalid[c] = Cardinality(InvalidPages(g, c))
    BY <1>3, <1>7, <1>8 DEF FlashSound
  <1>10. FlashSound(g)
    BY <1>3, <1>6, <1>9 DEF FlashSound
  <1>11. Erased(g, b)
    BY <1>3, <1>5 DEF Erased
  <1>12. \A c \in Blocks : c # b =>
           SameBlock(f, g, c) /\ g.erases_remaining[c] = f.erases_remaining[c]
    BY <1>3, <1>5 DEF SameBlock
  <1>. QED
    BY <1>10, <1>11, <1>12 DEF g

\* A write of an EMPTY page that replaces another one, page by page.
LEMMA ProgramReplaceEffect ==
  ASSUME NEW f, FlashSound(f), NEW p \in Ppns, f.page[p] = "EMPTY", NEW d \in Payloads,
         NEW old \in Ppns \cup {NoPpn}, old # p,
         NEW g, g = Replace(Program(f, p, d), old)
  PROVE  /\ FlashSound(g)
         /\ g.erases_remaining = f.erases_remaining
         /\ \A c \in Blocks :
              g.pages_valid[c] = IF c = p[1] THEN f.pages_valid[c] + 1 ELSE f.pages_valid[c]
         /\ \A q \in Ppns :
              /\ g.page[q] = IF q = p THEN "VALID" ELSE IF q = old THEN "INVALID" ELSE f.page[q]
              /\ g.data[q] = IF q = p THEN d ELSE f.data[q]
         /\ \A c \in Blocks : c # p[1] /\ c # old[1] => SameBlock(f, g, c)
  <1>. DEFINE h == Program(f, p, d)
  <1>1. f \in FlashType
    BY DEF FlashSound
  <1>2. /\ h \in FlashType
        /\ h.page = [f.page EXCEPT ![p] = "VALID"]
        /\ h.data = [f.data EXCEPT ![p] = d]
        /\ h.pages_valid = [f.pages_valid EXCEPT ![p[1]] = f.pages_valid[p[1]] + 1]
        /\ h.erases_remaining = f.erases_remaining
    BY <1>1, ProgramEffect DEF Contents
  <1>3. FlashSound(h) /\ \A c \in Blocks : c # p[1] => SameBlock(f, h, c)
    BY ProgramSound
  <1>. HIDE DEF h
  <1>4. g = Replace(h, old)
    BY DEF h
  <1>5. /\ g.data = h.data
        /\ g.pages_valid = h.pages_valid
        /\ g.erases_remaining = h.erases_remaining
        /\ old \in Ppns => g.page = [h.page EXCEPT ![old] = "INVALID"]
        /\ old = NoPpn => g = h
    BY <1>2, <1>4, ReplaceEffect, SMTT(60)
  <1>6. FlashSound(g) /\ \A c \in Blocks : c # old[1] => SameBlock(h, g, c)
    BY <1>3, <1>4, ReplaceSound
  <1>7. \A q \in Ppns : /\ h.page[q] = IF q = p THEN "VALID" ELSE f.page[q]
                        /\ h.data[q] = IF q = p THEN d ELSE f.data[q]
    BY <1>1, <1>2 DEF FlashType
  <1>8. \A q \in Ppns : g.page[q] = IF q = old THEN "INVALID" ELSE h.page[q]
    <2>1. CASE old \in Ppns
      BY <1>2, <1>5, <2>1 DEF FlashType
    <2>2. CASE old = NoPpn
      BY <1>5, <2>2, NoPpnNotPage
    <2>. QED
      BY <2>1, <2>2
  <1>9. \A c \in Blocks :
          g.pages_valid[c] = IF c = p[1] THEN f.pages_valid[c] + 1 ELSE f.pages_valid[c]
    BY <1>1, <1>2, <1>5 DEF FlashType
  <1>10. \A c \in Blocks : c # p[1] /\ c # old[1] => SameBlock(f, g, c)
    BY <1>3, <1>6 DEF SameBlock
  <1>. QED
    BY <1>2, <1>5, <1>6, <1>7, <1>8, <1>9, <1>10

\* An invalidation, page by page.
LEMMA InvalidateEffect ==
  ASSUME NEW f, FlashSound(f), NEW p \in Ppns, NEW g, g = Invalidate(f, p)
  PROVE  /\ FlashSound(g)
         /\ g.erases_remaining = f.erases_remaining
         /\ g.pages_valid = f.pages_valid
         /\ \A q \in Ppns : /\ g.page[q] = IF q = p THEN "INVALID" ELSE f.page[q]
                            /\ g.data[q] = f.data[q]
         /\ \A c \in Blocks : c # p[1] => SameBlock(f, g, c)
  <1>1. g = Replace(f, p)
    BY NoPpnNotPage DEF Replace
  <1>2. f \in FlashType
    BY DEF FlashSound
  <1>3. /\ g.data = f.data
        /\ g.pages_valid = f.pages_valid
        /\ g.erases_remaining = f.erases_remaining
        /\ g.page = [f.page EXCEPT ![p] = "INVALID"]
    BY <1>1, <1>2, ReplaceEffect
  <1>4. FlashSound(g) /\ \A c \in Blocks : c # p[1] => SameBlock(f, g, c)
    BY <1>1, ReplaceSound
  <1>. QED
    BY <1>2, <1>3, <1>4 DEF FlashType
===============================================================================
