---------------------------- MODULE Channel_proofs ----------------------------
(***************************************************************************)
(* Proofs about Channel for all delays and for schedules of any length.    *)
(***************************************************************************)
EXTENDS Channel, FiniteSetTheorems, TLAPS

\* Every non-empty part of a table has a first and a last entry.  (True of
\* every finite table, and kept by lock entry by entry.)
Ordered(T) ==
  \A S \in SUBSET T : S # {} =>
    /\ \E t \in S : \A u \in S : t[1] <= u[1]
    /\ \E t \in S : \A u \in S : u[1] <= t[1]

Disjoint(T) == \A t, u \in T : t = u \/ ~Overlap(t, u)

\* A transfer the table has forgotten ended before some lock's start time.
ForgottenEnded == \A t \in carried \ timings : t[2] <= horizon

IInv ==
  /\ TypeOK
  /\ TableDisjoint
  /\ Ordered(timings)
  /\ ReadyAtIsLast
  /\ ForgottenEnded

---------------------------------------------------------------------------
(* The scan of lock, over any table.                                       *)

\* A table with a first and a last entry in every part keeps that property
\* when entries expire and when one is added.
LEMMA OrderedKept ==
  ASSUME NEW T \in SUBSET Transfers, Ordered(T),
         NEW U \in SUBSET T, NEW x \in Transfers
  PROVE  Ordered(U \cup {x})
  <1>. SUFFICES ASSUME NEW S \in SUBSET (U \cup {x}), S # {}
                PROVE  /\ \E t \in S : \A u \in S : t[1] <= u[1]
                       /\ \E t \in S : \A u \in S : u[1] <= t[1]
    BY DEF Ordered
  <1>. DEFINE R == S \ {x}
  <1>1. \A t \in S : t[1] \in Nat
    BY DEF Transfers
  <1>2. CASE R = {}
    <2>1. S = {x}
      BY <1>2
    <2>. QED
      BY <1>1, <2>1
  <1>3. CASE R # {}
    <2>1. R \in SUBSET T
      OBVIOUS
    <2>2. PICK a \in R : \A u \in R : a[1] <= u[1]
      BY <1>3, <2>1 DEF Ordered
    <2>3. PICK b \in R : \A u \in R : u[1] <= b[1]
      BY <1>3, <2>1 DEF Ordered
    <2>4. CASE x \in S
      <3>1. \E t \in S : \A u \in S : t[1] <= u[1]
        <4>1. CASE x[1] <= a[1]
          <5>1. \A u \in S : x[1] <= u[1]
            BY <1>1, <2>2, <2>4, <4>1
          <5>. QED
            BY <2>4, <5>1
        <4>2. CASE a[1] <= x[1]
          <5>1. \A u \in S : a[1] <= u[1]
            BY <1>1, <2>2, <2>4, <4>2
          <5>. QED
            BY <5>1
        <4>. QED
          BY <1>1, <2>4, <4>1, <4>2
      <3>2. \E t \in S : \A u \in S : u[1] <= t[1]
        <4>1. CASE b[1] <= x[1]
          <5>1. \A u \in S : u[1] <= x[1]
            BY <1>1, <2>3, <2>4, <4>1
          <5>. QED
            BY <2>4, <5>1
        <4>2. CASE x[1] <= b[1]
          <5>1. \A u \in S : u[1] <= b[1]
            BY <1>1, <2>3, <2>4, <4>2
          <5>. QED
            BY <5>1
        <4>. QED
          BY <1>1, <2>4, <4>1, <4>2
      <3>. QED
        BY <3>1, <3>2
    <2>5. CASE x \notin S
      BY <2>2, <2>3, <2>5
    <2>. QED
      BY <2>4, <2>5
  <1>. QED
    BY <1>2, <1>3

\* When the transfer does not fit at once, there is a first entry after which
\* it fits.
LEMMA FirstFitExists ==
  ASSUME NEW T \in SUBSET Transfers, Ordered(T),
         NEW start \in Nat, NEW duration \in Nat \ {0},
         ~FitsAtOnce(T, start, duration)
  PROVE  /\ FirstFit(T, duration) \in T
         /\ FitsAfter(T, FirstFit(T, duration), duration)
         /\ \A u \in T : FitsAfter(T, u, duration) => FirstFit(T, duration)[1] <= u[1]
  <1>. DEFINE F == {t \in T : FitsAfter(T, t, duration)}
  <1>1. T # {}
    BY DEF FitsAtOnce
  <1>2. PICK last \in T : \A u \in T : u[1] <= last[1]
    BY <1>1 DEF Ordered
  <1>3. Later(T, last) = {}
    BY <1>2 DEF Later, Transfers
  <1>4. F # {}
    BY <1>3 DEF FitsAfter
  <1>5. F \in SUBSET T
    OBVIOUS
  <1>6. PICK t \in F : \A u \in F : t[1] <= u[1]
    BY <1>4, <1>5 DEF Ordered
  <1>7. /\ FitsAfter(T, t, duration)
        /\ \A u \in T : FitsAfter(T, u, duration) => t[1] <= u[1]
    BY <1>6
  <1>. QED
    BY <1>7 DEF FirstFit

\* The scan finds a free interval, never before start, and no earlier one is
\* free: the correctness of Channel::lock over a table without expired entries.
LEMMA SchedTimeCorrect ==
  ASSUME NEW T \in SUBSET Transfers, Ordered(T), Disjoint(T),
         NEW start \in Nat, NEW duration \in Nat \ {0},
         \A t \in T : t[2] > start
  PROVE  LET s == SchedTime(T, start, duration) IN
         /\ s \in Nat
         /\ s >= start
         /\ \A t \in T : ~Overlap(<<s, s + duration>>, t)
         /\ \A r \in start .. s - 1 : \E t \in T : Overlap(<<r, r + duration>>, t)
  <1>. DEFINE s == SchedTime(T, start, duration)
              f == FirstFit(T, duration)
  <1>1. \A t \in T : t[1] \in Nat /\ t[2] \in Nat /\ t[1] < t[2]
    BY DEF Transfers
  <1>2. CASE FitsAtOnce(T, start, duration)
    <2>1. s = start
      BY <1>2 DEF SchedTime
    <2>2. \A t \in T : ~Overlap(<<start, start + duration>>, t)
      BY <1>1, <1>2 DEF FitsAtOnce, Overlap
    <2>. QED
      BY <2>1, <2>2
  <1>3. CASE ~FitsAtOnce(T, start, duration)
    <2>1. /\ f \in T
          /\ FitsAfter(T, f, duration)
          /\ \A u \in T : FitsAfter(T, u, duration) => f[1] <= u[1]
      BY <1>3, FirstFitExists
    <2>2. s = f[2]
      BY <1>3 DEF SchedTime
    <2>3. s \in Nat /\ s > start
      BY <1>1, <2>1, <2>2
    <2>4. ASSUME NEW t \in T
          PROVE  ~Overlap(<<s, s + duration>>, t)
      <3>1. CASE t = f
        BY <1>1, <2>1, <2>2, <3>1 DEF Overlap
      <3>2. CASE t # f /\ t[1] > f[1]
        <4>1. t[1] - f[2] >= duration
          BY <2>1, <3>2 DEF FitsAfter, Later
        <4>. QED
          BY <1>1, <2>1, <2>2, <4>1 DEF Overlap
      <3>3. CASE t # f /\ ~(t[1] > f[1])
        <4>1. ~Overlap(t, f)
          BY <2>1, <3>3 DEF Disjoint
        <4>2. t[2] <= f[1]
          BY <1>1, <2>1, <3>3, <4>1 DEF Overlap
        <4>. QED
          BY <1>1, <2>1, <2>2, <4>2 DEF Overlap
      <3>. QED
        BY <3>1, <3>2, <3>3
    <2>5. ASSUME NEW r \in start .. s - 1,
                 \A t \in T : ~Overlap(<<r, r + duration>>, t)
          PROVE  FALSE
      <3>. DEFINE E == {t \in T : t[2] <= r}
      <3>1. r \in Nat /\ start <= r /\ r < s
        BY <2>3
      <3>2. \A t \in T \ E : t[1] >= r + duration
        BY <1>1, <2>5, <3>1 DEF Overlap
      <3>3. E # {}
        <4>1. SUFFICES ASSUME E = {} PROVE FALSE
          OBVIOUS
        <4>2. \A t \in T : t[1] >= r + duration
          BY <3>2, <4>1
        <4>3. FitsAtOnce(T, start, duration)
          BY <1>1, <3>1, <4>2 DEF FitsAtOnce
        <4>. QED
          BY <1>3, <4>3
      <3>4. E \in SUBSET T
        OBVIOUS
      <3>5. PICK e \in E : \A u \in E : u[1] <= e[1]
        BY <3>3, <3>4 DEF Ordered
      <3>6. \A u \in Later(T, e) : u[1] - e[2] >= duration
        <4>1. SUFFICES ASSUME NEW u \in T, u[1] > e[1]
                       PROVE  u[1] - e[2] >= duration
          BY DEF Later
        <4>2. u \notin E
          BY <1>1, <3>5, <4>1
        <4>3. u[1] >= r + duration /\ e[2] <= r
          BY <3>2, <4>2
        <4>. QED
          BY <1>1, <3>1, <4>3
      <3>7. f[1] <= e[1]
        BY <2>1, <3>6 DEF FitsAfter
      <3>8. f[2] <= e[2]
        <4>1. f = e \/ ~Overlap(f, e)
          BY <2>1 DEF Disjoint
        <4>. QED
          BY <1>1, <2>1, <3>7, <4>1 DEF Overlap
      <3>. QED
        BY <1>1, <2>1, <2>2, <3>1, <3>8
    <2>. QED
      BY <2>2, <2>3, <2>4, <2>5
  <1>. QED
    BY <1>2, <1>3

---------------------------------------------------------------------------
(* The specification.                                                      *)

\* What one lock books, given the invariant.
LEMMA LockEffect ==
  ASSUME IInv, lock
  PROVE  LET T == Unexpired(timings, LockStart)
             t == <<Sched, Sched + LockDuration>>
         IN /\ LockStart \in Nat
            /\ t \in Transfers
            /\ Sched >= LockStart
            /\ T \subseteq timings
            /\ Ordered(T \cup {t})
            /\ t \notin T
            /\ \A u \in T : ~Overlap(t, u)
            /\ \A r \in LockStart .. Sched - 1 :
                 \E u \in T : Overlap(<<r, r + LockDuration>>, u)
  <1>. DEFINE T == Unexpired(timings, LockStart)
              t == <<Sched, Sched + LockDuration>>
  <1>1. LockStart \in Nat
    BY DEF IInv, TypeOK, LockStart
  <1>2. LockDuration \in Nat \ {0}
    BY DelayAssumption DEF LockDuration
  <1>3. T \in SUBSET Transfers /\ T \subseteq timings /\ timings \in SUBSET Transfers
    BY DEF IInv, TypeOK, Unexpired
  <1>4. Ordered(T)
    BY <1>3 DEF IInv, Ordered
  <1>5. Disjoint(T)
    BY <1>3 DEF IInv, TableDisjoint, Disjoint
  <1>6. \A u \in T : u[2] > LockStart
    BY DEF Unexpired
  <1>7. /\ Sched \in Nat
        /\ Sched >= LockStart
        /\ \A u \in T : ~Overlap(t, u)
        /\ \A r \in LockStart .. Sched - 1 :
             \E u \in T : Overlap(<<r, r + LockDuration>>, u)
    BY <1>1, <1>2, <1>3, <1>4, <1>5, <1>6, SchedTimeCorrect DEF Sched
  <1>8. t \in Transfers
    BY <1>2, <1>7 DEF Transfers
  <1>9. Ordered(T \cup {t})
    BY <1>3, <1>8, OrderedKept DEF IInv
  <1>10. t \notin T
    <2>1. Overlap(t, t)
      BY <1>2, <1>7 DEF Overlap
    <2>. QED
      BY <1>7, <2>1
  <1>. QED
    BY <1>1, <1>3, <1>7, <1>8, <1>9, <1>10

\* The channel starts unused.
LEMMA InitIInv == Init => IInv
  <1>. SUFFICES ASSUME Init PROVE IInv
    OBVIOUS
  <1>1. TypeOK
    BY BoundAssumption, FS_EmptySet DEF Init, TypeOK, EventTypes, Phases
  <1>2. TableDisjoint /\ Ordered(timings) /\ ReadyAtIsLast /\ ForgottenEnded
    BY DEF Init, TableDisjoint, Ordered, ReadyAtIsLast, ForgottenEnded
  <1>. QED
    BY <1>1, <1>2 DEF IInv

\* The later of the last unlock_time and that of a new transfer is the last.
LEMMA LatestKept ==
  ASSUME NEW C \in SUBSET Transfers, NEW x \in Transfers, NEW last \in Nat \cup {-1},
         C = {} => last = -1,
         C # {} => /\ \E u \in C : u[2] = last
                   /\ \A u \in C : u[2] <= last
  PROVE  LET m == IF x[2] > last THEN x[2] ELSE last IN
         /\ \E u \in C \cup {x} : u[2] = m
         /\ \A u \in C \cup {x} : u[2] <= m
  <1>1. x[2] \in Nat /\ \A u \in C : u[2] \in Nat
    BY DEF Transfers
  <1>2. CASE x[2] > last
    BY <1>1, <1>2
  <1>3. CASE ~(x[2] > last)
    <2>1. C # {}
      BY <1>1, <1>3
    <2>. QED
      BY <1>1, <1>3, <2>1
  <1>. QED
    BY <1>2, <1>3

\* A lock keeps the invariant: the new entry meets none that is left, and
\* what was dropped had ended.
LEMMA LockKeepsIInv ==
  ASSUME IInv, lock
  PROVE  IInv'
  <1>. DEFINE T == Unexpired(timings, LockStart)
              t == <<Sched, Sched + LockDuration>>
  <1>1. /\ LockStart \in Nat
        /\ t \in Transfers
        /\ Sched >= LockStart
        /\ T \subseteq timings
        /\ Ordered(T \cup {t})
        /\ \A u \in T : ~Overlap(t, u)
    BY LockEffect
  <1>2. /\ timings' = T \cup {t}
        /\ carried' = carried \cup {t}
        /\ ready_at' = ReadyAt(t[2])
        /\ horizon' = IF LockStart > horizon THEN LockStart ELSE horizon
        /\ now' = now
    BY DEF lock
  <1>3. /\ timings \subseteq carried
        /\ carried \subseteq Transfers
        /\ IsFiniteSet(carried)
        /\ ready_at \in Nat \cup {-1}
        /\ horizon \in Nat
    BY DEF IInv, TypeOK
  <1>4. \A u \in carried' : u[1] \in Nat /\ u[2] \in Nat /\ u[1] < u[2]
    BY <1>1, <1>2, <1>3 DEF Transfers
  <1>5. TypeOK'
    <2>1. event' \in [type : EventTypes, start_time : Nat, time_taken : Nat, phase : Phases]
      <3>1. Sched - LockStart \in Nat
        BY <1>1 DEF Transfers
      <3>2. LockDuration \in Nat /\ PackageDelay \in Nat
        BY DelayAssumption DEF LockDuration, PackageDelay
      <3>3. NextPhase \in Phases
        BY DEF NextPhase, Phases
      <3>4. event \in [type : EventTypes, start_time : Nat, time_taken : Nat, phase : Phases]
        BY DEF IInv, TypeOK
      <3>5. event.time_taken + (Sched - LockStart) + LockDuration + PackageDelay \in Nat
        BY <3>1, <3>2, <3>4
      <3>6. event' = [event EXCEPT
              !.time_taken = event.time_taken + (Sched - LockStart) + LockDuration + PackageDelay,
              !.phase      = NextPhase]
        BY DEF lock
      <3>. QED
        BY <3>3, <3>4, <3>5, <3>6
    <2>2. ready_at' \in Nat \cup {-1} /\ horizon' \in Nat
      BY <1>1, <1>2, <1>3, <1>4 DEF ReadyAt
    <2>3. /\ timings' \subseteq carried'
          /\ carried' \subseteq Transfers
          /\ IsFiniteSet(carried')
      BY <1>1, <1>2, <1>3, FS_AddElement
    <2>4. now' \in 0 .. MAX_TIME
      BY <1>2 DEF IInv, TypeOK
    <2>. QED
      BY <2>1, <2>2, <2>3, <2>4 DEF TypeOK
  <1>6. TableDisjoint'
    <2>1. SUFFICES ASSUME NEW u \in T \cup {t}, NEW v \in T \cup {t}
                   PROVE  u = v \/ ~Overlap(u, v)
      BY <1>2 DEF TableDisjoint, Overlap
    <2>2. CASE u \in T /\ v \in T
      BY <1>1, <2>2 DEF IInv, TableDisjoint
    <2>3. CASE u = t \/ v = t
      BY <1>1, <2>1, <2>3 DEF Overlap
    <2>. QED
      BY <2>1, <2>2, <2>3
  <1>7. Ordered(timings)'
    BY <1>1, <1>2 DEF Ordered
  <1>8. ReadyAtIsLast'
    <2>1. ready_at' = IF t[2] > ready_at THEN t[2] ELSE ready_at
      BY <1>2 DEF ReadyAt
    <2>2. /\ carried = {} => ready_at = -1
          /\ carried # {} => /\ \E u \in carried : u[2] = ready_at
                             /\ \A u \in carried : u[2] <= ready_at
      BY DEF IInv, ReadyAtIsLast
    <2>3. /\ \E u \in carried \cup {t} : u[2] = ready_at'
          /\ \A u \in carried \cup {t} : u[2] <= ready_at'
      BY <1>1, <1>3, <2>1, <2>2, LatestKept
    <2>. QED
      BY <1>2, <2>3 DEF ReadyAtIsLast
  <1>9. ForgottenEnded'
    <2>1. SUFFICES ASSUME NEW u \in carried', u \notin timings'
                   PROVE  u[2] <= horizon'
      BY DEF ForgottenEnded
    <2>2. u \in carried /\ u \notin T
      BY <1>2, <2>1
    <2>3. CASE u \in timings
      BY <1>1, <1>2, <1>3, <1>4, <2>2, <2>3 DEF Unexpired
    <2>4. CASE u \notin timings
      BY <1>1, <1>2, <1>3, <1>4, <2>2, <2>4 DEF IInv, ForgottenEnded
    <2>. QED
      BY <2>3, <2>4
  <1>. QED
    BY <1>5, <1>6, <1>7, <1>8, <1>9 DEF IInv

\* The arrival of a request touches neither the table nor the history.
LEMMA IssueKeepsIInv ==
  ASSUME IInv, NEW type \in EventTypes, NEW start \in 0 .. MAX_TIME,
         NEW before \in 0 .. MAX_BEFORE, issue(type, start, before)
  PROVE  IInv'
  <1>1. TypeOK'
    BY BoundAssumption DEF IInv, TypeOK, issue, Phases
  <1>2. TableDisjoint' /\ Ordered(timings)' /\ ReadyAtIsLast' /\ ForgottenEnded'
    BY DEF issue, IInv, TableDisjoint, Ordered, ReadyAtIsLast, ForgottenEnded, Overlap
  <1>. QED
    BY <1>1, <1>2 DEF IInv

\* The invariant holds in every reachable state.
THEOREM Invariance == Spec => []IInv
  <1>1. IInv /\ [Next]_vars => IInv'
    <2>. SUFFICES ASSUME IInv, [Next]_vars PROVE IInv'
      OBVIOUS
    <2>1. CASE lock
      BY <2>1, LockKeepsIInv
    <2>2. ASSUME NEW type \in EventTypes, NEW start \in 0 .. MAX_TIME,
                 NEW before \in 0 .. MAX_BEFORE, issue(type, start, before)
          PROVE  IInv'
      BY <2>2, IssueKeepsIInv
    <2>3. CASE UNCHANGED vars
      BY <2>3 DEF vars, IInv, TypeOK, TableDisjoint, Ordered, ReadyAtIsLast,
                  ForgottenEnded, Overlap
    <2>. QED
      BY <2>1, <2>2, <2>3 DEF Next
  <1>. QED
    BY <1>1, InitIInv, PTL DEF Spec

\* The transfers in the scheduling table never overlap, and ready_time() is
\* the end of the last transfer of the whole history.
THEOREM TableSound == Spec => []TableDisjoint /\ []ReadyAtIsLast
  <1>1. IInv => TableDisjoint /\ ReadyAtIsLast
    BY DEF IInv
  <1>. QED
    BY <1>1, Invariance, PTL

\* lock finds the first moment at which the channel is free for long enough.
THEOREM LockIsEarliest == Spec => EarliestSlot
  <1>. DEFINE A == \A t \in timings' \ timings :
                    /\ t[1] >= LockStart
                    /\ \A s \in LockStart .. t[1] - 1 :
                         \E u \in timings' \ {t} : Overlap(<<s, s + LockDuration>>, u)
  <1>1. IInv /\ [Next]_vars => [A]_vars
    <2>. SUFFICES ASSUME IInv, Next PROVE A
      BY DEF A
    <2>1. CASE lock
      <3>. DEFINE t == <<Sched, Sched + LockDuration>>
      <3>1. \A u \in timings' \ timings : u = t
        BY <2>1, LockEffect DEF lock
      <3>. QED
        BY <2>1, <3>1, LockEffect DEF lock
    <2>2. CASE timings' = timings
      BY <2>2
    <2>. QED
      BY <2>1, <2>2 DEF Next, issue
  <1>. QED
    BY <1>1, Invariance, PTL DEF Spec, EarliestSlot

\* As long as the start times of the locks do not decrease, no transfer meets
\* one of the whole history, expired entries included.
THEOREM InOrderLocksSafe == Spec => InOrderLocksDisjoint
  <1>. DEFINE A == \A t \in timings' \ timings :
                    LockStart >= horizon => \A u \in carried : ~Overlap(t, u)
  <1>1. IInv /\ [Next]_vars => [A]_vars
    <2>. SUFFICES ASSUME IInv, Next PROVE A
      BY DEF A
    <2>1. CASE lock
      <3>. DEFINE t == <<Sched, Sched + LockDuration>>
                  T == Unexpired(timings, LockStart)
      <3>1. /\ \A u \in timings' \ timings : u = t
            /\ t \in Transfers
            /\ LockStart \in Nat
            /\ Sched >= LockStart
            /\ \A u \in T : ~Overlap(t, u)
        BY <2>1, LockEffect DEF lock
      <3>2. \A u \in carried : u[1] \in Nat /\ u[2] \in Nat /\ horizon \in Nat
        BY DEF IInv, TypeOK, Transfers
      <3>3. ASSUME LockStart >= horizon, NEW u \in carried
            PROVE  ~Overlap(t, u)
        <4>1. CASE u \in T
          BY <3>1, <4>1
        <4>2. CASE u \in timings /\ u \notin T
          BY <3>1, <3>2, <4>2 DEF Unexpired, Overlap, Transfers
        <4>3. CASE u \notin timings
          BY <3>1, <3>2, <3>3, <4>3 DEF IInv, ForgottenEnded, Overlap, Transfers
        <4>. QED
          BY <4>1, <4>2, <4>3
      <3>. QED
        BY <3>1, <3>3
    <2>2. CASE timings' = timings
      BY <2>2
    <2>. QED
      BY <2>1, <2>2 DEF Next, issue
  <1>. QED
    BY <1>1, Invariance, PTL DEF Spec, InOrderLocksDisjoint
===============================================================================
