------------------------------- MODULE Channel -------------------------------
(***************************************************************************)
(* One channel of the bus (ssd_channel.cpp, ssd_bus.cpp) as                *)
(* Controller::issue (ssd_controller.cpp) uses it.  The simulator is       *)
(* sequential, but its clock is not: a request is served to its end, which *)
(* books transfers in the channel's future, before the next one arrives    *)
(* with an earlier time.  The scheduling table is what keeps two transfers *)
(* apart.                                                                  *)
(*                                                                         *)
(* Time is a natural number, and the table a set of pairs                  *)
(* <<lock_time, unlock_time>>: the code sorts it by lock_time before every *)
(* scan, and no two entries have the same one.                             *)
(***************************************************************************)
EXTENDS Integers, FiniteSets

CONSTANTS
  BUS_CTRL_DELAY,   \* time of a command on the channel
  BUS_DATA_DELAY,   \* time of a page on the channel
  READ_DELAY,       \* time the package takes between the two transfers of a READ
  MAX_TIME,         \* bound: the last time a request arrives
  MAX_BEFORE,       \* bound: time the FTL charged to an event before it is issued
  MAX_TRANSFERS     \* bound: transfers on the channel

ASSUME DelayAssumption ==
  /\ BUS_CTRL_DELAY \in Nat \ {0}
  /\ BUS_DATA_DELAY \in Nat
  /\ READ_DELAY \in Nat

ASSUME BoundAssumption ==
  /\ MAX_TIME \in Nat /\ MAX_BEFORE \in Nat /\ MAX_TRANSFERS \in Nat

VARIABLES
  timings,    \* the scheduling table
  ready_at,   \* the latest unlock_time
  now,        \* the host's clock: the last start_time of a request
  event,      \* the event being issued
  carried,    \* history: every transfer the channel was locked for
  horizon     \* history: the latest start_time lock was called with

vars == <<timings, ready_at, now, event, carried, horizon>>

EventTypes == {"READ", "WRITE", "ERASE", "MERGE"}
Phases == {"idle", "command", "data"}
Transfers == {t \in Nat \X Nat : t[1] < t[2]}

TypeOK ==
  /\ timings \subseteq carried
  /\ carried \subseteq Transfers
  /\ IsFiniteSet(carried)
  /\ ready_at \in Nat \cup {-1}
  /\ now \in 0 .. MAX_TIME
  /\ event \in [type : EventTypes, start_time : Nat, time_taken : Nat, phase : Phases]
  /\ horizon \in Nat

Init ==
  /\ timings = {}
  /\ ready_at = -1
  /\ now = 0
  /\ event = [type |-> "WRITE", start_time |-> 0, time_taken |-> 0, phase |-> "idle"]
  /\ carried = {}
  /\ horizon = 0

Overlap(t, u) == t[1] < u[2] /\ u[1] < t[2]

(***************************************************************************)
(* Channel::lock.                                                          *)
(***************************************************************************)
\* Mutant: an entry is dropped once it has started.
Unexpired_Started(T, start) == {t \in T : t[1] > start}

\* unlock(start_time): the entries that survive.
Unexpired(T, start) == {t \in T : t[2] > start}

Later(T, t) == {u \in T : u[1] > t[1]}

\* Nothing to schedule around, or enough time before the first entry.
FitsAtOnce(T, start, duration) ==
  \A t \in T : t[1] > start /\ t[1] - start >= duration

\* Mutants: the time between two entries is not compared with the duration;
\* the gaps are not tried at all.
FitsAfter_Any(T, t, duration) == TRUE
FitsAfter_LastOnly(T, t, duration) == Later(T, t) = {}

\* Enough time between an entry and the next one; after the last, always.
FitsAfter(T, t, duration) == \A u \in Later(T, t) : u[1] - t[2] >= duration

\* The first entry after which the transfer fits.
FirstFit(T, duration) ==
  CHOOSE t \in T :
    /\ FitsAfter(T, t, duration)
    /\ \A u \in T : FitsAfter(T, u, duration) => t[1] <= u[1]

SchedTime(T, start, duration) ==
  IF FitsAtOnce(T, start, duration) THEN start ELSE FirstFit(T, duration)[2]

\* The start time and the duration of the lock an event asks for next.
LockStart ==
  IF event.phase = "data" THEN event.start_time + event.time_taken ELSE event.start_time

LockDuration ==
  IF event.phase = "data" \/ event.type = "WRITE"
    THEN BUS_CTRL_DELAY + BUS_DATA_DELAY
    ELSE BUS_CTRL_DELAY

Sched == SchedTime(Unexpired(timings, LockStart), LockStart, LockDuration)

ReadyAt(unlock) == IF unlock > ready_at THEN unlock ELSE ready_at

\* What the flash operation after the lock adds to the event, where it matters
\* for a later lock.
PackageDelay ==
  IF event.type = "READ" /\ event.phase = "command" THEN READ_DELAY ELSE 0

\* Only a READ locks the channel twice.
NextPhase ==
  IF event.type = "READ" /\ event.phase = "command" THEN "data" ELSE "idle"

lock ==
  /\ event.phase # "idle"
  /\ timings' = Unexpired(timings, LockStart) \cup {<<Sched, Sched + LockDuration>>}
  /\ ready_at' = ReadyAt(Sched + LockDuration)
  /\ event' = [event EXCEPT
       !.time_taken = event.time_taken + (Sched - LockStart) + LockDuration + PackageDelay,
       !.phase      = NextPhase]
  /\ carried' = carried \cup {<<Sched, Sched + LockDuration>>}
  /\ horizon' = IF LockStart > horizon THEN LockStart ELSE horizon
  /\ UNCHANGED now

(***************************************************************************)
(* The FTL issues the event of a request that arrives at start, no earlier *)
(* than the one before, with the time it already charged to it.            *)
(***************************************************************************)
issue(type, start, before) ==
  /\ event.phase = "idle"
  /\ Cardinality(carried) < MAX_TRANSFERS
  /\ start >= now
  /\ now' = start
  /\ event' = [type |-> type, start_time |-> start, time_taken |-> before,
               phase |-> "command"]
  /\ UNCHANGED <<timings, ready_at, carried, horizon>>

Next ==
  \/ lock
  \/ \E type \in EventTypes, start \in 0 .. MAX_TIME, before \in 0 .. MAX_BEFORE :
       issue(type, start, before)

Spec == Init /\ [][Next]_vars

(***************************************************************************)
(* Properties.                                                             *)
(***************************************************************************)
\* The transfers in the table never overlap, whatever gap each was fitted in.
TableDisjoint == \A t, u \in timings : t = u \/ ~Overlap(t, u)

\* A transfer is never early, and it gets the first moment at which the
\* channel is free for its whole duration, as far as the table knows: the
\* three-way scan of lock finds the optimum.
EarliestSlot ==
  [][\A t \in timings' \ timings :
       /\ t[1] >= LockStart
       /\ \A s \in LockStart .. t[1] - 1 :
            \E u \in timings' \ {t} : Overlap(<<s, s + LockDuration>>, u)]_vars

\* ready_time(), which the FTLs ask to choose a channel, is the end of the
\* last transfer, although transfers are booked out of order.
ReadyAtIsLast ==
  /\ carried = {} => ready_at = -1
  /\ carried # {} => /\ \E t \in carried : t[2] = ready_at
                     /\ \A t \in carried : t[2] <= ready_at

\* While the start times of the locks do not decrease, forgetting expired
\* entries is harmless: the new transfer meets none of the whole history.
InOrderLocksDisjoint ==
  [][\A t \in timings' \ timings :
       LockStart >= horizon => \A u \in carried : ~Overlap(t, u)]_vars
==============================================================================
